------------------------------ MODULE MCRoutes ------------------------------
(* A candidate with a result page, a gateway and a blocked page as its     *)
(* mirrors.  The result page links a navigation page and the gateway; the  *)
(* navigation page links back, to a file and to a library.lol page, which  *)
(* offers the gateway.                                                     *)
EXTENDS Routes, TLC

CONSTANTS page, nav, lol, get, ipfs, ad, h1, h2

MCHostOf == page :> h1 @@ nav :> h1 @@ lol :> h2 @@ get :> h1 @@ ipfs :> h2
            @@ ad :> h2
MCKind == page :> "other" @@ nav :> "nav" @@ lol :> "lol" @@ get :> "get" @@ ipfs :> "ipfs"
          @@ ad :> "other"
MCOffers == page :> {nav, ipfs} @@ nav :> {page, lol, get} @@ lol :> {ipfs} @@
            get :> {} @@ ipfs :> {} @@ ad :> {}
MCMirrors == <<page, ipfs, ad>>
=============================================================================
