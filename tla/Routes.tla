------------------------------- MODULE Routes -------------------------------
(***************************************************************************)
(* One attempt of a download worker to get a document: its mirrors, the    *)
(* pages they lead to, the routes found on the pages, and the bounded      *)
(* request retries on one route (parse_mirror_and_download, download_file  *)
(* and the mirror loop of _download_worker in app.py), with the host waits *)
(* and the health counts of NetworkManager.  The recursion of              *)
(* parse_mirror_and_download is a stack of frames; a request with its      *)
(* answer is one step.                                                     *)
(*                                                                         *)
(* Links are compared by route_identity.  Left out: interrupts and bytes   *)
(* (module Transfer), proxies, scores (candidates of one priority are      *)
(* taken in any order), and the broader page scan, which only adds links.  *)
(***************************************************************************)
EXTENDS Naturals, Sequences, FiniteSets

CONSTANTS Link, Host,
          HostOf,        \* Link -> Host
          Kind,          \* Link -> "pdf", "get", "ipfs" (routes), "lol", "nav", "other" (pages)
          Offers,        \* Link -> the links on the page behind it
          Blocked,       \* links that are never requested
          Mirrors,       \* the mirrors of a candidate, in order
          MaxPages,      \* pages visited in one attempt
          Budget,        \* max_request_retries_per_attempt
          FailureLimit,  \* failures after which a host has to wait
          MaxTurns,      \* bound: attempts of the worker
          MaxTroubles    \* bound: waits that other workers cause

ASSUME RoutesAssumption ==
  /\ HostOf \in [Link -> Host] /\ Offers \in [Link -> SUBSET Link]
  /\ Kind \in [Link -> {"pdf", "get", "ipfs", "lol", "nav", "other"}]
  /\ Blocked \subseteq Link /\ Mirrors \in Seq(Link) /\ Len(Mirrors) > 0
  /\ {MaxPages, Budget, FailureLimit, MaxTurns} \subseteq Nat \ {0} /\ MaxTroubles \in Nat

VARIABLES
  defer,     \* the setting defer_download_retries
  attempt,   \* document_attempt
  at,        \* "idle", "running", "stored" or "failed"
  todo,      \* the mirrors the attempt has left
  stack,     \* calls of parse_mirror_and_download, the innermost first
  returned,  \* what the last call returned, until its caller looks
  sending,   \* the route in download_file, and the requests made on it
  visited,   \* visited_pages
  tried,     \* attempted_download_routes
  part,      \* a .part file exists
  file,      \* the document is stored
  waiting,   \* the hosts with a route_waits deadline in the future
  failures,  \* route_failures
  denied,    \* context.deferred: a request was not admitted
  limited,   \* last_error of the record is an HTTP 429
  sent,      \* requests made in this attempt, by link
  told,      \* hosts that answered 429 and whose Retry-After has not passed
  turns, troubles

worker == <<attempt, at, todo>>
calls == <<stack, returned, sending>>
memory == <<visited, tried>>
disk == <<part, file>>
network == <<waiting, failures, denied>>
seen == <<sent, told>>
bounds == <<turns, troubles>>
vars == <<defer, worker, calls, memory, disk, network, limited, seen, bounds>>

IsRoute(l) == Kind[l] \in {"pdf", "get", "ipfs"}
Priority(l) == CASE Kind[l] = "pdf" -> 0 [] Kind[l] = "lol" -> 1 [] Kind[l] = "get" -> 2
                 [] Kind[l] = "ipfs" -> 3 [] OTHER -> 4
Requests == IF defer THEN 1 ELSE Budget

Answers == {"none", "stored", "next", "failed"}
Modes == {"enter", "through", "fetch", "early", "routes", "late"}
Frame == [page : Link, mode : Modes,
          routes : SUBSET Link,   \* pending_candidates
          nav : SUBSET Link,      \* discovery_links
          rest : SUBSET Link]     \* those the current loop has left
Enters(l) == [page |-> l, mode |-> "enter", routes |-> {}, nav |-> {}, rest |-> {}]
NoRoute == [tries |-> 0]

TypeOK ==
  /\ defer \in BOOLEAN /\ attempt \in 1..MaxTurns
  /\ at \in {"idle", "running", "stored", "failed"}
  /\ todo \in Seq(Link) /\ stack \in Seq(Frame) /\ Len(stack) <= MaxPages + 1
  /\ returned \in Answers
  /\ sending \in {NoRoute} \cup [link : Link, tries : 1..Budget]
  /\ visited \in SUBSET Link /\ tried \in SUBSET Link
  /\ part \in BOOLEAN /\ file \in BOOLEAN /\ denied \in BOOLEAN /\ limited \in BOOLEAN
  /\ waiting \in SUBSET Host /\ told \in SUBSET Host /\ failures \in [Host -> 0..FailureLimit]
  /\ sent \in [Link -> Nat] /\ turns \in 0..MaxTurns /\ troubles \in 0..MaxTroubles

Init ==
  /\ defer \in BOOLEAN /\ attempt = 1 /\ at = "idle" /\ todo = <<>>
  /\ stack = <<>> /\ returned = "none" /\ sending = NoRoute
  /\ visited = {} /\ tried = {} /\ part = FALSE /\ file = FALSE
  /\ waiting = {} /\ failures = [h \in Host |-> 0] /\ denied = FALSE /\ limited = FALSE
  /\ sent = [l \in Link |-> 0] /\ told = {} /\ turns = 0 /\ troubles = 0

-----------------------------------------------------------------------------
(* The attempt                                                             *)

\* With deferred retries an attempt takes one mirror, the next one each time.
Chosen(n) == IF defer THEN <<Mirrors[((n - 1) % Len(Mirrors)) + 1]>> ELSE Mirrors

\* The worker takes the document again, or the next one when it is stored.
\* Nobody clears context.deferred: it is the worker thread's, and stays.
Begin ==
  /\ at # "running" /\ turns < MaxTurns
  /\ LET n == IF at = "failed" THEN attempt + 1 ELSE 1
     IN attempt' = n /\ todo' = Chosen(n)
  /\ at' = "running" /\ visited' = {} /\ tried' = {} /\ sent' = [l \in Link |-> 0]
  /\ part' = (part /\ at = "failed") /\ file' = FALSE /\ limited' = FALSE
  /\ turns' = turns + 1
  /\ UNCHANGED <<defer, calls, network, told, troubles>>

Ends(how) == at' = how /\ todo' = <<>> /\ returned' = "none" /\ UNCHANGED attempt

\* The next mirror, or what the last one brought.
MirrorStep ==
  /\ at = "running" /\ stack = <<>> /\ sending = NoRoute
  /\ \/ /\ returned = "stored" /\ Ends("stored") /\ UNCHANGED stack
     \/ /\ returned = "next" /\ (limited \/ defer) /\ Ends("failed") /\ UNCHANGED stack
     \/ /\ returned = "failed" /\ defer /\ Ends("failed") /\ UNCHANGED stack
     \/ /\ returned = "none" \/ (returned = "next" /\ ~limited /\ ~defer)
           \/ (returned = "failed" /\ ~defer)
        /\ IF todo = <<>> THEN Ends("failed") /\ UNCHANGED stack
           ELSE /\ stack' = <<Enters(Head(todo))>> /\ todo' = Tail(todo) /\ returned' = "none"
                /\ UNCHANGED <<attempt, at>>
  /\ UNCHANGED <<defer, sending, memory, disk, network, limited, seen, bounds>>

-----------------------------------------------------------------------------
(* parse_mirror_and_download                                               *)

Top == Head(stack)
In(mode) == at = "running" /\ stack # <<>> /\ sending = NoRoute /\ Top.mode = mode
Becomes(frame) == stack' = <<frame>> \o Tail(stack)
Returns(answer) == stack' = Tail(stack) /\ returned' = answer
Calls(l, frame) == stack' = <<Enters(l), frame>> \o Tail(stack) /\ returned' = "none"

\* attempt_download_route: a route is tried once in an attempt.
Usable(l) == l \notin tried

Tries(l) == /\ tried' = tried \cup {l} /\ sending' = [link |-> l, tries |-> 1]
            /\ returned' = "none" /\ limited' = FALSE

\* Mutant of Known: pages are not remembered.
Known_Never(l) == Cardinality(visited) >= MaxPages

Known(l) == l \in visited \/ Cardinality(visited) >= MaxPages

Enter ==
  /\ In("enter")
  /\ LET l == Top.page
     IN IF Known(l) THEN Returns("next") /\ UNCHANGED <<sending, memory, limited>>
        ELSE /\ visited' = visited \cup {l}
             /\ \/ l \in Blocked /\ Returns("next") /\ UNCHANGED <<sending, tried, limited>>
                \/ /\ l \notin Blocked /\ IsRoute(l)
                   /\ IF Usable(l)
                      THEN Becomes([Top EXCEPT !.mode = "through"]) /\ Tries(l)
                      ELSE Returns("next") /\ UNCHANGED <<sending, tried, limited>>
                \/ /\ l \notin Blocked /\ ~IsRoute(l)
                   /\ Becomes([Top EXCEPT !.mode = "fetch"])
                   /\ UNCHANGED <<returned, sending, tried, limited>>
  /\ UNCHANGED <<defer, worker, disk, network, seen, bounds>>

\* A mirror that is a route itself.
Through ==
  /\ In("through") /\ Returns(returned)
  /\ UNCHANGED <<defer, worker, sending, memory, disk, network, limited, seen, bounds>>

\* gateway_result of a failure; a thread that was once denied is not counted.
Fails(h) ==
  LET count == IF failures[h] < FailureLimit THEN failures[h] + 1 ELSE FailureLimit
  IN IF denied THEN UNCHANGED <<waiting, failures>>
     ELSE /\ failures' = [failures EXCEPT ![h] = count]
          /\ waiting' = IF count = FailureLimit THEN waiting \cup {h} ELSE waiting

Ask(l) == sent' = [sent EXCEPT ![l] = @ + 1]

\* Mutant of PageLimited: the mirror page's limit is never noted.
PageLimited_Unnoted(h) == UNCHANGED <<waiting, limited>>

\* rate_limit is only called for a mirror page when retries are deferred.
PageLimited(h) == IF defer THEN waiting' = waiting \cup {h} /\ limited' = TRUE
                  ELSE UNCHANGED <<waiting, limited>>

Found == {l \in Offers[Top.page] \ Blocked : (IsRoute(l) \/ Kind[l] = "lol") /\ l \notin tried}
Onward == {l \in Offers[Top.page] \ Blocked : Kind[l] = "nav" /\ l \notin visited}

\* The request for a mirror page.
Fetch ==
  /\ In("fetch")
  /\ LET l == Top.page
         h == HostOf[l]
     IN \/ /\ h \in waiting                                         \* before_request
           /\ denied' = TRUE /\ Returns("failed")
           /\ UNCHANGED <<waiting, failures, limited, seen>>
        \/ /\ h \notin waiting /\ Ask(l)
           /\ \/ Returns("failed")                                  \* no answer
                 /\ UNCHANGED <<waiting, failures, limited, told>>
              \/ Returns("next") /\ UNCHANGED <<waiting, failures, limited, told>>
              \/ Returns("next") /\ Fails(h) /\ UNCHANGED <<limited, told>>   \* 5xx
              \/ /\ Returns("next") /\ PageLimited(h)               \* 429
                 /\ told' = told \cup {h} /\ UNCHANGED failures
              \/ /\ IF Found = {} /\ Onward = {} THEN Returns("next")         \* 200
                    ELSE /\ Becomes([Top EXCEPT
                              !.routes = Found, !.nav = Onward, !.rest = Onward,
                              !.mode = IF Onward # {} /\ \A r \in Found : Priority(r) >= 3
                                       THEN "early" ELSE "routes"])
                         /\ UNCHANGED returned
                 /\ UNCHANGED <<waiting, failures, limited, told>>
           /\ UNCHANGED denied
  /\ UNCHANGED <<defer, worker, sending, memory, disk, bounds>>

\* Mutant of Early: the loop goes on after a page that brought the document.
Early_Deaf ==
  /\ In("early")
  /\ \/ returned \notin {"none"} /\ defer /\ Returns("next")
     \/ /\ returned = "none" \/ ~defer
        /\ \/ \E l \in Top.rest : Calls(l, [Top EXCEPT !.rest = @ \ {l}])
           \/ /\ Top.rest = {} /\ returned' = "none"
              /\ Becomes([Top EXCEPT !.mode = "routes"])
  /\ UNCHANGED <<defer, worker, sending, memory, disk, network, limited, seen, bounds>>

\* Discovery pages before routes that are gateways only.
Early ==
  /\ In("early")
  /\ \/ returned = "stored" /\ Returns("stored")
     \/ returned \in {"next", "failed"} /\ defer /\ Returns("next")
     \/ /\ returned = "none" \/ (returned # "stored" /\ ~defer)
        /\ \/ \E l \in Top.rest : Calls(l, [Top EXCEPT !.rest = @ \ {l}])
           \/ /\ Top.rest = {} /\ returned' = "none"
              /\ Becomes([Top EXCEPT !.mode = "routes"])
  /\ UNCHANGED <<defer, worker, sending, memory, disk, network, limited, seen, bounds>>

\* order_candidates, or the rotation by route_pass.
First(routes) == {l \in routes : defer \/ \A m \in routes : Priority(l) <= Priority(m)}

\* Mutant of StopsAfter: deferring does not end the attempt.
StopsAfter_Stored == returned = "stored"

\* One route in a turn when retries are deferred.
StopsAfter == returned = "stored" \/ (returned # "none" /\ defer)

\* The pending candidates: the next one after "retry_next", and after a page
\* that returned False none of the others.
RouteStep ==
  /\ In("routes")
  /\ \/ /\ StopsAfter /\ Returns(IF returned = "stored" THEN "stored" ELSE "next")
        /\ UNCHANGED <<sending, tried, limited>>
     \/ /\ ~StopsAfter /\ (returned = "failed" \/ Top.routes = {})
        /\ Becomes([Top EXCEPT !.mode = "late", !.rest = Top.nav]) /\ returned' = "none"
        /\ UNCHANGED <<sending, tried, limited>>
     \/ /\ ~StopsAfter /\ returned # "failed"
        /\ \E l \in First(Top.routes) :
             LET popped == [Top EXCEPT !.routes = @ \ {l}]
             IN IF Kind[l] = "lol"
                THEN Calls(l, popped) /\ UNCHANGED <<sending, tried, limited>>
                ELSE /\ Becomes(popped)
                     /\ IF Usable(l) THEN Tries(l)
                        ELSE returned' = "next" /\ UNCHANGED <<sending, tried, limited>>
  /\ UNCHANGED <<defer, worker, visited, disk, network, seen, bounds>>

\* The discovery pages at last.
Late ==
  /\ In("late")
  /\ \/ returned = "stored" /\ Returns("stored")
     \/ returned \in {"next", "failed"} /\ defer /\ Returns("next")
     \/ /\ returned = "none" \/ (returned # "stored" /\ ~defer)
        /\ \/ \E l \in Top.rest : Calls(l, [Top EXCEPT !.rest = @ \ {l}])
           \/ Top.rest = {} /\ Returns("failed")
  /\ UNCHANGED <<defer, worker, sending, memory, disk, network, limited, seen, bounds>>

-----------------------------------------------------------------------------
(* download_file                                                           *)

GivesUp == sending' = NoRoute /\ returned' = "next"
Stores == sending' = NoRoute /\ returned' = "stored"

\* retry_same_gateway, and the count of the loop.
Again == IF sending.tries < Requests
         THEN sending' = [sending EXCEPT !.tries = @ + 1] /\ UNCHANGED returned
         ELSE GivesUp

\* One request for a route, with what comes back.
Request ==
  /\ at = "running" /\ sending # NoRoute
  /\ LET l == sending.link
         h == HostOf[l]
     IN \/ /\ h \in waiting                                         \* before_request
           /\ denied' = TRUE /\ limited' = FALSE /\ Again
           /\ UNCHANGED <<disk, waiting, failures, seen>>
        \/ /\ h \notin waiting /\ Ask(l)
           /\ \/ /\ Again /\ Fails(h) /\ limited' = FALSE           \* 5xx, no answer, a break
                 /\ part' \in {part, TRUE} /\ UNCHANGED <<file, told>>
              \/ /\ part' = FALSE /\ limited' = FALSE               \* 416
                 /\ Again /\ UNCHANGED <<file, waiting, failures, told>>
              \/ /\ GivesUp /\ limited' = TRUE                      \* 429
                 /\ waiting' = waiting \cup {h} /\ told' = told \cup {h}
                 /\ UNCHANGED <<disk, failures>>
              \/ /\ GivesUp /\ limited' = FALSE                     \* refused, HTML
                 /\ UNCHANGED <<disk, waiting, failures, told>>
              \/ /\ GivesUp /\ limited' = FALSE /\ Fails(h)         \* content type, error
                 /\ UNCHANGED <<disk, told>>
              \/ /\ GivesUp /\ limited' = FALSE /\ part' = FALSE    \* too small
                 /\ UNCHANGED <<file, waiting, failures, told>>
              \/ /\ Stores /\ limited' = FALSE /\ part' = FALSE /\ file' = TRUE
                 /\ failures' = [failures EXCEPT ![h] = 0] /\ UNCHANGED <<waiting, told>>
           /\ UNCHANGED denied
  /\ UNCHANGED <<defer, worker, stack, memory, bounds>>

\* Deadlines pass; other workers make hosts wait.
WaitPasses(h) ==
  /\ h \in waiting \cup told
  /\ waiting' = waiting \ {h} /\ told' = told \ {h}
  /\ UNCHANGED <<defer, worker, calls, memory, disk, failures, denied, limited, sent, bounds>>
OthersFail(h) ==
  /\ troubles < MaxTroubles /\ h \notin waiting
  /\ waiting' = waiting \cup {h} /\ troubles' = troubles + 1
  /\ UNCHANGED <<defer, worker, calls, memory, disk, failures, denied, limited, seen, turns>>

Step == MirrorStep \/ Enter \/ Through \/ Fetch \/ Early \/ RouteStep \/ Late \/ Request

Next == Begin \/ Step \/ \E h \in Host : WaitPasses(h) \/ OthersFail(h)

Spec == Init /\ [][Next]_vars

-----------------------------------------------------------------------------
(* Properties                                                              *)

\* With deferred retries a turn makes one request for a file, however the calls
\* of the pages are nested, and then gives the worker back.
OneTransferPerTurn ==
  defer => Cardinality({l \in Link : IsRoute(l) /\ sent[l] > 0}) <= 1

\* With deferred retries no host is asked again before the Retry-After of a 429
\* has passed, whether a page or a file was limited, and in later turns too.
LimitedHostIsLeftAlone ==
  [][defer => \A l \in Link : sent'[l] > sent[l] => HostOf[l] \notin told]_vars

\* When the document is stored nothing more is requested, and the attempt ends
\* as a success through all the calls that are open.
StoredEndsTheSearch ==
  [][/\ file /\ at = "running" => sent' = sent
     /\ at' # at /\ at' \in {"stored", "failed"} => (at' = "stored" <=> file)]_vars

=============================================================================
