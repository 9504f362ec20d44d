------------------------------ MODULE Clients ------------------------------
(***************************************************************************)
(* The server with its clients: myjqlclient.cpp, a request and its reply   *)
(* at a time, as the shell calls it.  A client of Impolite may also end    *)
(* without saying goodbye, as the shell does at the end of its input       *)
(* (myjqlshell.cpp:32-33: exit does not destroy the client object).        *)
(***************************************************************************)
EXTENDS Server

CONSTANTS Request,    \* what a client may ask: op, key, val
          Impolite,
          MaxAsks     \* bound: requests per client, goodbye included

Goodbye == [op |-> 3, key |-> Nil, val |-> Nil]

ASSUME RequestAssumption ==
  \A r \in Request : /\ r.op \in 0 .. 2 /\ r.key \in Key
                      /\ IF r.op = 1 THEN r.val \in Val ELSE r.val = Nil
ASSUME NoneAssumption ==
  /\ Nil \notin Request \cup {Goodbye}
  /\ Nil \notin {"ok", "not found", "key too long", "value too long", "error"}
ASSUME ImpoliteAssumption == Impolite \subseteq Client /\ MaxAsks \in Nat

VARIABLES asked,  \* the request the client waits for
          told,   \* what the driver made of the last reply
          asks    \* requests so far

driver == <<asked, told, asks>>

Results == Val \cup {Other, Nil, "ok", "not found", "key too long", "value too long", "error"}

DriverTypeOK ==
  /\ TypeOK
  /\ asked \in [Client -> Request \cup {Goodbye, Nil}]
  /\ told \in [Client -> Results]
  /\ asks \in [Client -> 0 .. MaxAsks]

-----------------------------------------------------------------------------
\* The constructor: connect succeeds as long as the server listens.
Connect(c) ==
  /\ mode = "up" /\ conn[c] = "none"
  /\ conn' = [conn EXCEPT ![c] = "open"]
  /\ UNCHANGED <<mode, worker, owner, store, up, down, stopping, driver>>

Fields(r) ==
  CASE r.op \in {0, 2} -> <<r.op, r.key>>
    [] r.op = 1        -> <<1, r.key, r.val>>
    [] r.op = 3        -> <<3>>

\* get, set, del or the destructor sends its request.
Ask(c, r) ==
  /\ mode = "up" /\ conn[c] = "open" /\ pc(c) # "gone"
  /\ asked[c] = Nil /\ asks[c] < MaxAsks
  /\ asked' = [asked EXCEPT ![c] = r]
  /\ asks' = [asks EXCEPT ![c] = IF r = Goodbye THEN MaxAsks ELSE @ + 1]
  /\ up' = [up EXCEPT ![c] = @ \o Fields(r)]
  /\ UNCHANGED <<mode, worker, owner, store, conn, down, stopping, told>>

\* What the driver makes of the code it received for r; v is the value behind it.
Meaning(r, code, v) ==
  CASE r.op = 0 /\ code = 0             -> "not found"
    [] r.op = 0 /\ code = 1             -> v
    [] r.op # 0 /\ code = 1             -> "ok"
    [] r.op # 3 /\ code = 2             -> "key too long"
    [] r.op = 1 /\ code = 3             -> "value too long"
    [] OTHER                            -> "error"

\* After its goodbye the client closes its end.
Told(c, result) ==
  /\ told' = [told EXCEPT ![c] = result]
  /\ asked' = [asked EXCEPT ![c] = Nil]
  /\ conn' = IF asked[c] = Goodbye THEN [conn EXCEPT ![c] = "closed"] ELSE conn
  /\ UNCHANGED asks

Complete(c) ==
  /\ down[c] # <<>>
  /\ Len(down[c]) > 1 \/ asked[c].op # 0 \/ Head(down[c]) # 1

\* The reply is in.
Hear(c) ==
  /\ conn[c] = "open" /\ asked[c] # Nil /\ Complete(c)
  /\ LET found == asked[c].op = 0 /\ Head(down[c]) = 1 IN
     /\ Told(c, Meaning(asked[c], Head(down[c]), IF found THEN down[c][2] ELSE Nil))
     /\ down' = [down EXCEPT ![c] = SubSeq(@, IF found THEN 3 ELSE 2, Len(@))]
  /\ UNCHANGED <<mode, worker, owner, store, up, stopping>>

\* What the driver's code holds when recv returns 0: the last length it sent.
Stale(r) == CASE r.op \in {0, 2} -> Length[r.key]
              [] r.op = 1        -> Length[r.val]
              [] r.op = 3        -> 3

\* The server's end is closed before the reply.  If the server left nothing
\* unread, recv returns 0, unnoticed; otherwise the connection is reset and recv
\* fails.  (A value cut short is noticed: "incomplete response".)
HearEnd(c) ==
  /\ conn[c] = "open" /\ asked[c] # Nil /\ ~Complete(c)
  /\ (mode # "up" \/ pc(c) = "gone")
  /\ \/ Told(c, "error")
     \/ /\ down[c] = <<>> /\ up[c] = <<>> /\ pc(c) # "none"
        /\ asked[c].op = 0 => Stale(asked[c]) # 1
        /\ Told(c, Meaning(asked[c], Stale(asked[c]), Nil))
  /\ down' = [down EXCEPT ![c] = <<>>]
  /\ UNCHANGED <<mode, worker, owner, store, up, stopping>>

\* The client's process ends.  Its system resets the connection at once if it
\* had data the client had not read.
Vanish(c) ==
  /\ c \in Impolite /\ conn[c] = "open"
  /\ conn' = [conn EXCEPT ![c] = IF down[c] = <<>> THEN "closed" ELSE "reset"]
  /\ down' = [down EXCEPT ![c] = <<>>]
  /\ UNCHANGED <<mode, worker, owner, store, up, stopping, driver>>

-----------------------------------------------------------------------------
ClientsInit ==
  /\ Init
  /\ asked = [c \in Client |-> Nil]
  /\ told = [c \in Client |-> Nil]
  /\ asks = [c \in Client |-> 0]

ClientStep ==
  \E c \in Client :
    \/ Connect(c)
    \/ \E r \in Request \cup {Goodbye} : Ask(c, r)
    \/ Hear(c) \/ HearEnd(c) \/ Vanish(c)

Next == (ServerStep /\ UNCHANGED driver) \/ ClientStep

allVars == <<vars, driver>>

Spec == ClientsInit /\ [][Next]_allVars

\* Threads run, the network delivers resets, and a client waits for its reply.
\* That a free mutex is in the end taken by one who waits for it needs no more,
\* for clients ask finitely often.
Fairness ==
  /\ \A c \in Client : /\ WF_allVars(Serve(c) /\ UNCHANGED driver)
                       /\ WF_allVars(ResetArrives(c) /\ UNCHANGED driver)
                       /\ WF_allVars(Hear(c) \/ HearEnd(c))
  /\ \A t \in Thread : WF_allVars(Stop(t) /\ UNCHANGED driver)

FairSpec == Spec /\ Fairness

-----------------------------------------------------------------------------
(* Properties.                                                              *)

\* The fields of the reply to c on their way, or still to be sent.
Stream(c) == down[c] \o (IF pc(c) = "send" THEN worker[c].out ELSE <<>>)

\* Between requests nothing is left over in either direction: the two ends
\* agree on where a request and a reply end, in each of the error replies too.
InStep ==
  \A c \in Client :
    asked[c] = Nil /\ conn[c] = "open" =>
      up[c] = <<>> /\ Stream(c) = <<>> /\ pc(c) \in {"none", "code", "gone"}

Answer ==
  [c \in Client |->
     IF asked[c] = Nil \/ Stream(c) = <<>> THEN Nil
     ELSE Meaning(asked[c], Head(Stream(c)),
                  IF Len(Stream(c)) > 1 THEN Stream(c)[2] ELSE Nil)]

TooLong(s) == Length[s] > MaxStrLen

Promised == INSTANCE Service WITH
              Request <- Request \cup {Goodbye}, answer <- Answer

\* While nobody leaves in the middle and nobody stops the server, the threads,
\* the mutex and the protocol add up to a store that does one request at a
\* time and tells each client what became of its own.
ImplementsService == Promised!Spec

\* Who asks is answered, or learns that the server is gone, unless ctrl + c is
\* pressed a second time.
EveryRequestAnswered ==
  \A c \in Client : asked[c] # Nil ~> asked[c] = Nil \/ conn[c] # "open" \/ signals > 1

Stopping == \E t \in Thread : handler[t] # "none"

\* ctrl + c, pressed once, stops the server, whatever its threads are doing.
OneSignalStops == Stopping ~> mode # "up" \/ signals > 1

\* README.md:73: ctrl + c stops the server safely: what the server has done for
\* its clients, and may have told them, is saved.
StopSaves == mode = "exited" => disk = store

\* "recv: 1 key_len key value_len value" (myjqlserver.c:228, 319): the server
\* changes the store for a request it has received.
OnlyRequested ==
  [][store' # store =>
       \E c \in Client : asked[c] # Nil /\ asked[c].op = worker[c].op /\ asked[c].key = worker[c].key]_allVars

=============================================================================
