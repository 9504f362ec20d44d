------------------------------- MODULE Server -------------------------------
(***************************************************************************)
(* myjqlserver.c on Linux: a thread per client, one mutex around the       *)
(* store, and a SIGINT handler that saves the store and exits.             *)
(*                                                                         *)
(* Every recv, every send, the entry to and the exit from a critical       *)
(* section, and every stage of exit_nicely is a step.  A length and the    *)
(* bytes it announces travel as one field of a stream, and a field arrives *)
(* whole.  The store is what myjql_get, _set and _del do in memory; disk   *)
(* is what myjql_close leaves in the files.                                *)
(***************************************************************************)
EXTENDS Integers, Sequences, FiniteSets

CONSTANTS Client, Main,    \* the threads: one per client, and main's
          Key, Val,
          Length,          \* the length of a key or value
          MaxStrLen,       \* MAX_STR_LEN
          Other,           \* a string that is no member of Key or Val
          Nil,             \* no value, no owner, no string
          MaxSignals       \* bound: times ctrl + c is pressed

ASSUME LengthAssumption == Length \in [Key \cup Val \cup {Other} -> Nat]
ASSUME OtherAssumption  == Other \notin Key \cup Val /\ Nil \notin Key \cup Val \cup {Other}
ASSUME ThreadAssumption == Main \notin Client /\ Nil \notin Client \cup {Main}
ASSUME BoundAssumption  == MaxStrLen \in Nat /\ MaxSignals \in Nat

Thread == Client \cup {Main}

VARIABLES mode,     \* the process: "up", "exited", "killed"
          worker,   \* InstanceThread's locals, by client
          handler,  \* exit_nicely, by the thread the signal interrupted
          owner,    \* CriticalSection
          open,     \* the store's files are open
          store, disk,
          conn,     \* the client's end of the connection
          up, down, \* streams of fields to the server and back
          signals   \* SIGINTs so far

vars == <<mode, worker, handler, owner, open, store, disk, conn, up, down, signals>>
sockets == <<conn, up, down>>
stopping == <<handler, open, disk, signals>>

Start == [pc |-> "none", op |-> 0, code |-> 0, key |-> Nil, keyLen |-> 0, val |-> Nil, out |-> <<>>]

Field == (0 .. 3) \cup Key \cup Val \cup {Other}

Locals ==
  [pc : {"none", "code", "key", "value", "lock", "work", "send", "gone"},
   op : 0 .. 3, code : Nat, key : Key \cup {Other, Nil}, keyLen : Nat,
   val : Val \cup {Other, Nil}, out : Seq(Field)]

TypeOK ==
  /\ mode \in {"up", "exited", "killed"}
  /\ worker \in [Client -> Locals]
  /\ handler \in [Thread -> {"none", "lock", "close", "unlock", "exit"}]
  /\ owner \in Thread \cup {Nil}
  /\ open \in BOOLEAN
  /\ store \in [Key -> Val \cup {Other, Nil}] /\ disk \in [Key -> Val \cup {Other, Nil}]
  /\ conn \in [Client -> {"none", "open", "closed", "dead", "reset"}]
  /\ up \in [Client -> Seq(Field)]
  /\ down \in [Client -> Seq(Field)]
  /\ signals \in 0 .. MaxSignals

pc(c) == worker[c].pc

\* A thread runs unless a signal handler is on top of it.
Runs(t) == mode = "up" /\ handler[t] = "none"

-----------------------------------------------------------------------------
(* recv.                                                                    *)

Arrives(c) == conn[c] # "reset" /\ up[c] # <<>>
\* The client is gone and all it sent was read: recv returns 0, which is not
\* SOCKET_ERROR, and stores nothing.
Ended(c)   == conn[c] \in {"closed", "dead"} /\ up[c] = <<>>

\* What the memory of a string of n bytes that was never filled may hold.
Unfilled(S, n) == {s \in S : Length[s] = n} \cup {Other}

RecvFails(c) ==
  /\ Runs(c) /\ pc(c) \in {"code", "key", "value"}
  /\ conn[c] = "reset"
  /\ worker' = [worker EXCEPT ![c].pc = "gone"]
  /\ UNCHANGED <<mode, owner, store, sockets, stopping>>

\* The thread has a reply of the fields out to send; code is left at last.
Replies(c, w, out, last) ==
  worker' = [worker EXCEPT ![c] = [w EXCEPT !.pc = "send", !.out = out, !.code = last]]

Dispatch(c, n) ==
  LET w == [worker[c] EXCEPT !.code = n] IN
  CASE n = 3      -> Replies(c, [w EXCEPT !.op = 3], <<1>>, 1)
    [] n \in 0..2 -> worker' = [worker EXCEPT ![c] = [w EXCEPT !.pc = "key", !.op = n]]
    [] OTHER      -> worker' = [worker EXCEPT ![c] = w]

RecvCode(c) ==
  /\ Runs(c) /\ pc(c) = "code"
  /\ \/ Arrives(c) /\ Dispatch(c, Head(up[c])) /\ up' = [up EXCEPT ![c] = Tail(@)]
     \/ Ended(c) /\ Dispatch(c, worker[c].code) /\ up' = up
  /\ UNCHANGED <<mode, owner, store, conn, down, stopping>>

\* Mutant of TakeKey: a key that is too long is refused before the value is read.
TakeKeyEarly(c, s, n) ==
  LET w == [worker[c] EXCEPT !.key = s, !.keyLen = n, !.code = n] IN
  IF n > MaxStrLen THEN Replies(c, w, <<2>>, 2)
  ELSE worker' = [worker EXCEPT ![c] = [w EXCEPT !.pc = IF w.op = 1 THEN "value" ELSE "lock"]]

\* The key s, of length n, is in; a set goes on to its value.
TakeKey(c, s, n) ==
  LET w == [worker[c] EXCEPT !.key = s, !.keyLen = n, !.code = n] IN
  IF w.op = 1 THEN worker' = [worker EXCEPT ![c] = [w EXCEPT !.pc = "value"]]
  ELSE IF n > MaxStrLen THEN Replies(c, w, <<2>>, 2)
  ELSE worker' = [worker EXCEPT ![c] = [w EXCEPT !.pc = "lock"]]

RecvKey(c) ==
  /\ Runs(c) /\ pc(c) = "key"
  /\ \/ /\ Arrives(c)
        /\ TakeKey(c, Head(up[c]), Length[Head(up[c])])
        /\ up' = [up EXCEPT ![c] = Tail(@)]
     \/ /\ Ended(c) /\ up' = up
        /\ \E s \in Unfilled(Key, worker[c].code) : TakeKey(c, s, worker[c].code)
  /\ UNCHANGED <<mode, owner, store, conn, down, stopping>>

\* Mutant of TakeValue: the value is looked at first.
TakeValueFirst(c, s, n) ==
  LET w == [worker[c] EXCEPT !.val = s, !.code = n] IN
  IF n > MaxStrLen THEN Replies(c, w, <<3>>, 3)
  ELSE IF w.keyLen > MaxStrLen THEN Replies(c, w, <<2>>, 2)
  ELSE worker' = [worker EXCEPT ![c] = [w EXCEPT !.pc = "lock"]]

TakeValue(c, s, n) ==
  LET w == [worker[c] EXCEPT !.val = s, !.code = n] IN
  IF w.keyLen > MaxStrLen THEN Replies(c, w, <<2>>, 2)
  ELSE IF n > MaxStrLen THEN Replies(c, w, <<3>>, 3)
  ELSE worker' = [worker EXCEPT ![c] = [w EXCEPT !.pc = "lock"]]

RecvValue(c) ==
  /\ Runs(c) /\ pc(c) = "value"
  /\ \/ /\ Arrives(c)
        /\ TakeValue(c, Head(up[c]), Length[Head(up[c])])
        /\ up' = [up EXCEPT ![c] = Tail(@)]
     \/ /\ Ended(c) /\ up' = up
        /\ \E s \in Unfilled(Val, worker[c].code) : TakeValue(c, s, worker[c].code)
  /\ UNCHANGED <<mode, owner, store, conn, down, stopping>>

-----------------------------------------------------------------------------
(* The critical section.                                                    *)

Enter(c) ==
  /\ Runs(c) /\ pc(c) = "lock"
  /\ owner = Nil /\ owner' = c
  /\ worker' = [worker EXCEPT ![c].pc = "work"]
  /\ UNCHANGED <<mode, store, sockets, stopping>>

Stored(k) == IF k \in Key THEN store[k] ELSE Nil

\* Mutant of Get: myjql_get's -1 is taken for a length.
GetUnchecked(c) ==
  LET v == Stored(worker[c].key) IN
  /\ worker[c].op = 0
  /\ Replies(c, worker[c], <<1, v>>, IF v = Nil THEN -1 ELSE Length[v])
  /\ store' = store

Get(c) ==
  LET v == Stored(worker[c].key) IN
  /\ worker[c].op = 0
  /\ IF v = Nil THEN Replies(c, worker[c], <<0>>, 0)
                ELSE Replies(c, worker[c], <<1, v>>, Length[v])
  /\ store' = store

Set(c) ==
  /\ worker[c].op = 1
  /\ Replies(c, worker[c], <<1>>, 1)
  /\ store' = [k \in Key |-> IF k = worker[c].key THEN worker[c].val ELSE store[k]]

Del(c) ==
  /\ worker[c].op = 2
  /\ Replies(c, worker[c], <<1>>, 1)
  /\ store' = [k \in Key |-> IF k = worker[c].key THEN Nil ELSE store[k]]

\* Mutant of Work: the critical section is not left.
WorkKeepsLock(c) ==
  /\ Runs(c) /\ pc(c) = "work"
  /\ Get(c) \/ Set(c) \/ Del(c)
  /\ UNCHANGED <<mode, owner, sockets, stopping>>

\* The call returns and the thread leaves the critical section.
Work(c) ==
  /\ Runs(c) /\ pc(c) = "work"
  /\ Get(c) \/ Set(c) \/ Del(c)
  /\ owner' = Nil
  /\ UNCHANGED <<mode, sockets, stopping>>

\* After myjql_close the call works on what is in memory, unless it needs a
\* page that is not: then it reads a closed FILE, which may end the process.
WorkCrashes(c) ==
  /\ Runs(c) /\ pc(c) = "work" /\ ~open
  /\ mode' = "killed"
  /\ UNCHANGED <<worker, owner, store, sockets, stopping>>

-----------------------------------------------------------------------------
(* send.                                                                    *)

\* The thread goes on to the next request, or ends after "client exits".
Sent(c) ==
  worker' = [worker EXCEPT ![c].out = Tail(@),
                           ![c].pc = IF Len(worker[c].out) > 1 THEN "send"
                                     ELSE IF worker[c].op = 3 THEN "gone" ELSE "code"]

\* The client's end answers a field that comes too late with a reset.
Send(c) ==
  /\ Runs(c) /\ pc(c) = "send" /\ conn[c] # "reset"
  /\ Sent(c)
  /\ down' = IF conn[c] = "open" THEN [down EXCEPT ![c] = Append(@, Head(worker[c].out))] ELSE down
  /\ conn' = IF conn[c] = "closed" THEN [conn EXCEPT ![c] = "dead"] ELSE conn
  /\ UNCHANGED <<mode, owner, store, up, stopping>>

\* The reset is in: send raises SIGPIPE, which nobody handles.
SendKills(c) ==
  /\ Runs(c) /\ pc(c) = "send" /\ conn[c] = "reset"
  /\ mode' = "killed"
  /\ UNCHANGED <<worker, owner, store, sockets, stopping>>

ResetArrives(c) ==
  /\ mode = "up" /\ conn[c] = "dead"
  /\ conn' = [conn EXCEPT ![c] = "reset"]
  /\ UNCHANGED <<mode, worker, owner, store, up, down, stopping>>

\* main accepts the connection and creates a thread for it.
Accept(c) ==
  /\ Runs(Main)
  /\ pc(c) = "none" /\ conn[c] # "none"
  /\ worker' = [worker EXCEPT ![c].pc = "code"]
  /\ UNCHANGED <<mode, owner, store, sockets, stopping>>

-----------------------------------------------------------------------------
(* SIGINT and exit_nicely.                                                  *)

\* Linux gives the signal to main's thread, unless main is in the handler and
\* has it blocked; then to any thread that has not.
Interruptible(t) ==
  /\ handler[t] = "none"
  /\ t = Main \/ (handler[Main] # "none" /\ pc(t) \notin {"none", "gone"})

Interrupt(t) ==
  /\ mode = "up" /\ signals < MaxSignals
  /\ Interruptible(t)
  /\ signals' = signals + 1
  /\ handler' = [handler EXCEPT ![t] = "lock"]
  /\ UNCHANGED <<mode, worker, owner, open, store, disk, sockets>>

\* Mutant of ExitEnters: the store is closed without the lock.
ExitEntersAnyway(t) ==
  /\ mode = "up" /\ handler[t] = "lock"
  /\ handler' = [handler EXCEPT ![t] = "close"]
  /\ UNCHANGED <<mode, worker, owner, open, store, disk, sockets, signals>>

ExitEnters(t) ==
  /\ mode = "up" /\ handler[t] = "lock"
  /\ owner = Nil /\ owner' = t
  /\ handler' = [handler EXCEPT ![t] = "close"]
  /\ UNCHANGED <<mode, worker, open, store, disk, sockets, signals>>

\* myjql_close.  A second one closes the files again, which may end the process.
ExitCloses(t) ==
  /\ mode = "up" /\ handler[t] = "close"
  /\ handler' = [handler EXCEPT ![t] = "unlock"]
  /\ open' = FALSE
  /\ IF open THEN disk' = store /\ mode' = mode
             ELSE disk' = disk /\ mode' \in {mode, "killed"}
  /\ UNCHANGED <<worker, owner, store, sockets, signals>>

ExitLeaves(t) ==
  /\ mode = "up" /\ handler[t] = "unlock"
  /\ owner' = Nil
  /\ handler' = [handler EXCEPT ![t] = "exit"]
  /\ UNCHANGED <<mode, worker, open, store, disk, sockets, signals>>

\* Closing the listening socket, destroying the mutex, exit(0).
Exit(t) ==
  /\ mode = "up" /\ handler[t] = "exit"
  /\ mode' = "exited"
  /\ UNCHANGED <<worker, handler, owner, open, store, disk, sockets, signals>>

-----------------------------------------------------------------------------
Init ==
  /\ mode = "up"
  /\ worker = [c \in Client |-> Start]
  /\ handler = [t \in Thread |-> "none"]
  /\ owner = Nil /\ open = TRUE
  /\ store = [k \in Key |-> Nil] /\ disk = store
  /\ conn = [c \in Client |-> "none"]
  /\ up = [c \in Client |-> <<>>] /\ down = [c \in Client |-> <<>>]
  /\ signals = 0

Serve(c) ==
  \/ Accept(c)
  \/ RecvFails(c) \/ RecvCode(c) \/ RecvKey(c) \/ RecvValue(c)
  \/ Enter(c) \/ Work(c) \/ WorkCrashes(c)
  \/ Send(c) \/ SendKills(c)

Stop(t) == ExitEnters(t) \/ ExitCloses(t) \/ ExitLeaves(t) \/ Exit(t)

ServerStep ==
  \/ \E c \in Client : Serve(c) \/ ResetArrives(c)
  \/ \E t \in Thread : Interrupt(t) \/ Stop(t)

-----------------------------------------------------------------------------
(* Properties of the server, whatever its clients do.                       *)

\* Threads inside the store: InstanceThread in a myjql call, or exit_nicely in
\* myjql_close.  The store has no lock of its own.
Inside == {c \in Client : pc(c) = "work"} \cup {t \in Thread : handler[t] = "close"}

\* One thread at a time is inside the store, and it owns the mutex, also when a
\* signal arrives on top of it.
StoreExclusive == mode = "up" => \A t \in Inside : Inside = {t} /\ owner = t

=============================================================================
