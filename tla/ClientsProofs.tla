---------------------------- MODULE ClientsProofs ----------------------------
(***************************************************************************)
(* The protocol of a client and its thread, for any number of clients and  *)
(* requests: where a request is between the two ends (OnItsWay, Pending,    *)
(* Answered), which makes the fields that either end reads the fields it    *)
(* expects; that the threads add up to Service when everybody is polite and *)
(* nobody presses ctrl + c; and that one thread at a time is in the store.  *)
(***************************************************************************)
EXTENDS Clients, TLAPS

\* What a request is, the goodbye included.
Asking == Request \cup {Goodbye}

\* What follows the code of r.
Rest(r) == IF r.op = 1 THEN <<r.key, r.val>> ELSE IF r.op = 3 THEN << >> ELSE <<r.key>>

\* The replies to r: a code, with a value behind the 1 of a get.
Answers(r) ==
  IF r.op = 0 THEN {<<0>>, <<2>>} \cup {<<1, v>> : v \in Val \cup {Other}}
  ELSE {<<1>>, <<2>>, <<3>>}

-----------------------------------------------------------------------------
(* Where a request r is: w are the locals of its thread, u and d the        *)
(* streams to the server and back.                                          *)

\* Some of it is still to be read.
OnItsWay(r, w, u) ==
  \/ w.pc \in {"none", "code"} /\ u = Fields(r)
  \/ w.pc = "key" /\ r.op # 3 /\ w.op = r.op /\ u = Rest(r)
  \/ /\ w.pc = "value" /\ r.op = 1 /\ w.op = 1 /\ u = <<r.val>>
     /\ w.key = r.key /\ w.keyLen = Length[r.key]

Refused(r) == TooLong(r.key) \/ (r.op = 1 /\ TooLong(r.val))

\* It is read and not yet done.
Pending(r, w, u) ==
  /\ w.pc \in {"lock", "work"} /\ u = << >>
  /\ r.op # 3 /\ ~Refused(r)
  /\ w.op = r.op /\ w.key = r.key /\ (r.op = 1 => w.val = r.val)

\* Its reply m is to be sent, is being sent, or is on its way.
Answered(r, m, w, u, d) ==
  /\ m \in Answers(r) /\ u = << >> /\ w.op = r.op
  /\ \/ w.pc = "send" /\ w.out = m /\ d = << >>
     \/ w.pc = "send" /\ Len(m) = 2 /\ w.out = <<m[2]>> /\ d = <<m[1]>>
     \/ w.pc = (IF r.op = 3 THEN "gone" ELSE "code") /\ d = m

\* A client that is there: what is between it and its thread.
InTurn(c) ==
  IF asked[c] = Nil
  THEN mode = "up" => up[c] = << >> /\ down[c] = << >> /\ pc(c) \in {"none", "code"}
  ELSE \/ OnItsWay(asked[c], worker[c], up[c]) /\ down[c] = << >>
       \/ Pending(asked[c], worker[c], up[c]) /\ down[c] = << >>
       \/ \E m \in Answers(asked[c]) : Answered(asked[c], m, worker[c], up[c], down[c])

\* A client that left: what it sent ends where a request ends.
LeftOver(c) ==
  up[c] = << >> \/ pc(c) = "gone" \/ \E r \in Asking : OnItsWay(r, worker[c], up[c])

ClientOK(c) ==
  /\ pc(c) = "send" => worker[c].out # << >>
  /\ conn[c] = "none" => /\ pc(c) = "none" /\ asked[c] = Nil
                         /\ up[c] = << >> /\ down[c] = << >>
  /\ conn[c] = "open" => InTurn(c)
  /\ conn[c] \in {"closed", "dead", "reset"} /\ mode = "up" => LeftOver(c)

Inv == DriverTypeOK /\ \A c \in Client : ClientOK(c)

\* While everybody is polite and nobody presses ctrl + c.
Quiet ==
  /\ mode = "up" /\ open = TRUE /\ signals = 0 /\ handler = [t \in Thread |-> "none"]
  /\ \A c \in Client : /\ conn[c] \in {"none", "open", "closed"}
                       /\ conn[c] = "closed" => pc(c) = "gone"

-----------------------------------------------------------------------------
(* Streams of a few fields.                                                 *)

LEMMA NoField == << >> \o << >> = << >> /\ Len(<< >>) = 0
OBVIOUS

LEMMA OneField ==
  ASSUME NEW a
  PROVE  /\ Head(<<a>>) = a /\ Tail(<<a>>) = << >> /\ Len(<<a>>) = 1 /\ <<a>>[1] = a
         /\ << >> \o <<a>> = <<a>> /\ <<a>> \o << >> = <<a>>
         /\ Append(<< >>, a) = <<a>> /\ SubSeq(<<a>>, 2, 1) = << >> /\ <<a>> # << >>
OBVIOUS

LEMMA TwoJoined ==
  ASSUME NEW a, NEW b
  PROVE  <<a>> \o <<b>> = <<a, b>> /\ Append(<<a>>, b) = <<a, b>>
<1>. DEFINE s == <<a>> \o <<b>>
<1>1. <<a>> \in Seq({a, b}) /\ <<b>> \in Seq({a, b}) /\ <<a, b>> \in Seq({a, b})
  OBVIOUS
<1>2. s \in Seq({a, b}) /\ Len(s) = 2 /\ s[1] = a /\ s[2] = b
  BY <1>1
<1>3. Len(<<a, b>>) = 2 /\ <<a, b>>[1] = a /\ <<a, b>>[2] = b
  OBVIOUS
<1>4. Append(<<a>>, b) = s
  OBVIOUS
<1>. HIDE DEF s
<1>5. DOMAIN s = DOMAIN <<a, b>>
  BY <1>1, <1>2, <1>3
<1>6. \A i \in DOMAIN s : s[i] = <<a, b>>[i]
  BY <1>1, <1>2, <1>3
<1>7. s = <<a, b>>
  BY <1>1, <1>2, <1>5, <1>6
<1>. QED  BY <1>4, <1>7 DEF s

LEMMA TwoFields ==
  ASSUME NEW a, NEW b
  PROVE  /\ Head(<<a, b>>) = a /\ Tail(<<a, b>>) = <<b>> /\ Len(<<a, b>>) = 2
         /\ <<a, b>>[1] = a /\ <<a, b>>[2] = b
         /\ << >> \o <<a, b>> = <<a, b>> /\ <<a, b>> \o << >> = <<a, b>>
         /\ SubSeq(<<a, b>>, 3, 2) = << >> /\ <<a, b>> # << >>
OBVIOUS

LEMMA Asked ==
  ASSUME NEW r \in Asking
  PROVE  /\ r # Nil /\ r.op \in 0 .. 3
         /\ r.op = 3 => r = Goodbye
         /\ r.op # 3 => r \in Request /\ r.key \in Key
         /\ r.op = 1 => r.val \in Val
<1>1. CASE r = Goodbye
  <2>1. r.op = 3 /\ r # Nil
    BY <1>1, NoneAssumption DEF Goodbye
  <2>. QED  BY <1>1, <2>1
<1>2. CASE r \in Request
  <2>1. r.op \in 0 .. 2 /\ r.key \in Key /\ (r.op = 1 => r.val \in Val)
    BY <1>2, RequestAssumption
  <2>2. r # Nil
    BY <1>2, NoneAssumption
  <2>. QED  BY <1>2, <2>1, <2>2
<1>. QED  BY <1>1, <1>2 DEF Asking

\* Every request begins with its code.
LEMMA FieldsOf ==
  ASSUME NEW r \in Asking
  PROVE  /\ Fields(r) \in Seq(Field) /\ Fields(r) # << >>
         /\ Head(Fields(r)) = r.op /\ Tail(Fields(r)) = Rest(r)
         /\ << >> \o Fields(r) = Fields(r)
<1>1. r.op \in 0 .. 3 /\ (r.op # 3 => r.key \in Key) /\ (r.op = 1 => r.val \in Val)
  BY Asked
<1>2. CASE r.op = 3
  <2>1. Fields(r) = <<3>> /\ Rest(r) = << >>
    BY <1>2 DEF Fields, Rest
  <2>. QED  BY <1>2, <2>1, OneField DEF Field
<1>3. CASE r.op = 1
  <2>1. Fields(r) = <<1, r.key, r.val>> /\ Rest(r) = <<r.key, r.val>>
    BY <1>3 DEF Fields, Rest
  <2>2. /\ <<1, r.key, r.val>> \in Seq(Field) /\ <<1, r.key, r.val>> # << >>
        /\ Head(<<1, r.key, r.val>>) = 1 /\ Tail(<<1, r.key, r.val>>) = <<r.key, r.val>>
        /\ << >> \o <<1, r.key, r.val>> = <<1, r.key, r.val>>
    BY <1>1, <1>3 DEF Field
  <2>. QED  BY <1>3, <2>1, <2>2
<1>4. CASE r.op \in {0, 2}
  <2>1. Fields(r) = <<r.op, r.key>> /\ Rest(r) = <<r.key>>
    BY <1>4 DEF Fields, Rest
  <2>. QED  BY <1>1, <1>4, <2>1, TwoFields DEF Field
<1>. QED  BY <1>1, <1>2, <1>3, <1>4

LEMMA AnswersOf ==
  ASSUME NEW r \in Asking, NEW m \in Answers(r)
  PROVE  /\ m \in Seq(Field) /\ m # << >> /\ m[1] \in 0 .. 3 /\ Head(m) = m[1]
         /\ r.op = 0 /\ m[1] = 1 => /\ m[2] \in Val \cup {Other} /\ m = <<m[1], m[2]>>
         /\ ~(r.op = 0 /\ m[1] = 1) => m = <<m[1]>>
<1>1. ASSUME NEW n \in 0 .. 3, m = <<n>>
      PROVE  /\ m \in Seq(Field) /\ m # << >> /\ m[1] = n /\ Head(m) = n
             /\ m = <<m[1]>>
  BY <1>1 DEF Field
<1>2. ASSUME NEW v \in Val \cup {Other}, m = <<1, v>>
      PROVE  /\ m \in Seq(Field) /\ m # << >> /\ m[1] = 1 /\ Head(m) = 1
             /\ m[2] = v /\ m = <<m[1], m[2]>>
  BY <1>2 DEF Field
<1>3. CASE r.op = 0
  <2>1. m = <<0>> \/ m = <<2>> \/ \E v \in Val \cup {Other} : m = <<1, v>>
    BY <1>3 DEF Answers
  <2>2. ASSUME NEW n \in {0, 2}, m = <<n>> PROVE m[1] = n
    BY <2>2
  <2>. QED  BY <1>1, <1>2, <1>3, <2>1, <2>2
<1>4. CASE r.op # 0
  <2>1. \E n \in {1, 2, 3} : m = <<n>>
    BY <1>4 DEF Answers
  <2>. QED  BY <1>1, <1>4, <2>1
<1>. QED  BY <1>3, <1>4

-----------------------------------------------------------------------------
(* What a step leaves in the locals of its thread.                          *)

\* The locals of c are now v.
Becomes(c, v) == v \in Locals /\ worker' = [worker EXCEPT ![c] = v]

LEMMA BecomesTyped ==
  ASSUME worker \in [Client -> Locals], NEW c \in Client, NEW v, Becomes(c, v)
  PROVE  /\ worker' \in [Client -> Locals] /\ worker'[c] = v
         /\ \A d \in Client \ {c} : worker'[d] = worker[d]
BY DEF Becomes

LEMMA RepliesDoes ==
  ASSUME NEW c \in Client, NEW w \in Locals, NEW out \in Seq(Field), NEW last \in Nat,
         Replies(c, w, out, last)
  PROVE  \E v \in Locals : Becomes(c, v) /\ v.pc = "send" /\ v.out = out /\ v.op = w.op
<1>. DEFINE v == [w EXCEPT !.pc = "send", !.out = out, !.code = last]
<1>1. v \in Locals /\ v.pc = "send" /\ v.out = out /\ v.op = w.op
  BY DEF Locals
<1>2. Becomes(c, v)
  BY <1>1 DEF Replies, Becomes
<1>. QED  BY <1>1, <1>2

\* The locals after one or two of them were set.
LEMMA CodeSet ==
  ASSUME NEW w \in Locals, NEW n \in Nat
  PROVE  \E v \in Locals : v = [w EXCEPT !.code = n] /\ v.pc = w.pc /\ v.op = w.op /\ v.out = w.out
<1>1. [w EXCEPT !.code = n] \in Locals
  BY DEF Locals
<1>. QED  BY <1>1 DEF Locals

LEMMA OpSet ==
  ASSUME NEW w \in Locals, NEW n \in 0 .. 3
  PROVE  \E v \in Locals : v = [w EXCEPT !.op = n] /\ v.op = n
<1>1. [w EXCEPT !.op = n] \in Locals
  BY DEF Locals
<1>. QED  BY <1>1 DEF Locals

LEMMA PcSet ==
  ASSUME NEW w \in Locals, NEW p \in {"code", "key", "value", "lock", "work", "send", "gone"}
  PROVE  \E v \in Locals :
           /\ v = [w EXCEPT !.pc = p] /\ v.pc = p /\ v.op = w.op /\ v.key = w.key
           /\ v.keyLen = w.keyLen /\ v.val = w.val /\ v.out = w.out
<1>1. [w EXCEPT !.pc = p] \in Locals
  BY DEF Locals
<1>. QED  BY <1>1 DEF Locals

LEMMA DispatchDoes ==
  ASSUME NEW c \in Client, worker[c] \in Locals, NEW n \in Nat, Dispatch(c, n)
  PROVE  \E v \in Locals :
           /\ Becomes(c, v)
           /\ n = 3 => v.pc = "send" /\ v.op = 3 /\ v.out = <<1>>
           /\ n \in 0 .. 2 => v.pc = "key" /\ v.op = n
           /\ n \notin 0 .. 3 => v.pc = pc(c) /\ v.out = worker[c].out
<1>1. PICK w \in Locals : /\ w = [worker[c] EXCEPT !.code = n]
                          /\ w.pc = pc(c) /\ w.out = worker[c].out
  BY CodeSet, Zenon DEF pc
<1>2. CASE n = 3
  <2>1. PICK x \in Locals : x = [w EXCEPT !.op = 3] /\ x.op = 3
    BY OpSet
  <2>2. Replies(c, x, <<1>>, 1)
    BY <1>1, <1>2, <2>1 DEF Dispatch
  <2>3. <<1>> \in Seq(Field) /\ 1 \in Nat
    BY DEF Field
  <2>4. PICK v \in Locals : Becomes(c, v) /\ v.pc = "send" /\ v.out = <<1>> /\ v.op = x.op
    BY <2>2, <2>3, RepliesDoes, Zenon
  <2>. QED  BY <1>2, <2>1, <2>4
<1>3. CASE n \in 0 .. 2
  <2>1. PICK y \in Locals : y = [w EXCEPT !.pc = "key", !.op = n] /\ y.pc = "key" /\ y.op = n
    <3>1. PICK x \in Locals : x = [w EXCEPT !.pc = "key"] /\ x.pc = "key"
      BY PcSet
    <3>2. n \in 0 .. 3
      BY <1>3
    <3>3. PICK y \in Locals : y = [x EXCEPT !.op = n] /\ y.op = n
      BY <3>2, OpSet
    <3>4. y = [w EXCEPT !.pc = "key", !.op = n] /\ y.pc = "key"
      BY <3>1, <3>3 DEF Locals
    <3>. QED  BY <3>3, <3>4
  <2>2. worker' = [worker EXCEPT ![c] = y]
    BY <1>1, <1>3, <2>1 DEF Dispatch
  <2>3. n # 3 /\ n \in 0 .. 3
    BY <1>3
  <2>. QED  BY <1>3, <2>1, <2>2, <2>3 DEF Becomes
<1>4. CASE n \notin 0 .. 3
  <2>1. n # 3 /\ n \notin 0 .. 2
    BY <1>4
  <2>2. worker' = [worker EXCEPT ![c] = w]
    BY <1>1, <2>1 DEF Dispatch
  <2>. QED  BY <1>1, <1>4, <2>1, <2>2 DEF Becomes
<1>5. n = 3 \/ n \in 0 .. 2 \/ n \notin 0 .. 3
  OBVIOUS
<1>. QED  BY <1>2, <1>3, <1>4, <1>5

LEMMA TakeKeyDoes ==
  ASSUME NEW c \in Client, worker[c] \in Locals, NEW s \in Key \cup {Other}, NEW n \in Nat,
         TakeKey(c, s, n)
  PROVE  \E v \in Locals :
           /\ Becomes(c, v) /\ v.op = worker[c].op
           /\ IF v.op = 1 THEN v.pc = "value" /\ v.key = s /\ v.keyLen = n
              ELSE IF n > MaxStrLen THEN v.pc = "send" /\ v.out = <<2>>
              ELSE v.pc = "lock" /\ v.key = s
<1>1. PICK w \in Locals : /\ w = [worker[c] EXCEPT !.key = s, !.keyLen = n, !.code = n]
                          /\ w.op = worker[c].op /\ w.key = s /\ w.keyLen = n
  <2>1. [worker[c] EXCEPT !.key = s, !.keyLen = n, !.code = n] \in Locals
    BY DEF Locals
  <2>. QED  BY <2>1 DEF Locals
<1>2. IF w.op = 1 THEN worker' = [worker EXCEPT ![c] = [w EXCEPT !.pc = "value"]]
      ELSE IF n > MaxStrLen THEN Replies(c, w, <<2>>, 2)
      ELSE worker' = [worker EXCEPT ![c] = [w EXCEPT !.pc = "lock"]]
  BY <1>1 DEF TakeKey
<1>3. CASE w.op = 1
  <2>1. PICK v \in Locals : /\ v = [w EXCEPT !.pc = "value"] /\ v.pc = "value"
                            /\ v.op = w.op /\ v.key = w.key /\ v.keyLen = w.keyLen
    BY PcSet
  <2>. QED  BY <1>1, <1>2, <1>3, <2>1 DEF Becomes
<1>4. CASE w.op # 1 /\ n > MaxStrLen
  <2>1. <<2>> \in Seq(Field) /\ 2 \in Nat
    BY DEF Field
  <2>2. Replies(c, w, <<2>>, 2)
    BY <1>2, <1>4
  <2>3. PICK v \in Locals : Becomes(c, v) /\ v.pc = "send" /\ v.out = <<2>> /\ v.op = w.op
    BY <2>1, <2>2, RepliesDoes, Zenon
  <2>. QED  BY <1>1, <1>4, <2>3
<1>5. CASE w.op # 1 /\ ~(n > MaxStrLen)
  <2>1. PICK v \in Locals : /\ v = [w EXCEPT !.pc = "lock"] /\ v.pc = "lock"
                            /\ v.op = w.op /\ v.key = w.key
    BY PcSet
  <2>. QED  BY <1>1, <1>2, <1>5, <2>1 DEF Becomes
<1>. QED  BY <1>3, <1>4, <1>5

LEMMA TakeValueDoes ==
  ASSUME NEW c \in Client, worker[c] \in Locals, NEW s \in Val \cup {Other}, NEW n \in Nat,
         TakeValue(c, s, n)
  PROVE  \E v \in Locals :
           /\ Becomes(c, v) /\ v.op = worker[c].op
           /\ IF worker[c].keyLen > MaxStrLen THEN v.pc = "send" /\ v.out = <<2>>
              ELSE IF n > MaxStrLen THEN v.pc = "send" /\ v.out = <<3>>
              ELSE v.pc = "lock" /\ v.key = worker[c].key /\ v.val = s
<1>1. PICK w \in Locals : /\ w = [worker[c] EXCEPT !.val = s, !.code = n]
                          /\ w.op = worker[c].op /\ w.key = worker[c].key
                          /\ w.keyLen = worker[c].keyLen /\ w.val = s
  <2>1. [worker[c] EXCEPT !.val = s, !.code = n] \in Locals
    BY DEF Locals
  <2>. QED  BY <2>1 DEF Locals
<1>2. IF w.keyLen > MaxStrLen THEN Replies(c, w, <<2>>, 2)
      ELSE IF n > MaxStrLen THEN Replies(c, w, <<3>>, 3)
      ELSE worker' = [worker EXCEPT ![c] = [w EXCEPT !.pc = "lock"]]
  BY <1>1 DEF TakeValue
<1>3. <<2>> \in Seq(Field) /\ <<3>> \in Seq(Field) /\ 2 \in Nat /\ 3 \in Nat
  BY DEF Field
<1>4. CASE w.keyLen > MaxStrLen
  <2>1. Replies(c, w, <<2>>, 2)
    BY <1>2, <1>4
  <2>2. PICK v \in Locals : Becomes(c, v) /\ v.pc = "send" /\ v.out = <<2>> /\ v.op = w.op
    BY <1>3, <2>1, RepliesDoes, Zenon
  <2>. QED  BY <1>1, <1>4, <2>2
<1>5. CASE ~(w.keyLen > MaxStrLen) /\ n > MaxStrLen
  <2>1. Replies(c, w, <<3>>, 3)
    BY <1>2, <1>5
  <2>2. PICK v \in Locals : Becomes(c, v) /\ v.pc = "send" /\ v.out = <<3>> /\ v.op = w.op
    BY <1>3, <2>1, RepliesDoes, Zenon
  <2>. QED  BY <1>1, <1>5, <2>2
<1>6. CASE ~(w.keyLen > MaxStrLen) /\ ~(n > MaxStrLen)
  <2>1. PICK v \in Locals : /\ v = [w EXCEPT !.pc = "lock"] /\ v.pc = "lock"
                            /\ v.op = w.op /\ v.key = w.key /\ v.val = w.val
    BY PcSet
  <2>. QED  BY <1>1, <1>2, <1>6, <2>1 DEF Becomes
<1>. QED  BY <1>4, <1>5, <1>6

LEMMA SentDoes ==
  ASSUME NEW c \in Client, worker[c] \in Locals, worker[c].out # << >>, Sent(c), pc(c) = "send"
  PROVE  \E v \in Locals :
           /\ Becomes(c, v) /\ v.op = worker[c].op /\ v.out = Tail(worker[c].out)
           /\ v.pc = IF Len(worker[c].out) > 1 THEN "send"
                     ELSE IF worker[c].op = 3 THEN "gone" ELSE "code"
<1>. DEFINE next == IF Len(worker[c].out) > 1 THEN "send"
                    ELSE IF worker[c].op = 3 THEN "gone" ELSE "code"
            rest == Tail(worker[c].out)
            v    == [worker[c] EXCEPT !.out = rest, !.pc = next]
<1>1. worker' = [worker EXCEPT ![c] = v]
  BY DEF Sent
<1>2. next \in {"send", "gone", "code"} /\ rest \in Seq(Field)
  BY DEF Locals
<1>. HIDE DEF next, rest
<1>3. v \in Locals /\ v.op = worker[c].op /\ v.out = rest /\ v.pc = next
  BY <1>2 DEF Locals
<1>. HIDE DEF v
<1>4. \E x \in Locals : Becomes(c, x) /\ x.op = worker[c].op /\ x.out = rest /\ x.pc = next
  BY <1>1, <1>3 DEF Becomes
<1>. QED  BY <1>4 DEF next, rest

LEMMA MovesDoes ==
  ASSUME NEW c \in Client, worker[c] \in Locals,
         NEW p \in {"code", "work", "gone"}, worker' = [worker EXCEPT ![c].pc = p]
  PROVE  \E v \in Locals :
           /\ Becomes(c, v) /\ v.pc = p /\ v.op = worker[c].op /\ v.key = worker[c].key
           /\ v.val = worker[c].val
<1>. DEFINE v == [worker[c] EXCEPT !.pc = p]
<1>1. worker' = [worker EXCEPT ![c] = v]
  OBVIOUS
<1>2. /\ v \in Locals /\ v.pc = p /\ v.op = worker[c].op /\ v.key = worker[c].key
      /\ v.val = worker[c].val
  BY DEF Locals
<1>. HIDE DEF v
<1>. QED  BY <1>1, <1>2 DEF Becomes

-----------------------------------------------------------------------------
(* The thread reads.                                                        *)

\* The reply to a request that is not done: "client exits", or too long.
Refusal(r) ==
  IF r.op = 3 THEN <<1>> ELSE IF TooLong(r.key) THEN <<2>> ELSE <<3>>

\* A thread that has something to read is in the middle of a request.
LEMMA InTheMiddle ==
  ASSUME Inv, NEW c \in Client, mode = "up", pc(c) \in {"code", "key", "value"}, up[c] # << >>
  PROVE  \E r \in Asking : /\ OnItsWay(r, worker[c], up[c])
                           /\ conn[c] = "open" => asked[c] = r /\ down[c] = << >>
<1>1. ClientOK(c) /\ conn[c] \in {"none", "open", "closed", "dead", "reset"}
  BY DEF Inv, DriverTypeOK, TypeOK
<1>2. asked[c] = Nil \/ asked[c] \in Asking
  BY DEF Inv, DriverTypeOK, Asking
<1>3. CASE conn[c] = "none"
  BY <1>1, <1>3 DEF ClientOK
<1>4. CASE conn[c] = "open"
  BY <1>1, <1>2, <1>4 DEF ClientOK, InTurn, Pending, Answered
<1>5. CASE conn[c] \in {"closed", "dead", "reset"}
  BY <1>1, <1>5 DEF ClientOK, LeftOver
<1>. QED  BY <1>1, <1>3, <1>4, <1>5

\* What a recv makes of the next field of a request.
LEMMA ReadsOn ==
  ASSUME Inv, NEW c \in Client, RecvCode(c) \/ RecvKey(c) \/ RecvValue(c),
         NEW r \in Asking, OnItsWay(r, worker[c], up[c])
  PROVE  /\ up' = [up EXCEPT ![c] = Tail(up[c])] /\ up'[c] \in Seq(Field)
         /\ \E v \in Locals :
              /\ Becomes(c, v)
              /\ \/ OnItsWay(r, v, up'[c])
                 \/ Pending(r, v, up'[c])
                 \/ /\ r.op = 3 \/ Refused(r)
                    /\ v.pc = "send" /\ v.out = Refusal(r) /\ v.op = r.op /\ up'[c] = << >>
<1>1. /\ r.op \in 0 .. 3 /\ (r.op # 3 => r.key \in Key /\ Length[r.key] \in Nat)
      /\ (r.op = 1 => r.val \in Val /\ Length[r.val] \in Nat)
  BY Asked, LengthAssumption
<1>2. worker[c] \in Locals /\ up \in [Client -> Seq(Field)]
  BY DEF Inv, DriverTypeOK, TypeOK
<1>3. CASE RecvCode(c)
  <2>1. pc(c) = "code" /\ up[c] = Fields(r)
    BY <1>3 DEF RecvCode, OnItsWay, pc
  <2>2. up[c] # << >> /\ Head(up[c]) = r.op /\ Tail(up[c]) = Rest(r) /\ r.op \in Nat
    BY <1>1, <2>1, FieldsOf
  <2>3. Dispatch(c, r.op) /\ up' = [up EXCEPT ![c] = Tail(up[c])]
    BY <1>3, <2>2 DEF RecvCode, Ended
  <2>4. up'[c] = Rest(r) /\ up'[c] \in Seq(Field)
    BY <1>2, <2>2, <2>3
  <2>5. PICK v \in Locals : /\ Becomes(c, v)
                            /\ r.op = 3 => v.pc = "send" /\ v.op = 3 /\ v.out = <<1>>
                            /\ r.op \in 0 .. 2 => v.pc = "key" /\ v.op = r.op
    BY <1>2, <2>2, <2>3, DispatchDoes
  <2>6. CASE r.op = 3
    BY <2>3, <2>4, <2>5, <2>6 DEF Refusal, Rest
  <2>7. CASE r.op # 3
    <3>1. v.pc = "key" /\ v.op = r.op
      BY <1>1, <2>5, <2>7
    <3>. QED  BY <2>3, <2>4, <2>5, <2>7, <3>1 DEF OnItsWay
  <2>. QED  BY <2>6, <2>7
<1>4. CASE RecvKey(c)
  <2>1. pc(c) = "key" /\ up[c] = Rest(r) /\ r.op # 3 /\ worker[c].op = r.op
    BY <1>4 DEF RecvKey, OnItsWay, pc
  <2>2. up[c] # << >> /\ Head(up[c]) = r.key
    BY <2>1, OneField, TwoFields DEF Rest
  <2>3. Tail(up[c]) = IF r.op = 1 THEN <<r.val>> ELSE << >>
    BY <2>1, OneField, TwoFields DEF Rest
  <2>4. TakeKey(c, r.key, Length[r.key]) /\ up' = [up EXCEPT ![c] = Tail(up[c])]
    BY <1>4, <2>2 DEF RecvKey, Ended
  <2>5. up'[c] = Tail(up[c]) /\ up'[c] \in Seq(Field)
    BY <1>2, <2>2, <2>4
  <2>. r.key \in Key \cup {Other} /\ Length[r.key] \in Nat /\ worker[c].op = r.op
    BY <1>1, <2>1
  <2>6. PICK v \in Locals :
          /\ Becomes(c, v) /\ v.op = worker[c].op
          /\ IF v.op = 1 THEN v.pc = "value" /\ v.key = r.key /\ v.keyLen = Length[r.key]
             ELSE IF Length[r.key] > MaxStrLen THEN v.pc = "send" /\ v.out = <<2>>
             ELSE v.pc = "lock" /\ v.key = r.key
    BY <1>2, <2>4, TakeKeyDoes, Zenon
  <2>7. CASE r.op = 1
    BY <2>3, <2>4, <2>5, <2>6, <2>7 DEF OnItsWay
  <2>8. CASE r.op # 1 /\ TooLong(r.key)
    BY <2>1, <2>3, <2>4, <2>5, <2>6, <2>8 DEF Refusal, Refused, TooLong
  <2>9. CASE r.op # 1 /\ ~TooLong(r.key)
    BY <2>1, <2>3, <2>4, <2>5, <2>6, <2>9 DEF Pending, Refused, TooLong
  <2>. QED  BY <2>7, <2>8, <2>9
<1>5. CASE RecvValue(c)
  <2>1. /\ up[c] = <<r.val>> /\ r.op = 1 /\ worker[c].op = 1
        /\ worker[c].key = r.key /\ worker[c].keyLen = Length[r.key]
    BY <1>5 DEF RecvValue, OnItsWay, pc
  <2>2. up[c] # << >> /\ Head(up[c]) = r.val /\ Tail(up[c]) = << >>
    BY <2>1, OneField
  <2>3. TakeValue(c, r.val, Length[r.val]) /\ up' = [up EXCEPT ![c] = Tail(up[c])]
    BY <1>5, <2>2 DEF RecvValue, Ended
  <2>4. up'[c] = << >> /\ up'[c] \in Seq(Field)
    BY <1>2, <2>2, <2>3
  <2>. r.val \in Val \cup {Other} /\ Length[r.val] \in Nat
    BY <1>1, <2>1
  <2>5. PICK v \in Locals :
          /\ Becomes(c, v) /\ v.op = worker[c].op
          /\ IF worker[c].keyLen > MaxStrLen THEN v.pc = "send" /\ v.out = <<2>>
             ELSE IF Length[r.val] > MaxStrLen THEN v.pc = "send" /\ v.out = <<3>>
             ELSE v.pc = "lock" /\ v.key = worker[c].key /\ v.val = r.val
    BY <1>2, <2>3, TakeValueDoes, Zenon
  <2>6. CASE Refused(r)
    BY <2>1, <2>3, <2>4, <2>5, <2>6 DEF Refusal, Refused, TooLong
  <2>7. CASE ~Refused(r)
    BY <2>1, <2>3, <2>4, <2>5, <2>7 DEF Pending, Refused, TooLong
  <2>. QED  BY <2>6, <2>7
<1>. QED  BY <1>3, <1>4, <1>5

\* What a recv makes of the end of the stream: the thread goes on with what the
\* locals hold.
LEMMA ReadsEnd ==
  ASSUME Inv, NEW c \in Client, RecvCode(c) \/ RecvKey(c) \/ RecvValue(c), up[c] = << >>
  PROVE  /\ up' = up /\ conn[c] \in {"closed", "dead"}
         /\ \E v \in Locals : Becomes(c, v) /\ (v.pc = "send" => v.out # << >>)
<1>1. worker[c] \in Locals /\ worker[c].code \in Nat
  BY DEF Inv, DriverTypeOK, TypeOK, Locals
<1>2. Ended(c) /\ up' = up
  BY DEF RecvCode, RecvKey, RecvValue, Arrives
<1>3. CASE RecvCode(c)
  <2>1. Dispatch(c, worker[c].code) /\ pc(c) = "code"
    BY <1>3 DEF RecvCode, Arrives
  <2>2. PICK n \in Nat : n = worker[c].code
    BY <1>1
  <2>3. PICK v \in Locals : /\ Becomes(c, v)
                            /\ n = 3 => v.pc = "send" /\ v.op = 3 /\ v.out = <<1>>
                            /\ n \in 0 .. 2 => v.pc = "key" /\ v.op = n
                            /\ n \notin 0 .. 3 => v.pc = pc(c) /\ v.out = worker[c].out
    BY <1>1, <2>1, <2>2, DispatchDoes
  <2>4. n = 3 \/ n \in 0 .. 2 \/ n \notin 0 .. 3
    OBVIOUS
  <2>5. v.pc = "send" => v.out # << >>
    BY <2>1, <2>3, <2>4, OneField
  <2>. QED  BY <1>2, <2>3, <2>5 DEF Ended
<1>4. CASE RecvKey(c)
  <2>1. PICK s \in Key \cup {Other}, n \in Nat : TakeKey(c, s, n)
    BY <1>1, <1>4 DEF RecvKey, Arrives, Unfilled
  <2>2. PICK v \in Locals :
          /\ Becomes(c, v) /\ v.op = worker[c].op
          /\ IF v.op = 1 THEN v.pc = "value" /\ v.key = s /\ v.keyLen = n
             ELSE IF n > MaxStrLen THEN v.pc = "send" /\ v.out = <<2>>
             ELSE v.pc = "lock" /\ v.key = s
    BY <1>1, <2>1, TakeKeyDoes
  <2>3. v.pc = "send" => v.out # << >>
    BY <2>2, OneField
  <2>. QED  BY <1>2, <2>2, <2>3 DEF Ended
<1>5. CASE RecvValue(c)
  <2>1. PICK s \in Val \cup {Other}, n \in Nat : TakeValue(c, s, n)
    BY <1>1, <1>5 DEF RecvValue, Arrives, Unfilled
  <2>2. PICK v \in Locals :
          /\ Becomes(c, v) /\ v.op = worker[c].op
          /\ IF worker[c].keyLen > MaxStrLen THEN v.pc = "send" /\ v.out = <<2>>
             ELSE IF n > MaxStrLen THEN v.pc = "send" /\ v.out = <<3>>
             ELSE v.pc = "lock" /\ v.key = worker[c].key /\ v.val = s
    BY <1>1, <2>1, TakeValueDoes
  <2>3. v.pc = "send" => v.out # << >>
    BY <2>2, OneField
  <2>. QED  BY <1>2, <2>2, <2>3 DEF Ended
<1>. QED  BY <1>3, <1>4, <1>5

-----------------------------------------------------------------------------
(* One client and its thread at a time.                                     *)

\* A step of c and its thread does not touch what is between another client and
\* its own, and neither does the end of the process.
LEMMA OnlyHere ==
  ASSUME Inv, NEW c \in Client, DriverTypeOK', ClientOK(c)',
         mode' = mode \/ mode' # "up",
         \A d \in Client \ {c} : /\ worker'[d] = worker[d] /\ conn'[d] = conn[d]
                                 /\ up'[d] = up[d] /\ down'[d] = down[d] /\ asked'[d] = asked[d]
  PROVE  Inv'
<1>1. ASSUME NEW d \in Client \ {c} PROVE ClientOK(d)'
  <2>1. ClientOK(d)
    BY DEF Inv
  <2>. QED  BY <2>1 DEF ClientOK, InTurn, LeftOver, pc
<1>. QED  BY <1>1 DEF Inv

LEMMA RecvKeeps ==
  ASSUME Inv, NEW c \in Client, RecvCode(c) \/ RecvKey(c) \/ RecvValue(c), UNCHANGED driver
  PROVE  Inv'
<1>1. /\ mode = "up" /\ pc(c) \in {"code", "key", "value"}
      /\ mode' = mode /\ owner' = owner /\ store' = store /\ conn' = conn /\ down' = down
      /\ handler' = handler /\ open' = open /\ disk' = disk /\ signals' = signals
      /\ asked' = asked /\ told' = told /\ asks' = asks
  BY DEF RecvCode, RecvKey, RecvValue, Runs, stopping, driver
<1>2. DriverTypeOK /\ TypeOK
  BY DEF Inv, DriverTypeOK
<1>3. ASSUME NEW v \in Locals, Becomes(c, v), up' \in [Client -> Seq(Field)] PROVE DriverTypeOK'
  <2>1. worker' \in [Client -> Locals]
    BY <1>2, <1>3, BecomesTyped DEF TypeOK
  <2>. QED  BY <1>1, <1>2, <1>3, <2>1 DEF DriverTypeOK, TypeOK
<1>4. conn[c] \in {"open", "closed", "dead", "reset"} /\ ClientOK(c)
  <2>1. conn[c] \in {"none", "open", "closed", "dead", "reset"} /\ ClientOK(c)
    BY <1>2 DEF TypeOK, Inv
  <2>. QED  BY <1>1, <2>1 DEF ClientOK
<1>5. CASE up[c] = << >>
  <2>1. PICK v \in Locals : Becomes(c, v) /\ (v.pc = "send" => v.out # << >>)
    BY <1>5, ReadsEnd
  <2>2. up' = up /\ conn[c] \in {"closed", "dead"}
    BY <1>5, ReadsEnd
  <2>3. worker'[c] = v /\ \A d \in Client \ {c} : worker'[d] = worker[d]
    BY <1>2, <2>1, BecomesTyped DEF TypeOK
  <2>4. DriverTypeOK'
    BY <1>2, <1>3, <2>1, <2>2 DEF TypeOK
  <2>5. ClientOK(c)'
    BY <1>1, <1>5, <2>1, <2>2, <2>3 DEF ClientOK, LeftOver, pc
  <2>. QED  BY <1>1, <2>2, <2>3, <2>4, <2>5, OnlyHere
<1>6. CASE up[c] # << >>
  <2>1. PICK r \in Asking : /\ OnItsWay(r, worker[c], up[c])
                            /\ conn[c] = "open" => asked[c] = r /\ down[c] = << >>
    BY <1>1, <1>6, InTheMiddle
  <2>2. PICK v \in Locals :
          /\ Becomes(c, v)
          /\ \/ OnItsWay(r, v, up'[c])
             \/ Pending(r, v, up'[c])
             \/ /\ r.op = 3 \/ Refused(r)
                /\ v.pc = "send" /\ v.out = Refusal(r) /\ v.op = r.op /\ up'[c] = << >>
    BY <2>1, ReadsOn
  <2>3. worker'[c] = v /\ \A d \in Client \ {c} : worker'[d] = worker[d]
    BY <1>2, <2>2, BecomesTyped DEF TypeOK
  <2>4. up' \in [Client -> Seq(Field)] /\ \A d \in Client \ {c} : up'[d] = up[d]
    <3>1. up' = [up EXCEPT ![c] = Tail(up[c])] /\ up'[c] \in Seq(Field) /\ up \in [Client -> Seq(Field)]
      BY <1>2, <2>1, ReadsOn DEF TypeOK
    <3>. QED  BY <3>1
  <2>5. DriverTypeOK'
    BY <1>3, <2>2, <2>4
  <2>6. v.pc = "send" => v.out # << >>
    BY <2>2, OneField DEF OnItsWay, Pending, Refusal
  <2>7. LeftOver(c)' \/ v.pc = "send"
    BY <2>1, <2>2, <2>3 DEF LeftOver, Pending
  <2>8. up'[c] = << >> => LeftOver(c)'
    BY DEF LeftOver
  <2>9. conn[c] = "open" => InTurn(c)'
    <3>1. SUFFICES ASSUME conn[c] = "open" PROVE InTurn(c)'
      OBVIOUS
    <3>2. asked'[c] = r /\ r # Nil /\ down'[c] = << >> /\ r.op \in 0 .. 3
      BY <1>1, <2>1, <3>1, Asked
    <3>3. Refusal(r) \in Answers(r) \/ ~(r.op = 3 \/ Refused(r))
      BY <3>2 DEF Refusal, Answers, Refused
    <3>4. \/ OnItsWay(r, v, up'[c]) \/ Pending(r, v, up'[c])
          \/ Refusal(r) \in Answers(r) /\ Answered(r, Refusal(r), v, up'[c], down'[c])
      BY <2>2, <3>2, <3>3 DEF Answered
    <3>. QED  BY <2>3, <3>2, <3>4 DEF InTurn
  <2>10. ClientOK(c)'
    BY <1>1, <1>4, <2>2, <2>3, <2>6, <2>7, <2>8, <2>9 DEF ClientOK, pc, OnItsWay, Pending
  <2>. QED  BY <1>1, <2>3, <2>4, <2>5, <2>10, OnlyHere
<1>. QED  BY <1>5, <1>6

-----------------------------------------------------------------------------
(* The thread works and answers.                                            *)

LEMMA RecvFailsKeeps ==
  ASSUME Inv, NEW c \in Client, RecvFails(c), UNCHANGED driver
  PROVE  Inv'
<1>1. /\ mode' = mode /\ owner' = owner /\ store' = store /\ conn' = conn /\ down' = down
      /\ up' = up /\ handler' = handler /\ open' = open /\ disk' = disk /\ signals' = signals
      /\ asked' = asked /\ told' = told /\ asks' = asks /\ conn[c] = "reset"
  BY DEF RecvFails, stopping, sockets, driver
<1>2. DriverTypeOK /\ TypeOK
  BY DEF Inv, DriverTypeOK
<1>3. PICK v \in Locals : Becomes(c, v) /\ v.pc = "gone"
  BY <1>2, MovesDoes DEF RecvFails, TypeOK
<1>4. /\ worker' \in [Client -> Locals] /\ worker'[c] = v
      /\ \A d \in Client \ {c} : worker'[d] = worker[d]
  BY <1>2, <1>3, BecomesTyped DEF TypeOK
<1>5. DriverTypeOK'
  BY <1>1, <1>2, <1>4 DEF DriverTypeOK, TypeOK
<1>6. ClientOK(c)'
  BY <1>1, <1>3, <1>4 DEF ClientOK, LeftOver, pc
<1>. QED  BY <1>1, <1>4, <1>5, <1>6, OnlyHere

\* The thread enters the critical section with the request it has read.
LEMMA EnterKeeps ==
  ASSUME Inv, NEW c \in Client, Enter(c), UNCHANGED driver
  PROVE  Inv'
<1>1. /\ mode' = mode /\ owner' = c /\ store' = store /\ conn' = conn /\ down' = down
      /\ up' = up /\ handler' = handler /\ open' = open /\ disk' = disk /\ signals' = signals
      /\ asked' = asked /\ told' = told /\ asks' = asks /\ pc(c) = "lock"
  BY DEF Enter, stopping, sockets, driver
<1>2. DriverTypeOK /\ TypeOK /\ ClientOK(c)
  BY DEF Inv, DriverTypeOK
<1>3. PICK v \in Locals : /\ Becomes(c, v) /\ v.pc = "work" /\ v.op = worker[c].op
                          /\ v.key = worker[c].key /\ v.val = worker[c].val
  BY <1>2, MovesDoes DEF Enter, TypeOK
<1>4. /\ worker' \in [Client -> Locals] /\ worker'[c] = v
      /\ \A d \in Client \ {c} : worker'[d] = worker[d]
  BY <1>2, <1>3, BecomesTyped DEF TypeOK
<1>5. DriverTypeOK'
  BY <1>1, <1>2, <1>4 DEF DriverTypeOK, TypeOK, Thread
<1>6. InTurn(c) => InTurn(c)'
  BY <1>1, <1>3, <1>4 DEF InTurn, OnItsWay, Pending, Answered, pc
<1>7. LeftOver(c) => LeftOver(c)'
  BY <1>1, <1>4 DEF LeftOver, OnItsWay, pc
<1>8. ClientOK(c)'
  BY <1>1, <1>2, <1>3, <1>4, <1>6, <1>7 DEF ClientOK, pc
<1>. QED  BY <1>1, <1>4, <1>5, <1>8, OnlyHere

\* What a myjql call leaves: the reply, and the store.
Done(op, key) ==
  IF op # 0 THEN <<1>> ELSE IF Stored(key) = Nil THEN <<0>> ELSE <<1, Stored(key)>>

LEMMA WorkDoes ==
  ASSUME TypeOK, NEW c \in Client, Work(c)
  PROVE  LET w == worker[c] IN
         /\ w.op \in 0 .. 2
         /\ \E v \in Locals : Becomes(c, v) /\ v.pc = "send" /\ v.op = w.op /\ v.out = Done(w.op, w.key)
         /\ store' \in [Key -> Val \cup {Other, Nil}]
         /\ w.op = 0 => store' = store
         /\ w.op = 1 => store' = [k \in Key |-> IF k = w.key THEN w.val ELSE store[k]]
         /\ w.op = 2 => store' = [k \in Key |-> IF k = w.key THEN Nil ELSE store[k]]
<1>1. PICK w \in Locals : w = worker[c]
  BY DEF TypeOK
<1>2. store \in [Key -> Val \cup {Other, Nil}] /\ w.val \in Val \cup {Other, Nil}
  BY DEF TypeOK, Locals
<1>3. PICK x : x = Stored(w.key)
  OBVIOUS
<1>4. x \in Val \cup {Other, Nil} /\ (x # Nil => x \in Val \cup {Other} /\ Length[x] \in Nat)
  BY <1>2, <1>3, LengthAssumption DEF Stored
<1>5. /\ <<0>> \in Seq(Field) /\ <<1>> \in Seq(Field) /\ 0 \in Nat /\ 1 \in Nat
      /\ x # Nil => <<1, x>> \in Seq(Field)
  BY <1>4 DEF Field
<1>6. CASE Get(c)
  <2>1. w.op = 0 /\ store' = store
    BY <1>1, <1>6 DEF Get
  <2>2. CASE x = Nil
    <3>1. Replies(c, w, <<0>>, 0)
      BY <1>1, <1>3, <1>6, <2>2 DEF Get
    <3>2. PICK v \in Locals : Becomes(c, v) /\ v.pc = "send" /\ v.out = <<0>> /\ v.op = w.op
      BY <1>5, <3>1, RepliesDoes, Zenon
    <3>3. v.out = Done(w.op, w.key)
      BY <1>3, <2>1, <2>2, <3>2 DEF Done
    <3>. QED  BY <1>1, <1>2, <2>1, <3>2, <3>3
  <2>3. CASE x # Nil
    <3>1. Replies(c, w, <<1, x>>, Length[x])
      BY <1>1, <1>3, <1>6, <2>3 DEF Get
    <3>2. <<1, x>> \in Seq(Field) /\ Length[x] \in Nat
      BY <1>4, <1>5, <2>3
    <3>3. PICK v \in Locals : Becomes(c, v) /\ v.pc = "send" /\ v.out = <<1, x>> /\ v.op = w.op
      BY <3>1, <3>2, RepliesDoes, Zenon
    <3>4. v.out = Done(w.op, w.key)
      BY <1>3, <2>1, <2>3, <3>3 DEF Done
    <3>. QED  BY <1>1, <1>2, <2>1, <3>3, <3>4
  <2>. QED  BY <2>2, <2>3
<1>7. CASE Set(c) \/ Del(c)
  <2>1. w.op \in {1, 2} /\ Replies(c, w, <<1>>, 1)
    BY <1>1, <1>7 DEF Set, Del
  <2>2. /\ w.op = 1 => store' = [k \in Key |-> IF k = w.key THEN w.val ELSE store[k]]
        /\ w.op = 2 => store' = [k \in Key |-> IF k = w.key THEN Nil ELSE store[k]]
    BY <1>1, <1>7 DEF Set, Del
  <2>3. store' \in [Key -> Val \cup {Other, Nil}]
    BY <1>2, <2>1, <2>2
  <2>. Replies(c, w, <<1>>, 1)
    BY <2>1
  <2>4. PICK v \in Locals : Becomes(c, v) /\ v.pc = "send" /\ v.out = <<1>> /\ v.op = w.op
    BY <1>5, RepliesDoes, Zenon
  <2>5. v.out = Done(w.op, w.key) /\ w.op # 0 /\ w.op \in 0 .. 2
    BY <2>1, <2>4 DEF Done
  <2>. QED  BY <1>1, <2>2, <2>3, <2>4, <2>5
<1>. QED  BY <1>6, <1>7 DEF Work

LEMMA WorkKeeps ==
  ASSUME Inv, NEW c \in Client, Work(c), UNCHANGED driver
  PROVE  Inv'
<1>1. /\ mode' = mode /\ owner' = Nil /\ conn' = conn /\ down' = down
      /\ up' = up /\ handler' = handler /\ open' = open /\ disk' = disk /\ signals' = signals
      /\ asked' = asked /\ told' = told /\ asks' = asks /\ pc(c) = "work"
  BY DEF Work, stopping, sockets, driver
<1>2. DriverTypeOK /\ TypeOK /\ ClientOK(c)
  BY DEF Inv, DriverTypeOK
<1>3. PICK v \in Locals : /\ Becomes(c, v) /\ v.pc = "send" /\ v.op = worker[c].op
                          /\ v.out = Done(worker[c].op, worker[c].key)
  BY <1>2, WorkDoes
<1>4. /\ worker' \in [Client -> Locals] /\ worker'[c] = v
      /\ \A d \in Client \ {c} : worker'[d] = worker[d]
  BY <1>2, <1>3, BecomesTyped DEF TypeOK
<1>5. store' \in [Key -> Val \cup {Other, Nil}]
  BY <1>2, WorkDoes
<1>6. DriverTypeOK'
  BY <1>1, <1>2, <1>4, <1>5 DEF DriverTypeOK, TypeOK
<1>7. worker[c].op \in 0 .. 2 /\ v.out # << >>
  BY <1>2, <1>3, WorkDoes, OneField, TwoFields DEF Done
<1>8. InTurn(c) => InTurn(c)'
  <2>1. SUFFICES ASSUME InTurn(c) PROVE InTurn(c)'
    OBVIOUS
  <2>2. CASE asked[c] = Nil
    BY <1>1, <1>2, <2>1, <2>2 DEF InTurn, pc
  <2>3. CASE asked[c] # Nil
    <3>1. PICK r : r = asked[c]
      OBVIOUS
    <3>2. r \in Asking
      BY <1>2, <2>3, <3>1 DEF DriverTypeOK, Asking
    <3>3. up[c] = << >> /\ worker[c].op = r.op /\ down[c] = << >>
      BY <1>1, <2>1, <2>3, <3>1 DEF InTurn, OnItsWay, Pending, Answered, pc
    <3>4. Stored(worker[c].key) \in Val \cup {Other, Nil}
      BY <1>2 DEF Stored, TypeOK
    <3>5. v.out \in Answers(r)
      BY <1>3, <1>7, <3>3, <3>4 DEF Done, Answers
    <3>6. Answered(r, v.out, v, up'[c], down'[c])
      BY <1>1, <1>3, <3>3, <3>5 DEF Answered
    <3>. QED  BY <1>1, <1>4, <2>3, <3>1, <3>5, <3>6 DEF InTurn
  <2>. QED  BY <2>2, <2>3
<1>9. LeftOver(c) => LeftOver(c)'
  BY <1>1, <1>4 DEF LeftOver, OnItsWay, pc
<1>10. ClientOK(c)'
  BY <1>1, <1>2, <1>3, <1>4, <1>7, <1>8, <1>9 DEF ClientOK, pc
<1>. QED  BY <1>1, <1>4, <1>6, <1>10, OnlyHere

\* The next field of the reply leaves, and the reply stays the same.
LEMMA SendDoes ==
  ASSUME Inv, NEW c \in Client, Send(c)
  PROVE  /\ worker[c].out \in Seq(Field) /\ worker[c].out # << >>
         /\ \E v \in Locals :
              /\ Becomes(c, v) /\ v.op = worker[c].op /\ v.out = Tail(worker[c].out)
              /\ v.pc = IF Len(worker[c].out) > 1 THEN "send"
                        ELSE IF worker[c].op = 3 THEN "gone" ELSE "code"
         /\ down' \in [Client -> Seq(Field)] /\ \A d \in Client \ {c} : down'[d] = down[d]
         /\ down'[c] = IF conn[c] = "open" THEN Append(down[c], Head(worker[c].out)) ELSE down[c]
<1>1. TypeOK /\ ClientOK(c) /\ pc(c) = "send"
  BY DEF Inv, DriverTypeOK, Send
<1>2. worker[c] \in Locals /\ worker[c].out \in Seq(Field) /\ worker[c].out # << >>
  BY <1>1 DEF TypeOK, Locals, ClientOK
<1>3. \E v \in Locals :
        /\ Becomes(c, v) /\ v.op = worker[c].op /\ v.out = Tail(worker[c].out)
        /\ v.pc = IF Len(worker[c].out) > 1 THEN "send"
                  ELSE IF worker[c].op = 3 THEN "gone" ELSE "code"
  BY <1>1, <1>2, SentDoes DEF Send
<1>4. Append(down[c], Head(worker[c].out)) \in Seq(Field) /\ down \in [Client -> Seq(Field)]
  BY <1>1, <1>2 DEF TypeOK
<1>5. /\ down' \in [Client -> Seq(Field)] /\ \A d \in Client \ {c} : down'[d] = down[d]
      /\ down'[c] = IF conn[c] = "open" THEN Append(down[c], Head(worker[c].out)) ELSE down[c]
  BY <1>4 DEF Send
<1>. QED  BY <1>2, <1>3, <1>5

LEMMA SendsOn ==
  ASSUME Inv, NEW c \in Client, Send(c), conn[c] = "open", NEW r \in Asking,
         NEW m \in Answers(r), Answered(r, m, worker[c], up[c], down[c])
  PROVE  Answered(r, m, worker'[c], up'[c], down'[c])
<1>1. up' = up /\ pc(c) = "send"
  BY DEF Send
<1>2. PICK v \in Locals :
        /\ Becomes(c, v) /\ v.op = worker[c].op /\ v.out = Tail(worker[c].out)
        /\ v.pc = IF Len(worker[c].out) > 1 THEN "send"
                  ELSE IF worker[c].op = 3 THEN "gone" ELSE "code"
  BY SendDoes
<1>3. worker'[c] = v
  BY <1>2, BecomesTyped DEF Inv, DriverTypeOK, TypeOK
<1>4. down'[c] = Append(down[c], Head(worker[c].out))
  BY SendDoes
<1>5. Answered(r, m, v, up'[c], down'[c])
  <2>1. CASE worker[c].out = m /\ down[c] = << >> /\ Len(m) = 1
    <3>1. m = <<m[1]>>
      BY AnswersOf, TwoFields, <2>1
    <3>2. down'[c] = m /\ ~(Len(worker[c].out) > 1)
      BY <1>4, <2>1, <3>1, OneField
    <3>. QED  BY <1>1, <1>2, <3>2 DEF Answered
  <2>2. CASE worker[c].out = m /\ down[c] = << >> /\ Len(m) # 1
    <3>1. m = <<m[1], m[2]>> /\ Len(m) = 2
      BY AnswersOf, OneField, TwoFields, <2>2
    <3>2. PICK a, b : a = m[1] /\ b = m[2]
      OBVIOUS
    <3>3. Head(<<a, b>>) = a /\ Tail(<<a, b>>) = <<b>> /\ Append(<< >>, a) = <<a>>
      BY OneField, TwoFields
    <3>4. Head(m) = a /\ Tail(m) = <<b>>
      BY <3>1, <3>2, <3>3
    <3>5. down'[c] = <<a>>
      BY <1>4, <2>2, <3>3, <3>4
    <3>6. Len(worker[c].out) > 1
      BY <2>2, <3>1
    <3>. QED  BY <1>1, <1>2, <2>2, <3>1, <3>2, <3>4, <3>5, <3>6 DEF Answered
  <2>3. CASE Len(m) = 2 /\ worker[c].out = <<m[2]>> /\ down[c] = <<m[1]>>
    <3>1. m = <<m[1], m[2]>>
      BY AnswersOf, OneField, <2>3
    <3>2. down'[c] = m /\ ~(Len(worker[c].out) > 1)
      BY <1>4, <2>3, <3>1, OneField, TwoJoined
    <3>. QED  BY <1>1, <1>2, <3>2 DEF Answered
  <2>. QED  BY <1>1, <2>1, <2>2, <2>3 DEF Answered, pc
<1>. QED  BY <1>3, <1>5

LEMMA SendKeeps ==
  ASSUME Inv, NEW c \in Client, Send(c), UNCHANGED driver
  PROVE  Inv'
<1>1. /\ mode' = mode /\ owner' = owner /\ store' = store
      /\ up' = up /\ handler' = handler /\ open' = open /\ disk' = disk /\ signals' = signals
      /\ asked' = asked /\ told' = told /\ asks' = asks /\ pc(c) = "send" /\ conn[c] # "reset"
  BY DEF Send, stopping, driver
<1>2. DriverTypeOK /\ TypeOK /\ ClientOK(c)
  BY DEF Inv, DriverTypeOK
<1>3. worker[c].out \in Seq(Field) /\ worker[c].out # << >>
  BY SendDoes
<1>4. PICK v \in Locals :
        /\ Becomes(c, v) /\ v.op = worker[c].op /\ v.out = Tail(worker[c].out)
        /\ v.pc = IF Len(worker[c].out) > 1 THEN "send"
                  ELSE IF worker[c].op = 3 THEN "gone" ELSE "code"
  BY SendDoes
<1>5. /\ worker' \in [Client -> Locals] /\ worker'[c] = v
      /\ \A d \in Client \ {c} : worker'[d] = worker[d]
  BY <1>2, <1>4, BecomesTyped DEF TypeOK
<1>6. down' \in [Client -> Seq(Field)] /\ \A d \in Client \ {c} : down'[d] = down[d]
  BY SendDoes
<1>7. /\ conn' \in [Client -> {"none", "open", "closed", "dead", "reset"}]
      /\ \A d \in Client \ {c} : conn'[d] = conn[d]
      /\ conn'[c] = IF conn[c] = "closed" THEN "dead" ELSE conn[c]
  <2>1. conn \in [Client -> {"none", "open", "closed", "dead", "reset"}]
    BY <1>2 DEF TypeOK
  <2>. QED  BY <2>1 DEF Send
<1>8. DriverTypeOK'
  BY <1>1, <1>2, <1>5, <1>6, <1>7 DEF DriverTypeOK, TypeOK
<1>9. v.pc = "send" => v.out # << >>
  <2>1. ASSUME NEW s \in Seq(Field), Len(s) > 1 PROVE Tail(s) # << >>
    <3>1. 1 \in DOMAIN Tail(s)
      BY <2>1
    <3>2. 1 \notin DOMAIN << >>
      OBVIOUS
    <3>. QED  BY <3>1, <3>2
  <2>. QED  BY <1>3, <1>4, <2>1
<1>10. conn[c] = "open" /\ InTurn(c) => InTurn(c)'
  <2>1. SUFFICES ASSUME conn[c] = "open", InTurn(c) PROVE InTurn(c)'
    OBVIOUS
  <2>2. CASE asked[c] = Nil
    BY <1>1, <2>1, <2>2 DEF InTurn, pc, Send, Runs
  <2>3. CASE asked[c] # Nil
    <3>1. PICK r : r = asked[c]
      OBVIOUS
    <3>2. r \in Asking
      BY <1>2, <2>3, <3>1 DEF DriverTypeOK, Asking
    <3>3. PICK m \in Answers(r) : Answered(r, m, worker[c], up[c], down[c])
      BY <1>1, <2>1, <2>3, <3>1 DEF InTurn, OnItsWay, Pending, pc
    <3>4. Answered(r, m, worker'[c], up'[c], down'[c])
      BY <2>1, <3>2, <3>3, SendsOn
    <3>. QED  BY <1>1, <2>3, <3>1, <3>4 DEF InTurn
  <2>. QED  BY <2>2, <2>3
<1>11. conn[c] \in {"closed", "dead"} /\ mode = "up" /\ LeftOver(c) => LeftOver(c)'
  BY <1>1, <1>5 DEF LeftOver, OnItsWay, pc
<1>12. ClientOK(c)'
  BY <1>1, <1>2, <1>5, <1>7, <1>9, <1>10, <1>11 DEF ClientOK, pc
<1>. QED  BY <1>1, <1>5, <1>6, <1>7, <1>8, <1>12, OnlyHere

LEMMA AcceptKeeps ==
  ASSUME Inv, NEW c \in Client, Accept(c), UNCHANGED driver
  PROVE  Inv'
<1>1. /\ mode' = mode /\ owner' = owner /\ store' = store /\ conn' = conn /\ down' = down
      /\ up' = up /\ handler' = handler /\ open' = open /\ disk' = disk /\ signals' = signals
      /\ asked' = asked /\ told' = told /\ asks' = asks /\ pc(c) = "none" /\ conn[c] # "none"
  BY DEF Accept, stopping, sockets, driver
<1>2. DriverTypeOK /\ TypeOK /\ ClientOK(c)
  BY DEF Inv, DriverTypeOK
<1>3. PICK v \in Locals : Becomes(c, v) /\ v.pc = "code"
  BY <1>2, MovesDoes DEF Accept, TypeOK
<1>4. /\ worker' \in [Client -> Locals] /\ worker'[c] = v
      /\ \A d \in Client \ {c} : worker'[d] = worker[d]
  BY <1>2, <1>3, BecomesTyped DEF TypeOK
<1>5. DriverTypeOK'
  BY <1>1, <1>2, <1>4 DEF DriverTypeOK, TypeOK
<1>6. InTurn(c) => InTurn(c)'
  BY <1>1, <1>3, <1>4 DEF InTurn, OnItsWay, Pending, Answered, pc
<1>7. LeftOver(c) => LeftOver(c)'
  BY <1>1, <1>3, <1>4 DEF LeftOver, OnItsWay, pc
<1>8. ClientOK(c)'
  BY <1>1, <1>2, <1>3, <1>4, <1>6, <1>7 DEF ClientOK, pc
<1>. QED  BY <1>1, <1>4, <1>5, <1>8, OnlyHere

\* A step of a handler, or one that ends the process.
LEMMA HandlersKeep ==
  ASSUME Inv, UNCHANGED <<worker, store, conn, up, down, driver>>,
         mode' = mode \/ mode' \in {"exited", "killed"},
         open' \in BOOLEAN, disk' = disk \/ disk' = store, owner' \in Thread \cup {Nil},
         handler' \in [Thread -> {"none", "lock", "close", "unlock", "exit"}],
         signals' \in 0 .. MaxSignals
  PROVE  Inv'
<1>1. /\ worker' = worker /\ store' = store /\ conn' = conn /\ up' = up /\ down' = down
      /\ asked' = asked /\ told' = told /\ asks' = asks
  BY DEF driver
<1>2. DriverTypeOK'
  BY <1>1 DEF Inv, DriverTypeOK, TypeOK
<1>3. ASSUME NEW c \in Client PROVE ClientOK(c)'
  <2>1. ClientOK(c) /\ (mode' = "up" => mode = "up")
    BY DEF Inv
  <2>. QED  BY <1>1, <2>1 DEF ClientOK, InTurn, LeftOver, pc
<1>. QED  BY <1>2, <1>3 DEF Inv

LEMMA StopKeeps ==
  ASSUME Inv, NEW t \in Thread, Interrupt(t) \/ Stop(t), UNCHANGED driver
  PROVE  Inv'
<1>1. TypeOK
  BY DEF Inv, DriverTypeOK
<1>2. CASE Interrupt(t)
  <2>1. signals' \in 0 .. MaxSignals
    BY <1>1, <1>2, BoundAssumption DEF Interrupt, TypeOK
  <2>2. /\ handler' \in [Thread -> {"none", "lock", "close", "unlock", "exit"}]
        /\ worker' = worker /\ store' = store /\ conn' = conn /\ up' = up /\ down' = down
        /\ mode' = mode /\ open' = open /\ disk' = disk /\ owner' = owner
    BY <1>1, <1>2 DEF Interrupt, TypeOK, sockets
  <2>. QED  BY <1>1, <2>1, <2>2, HandlersKeep DEF TypeOK
<1>3. CASE Stop(t)
  <2>1. /\ handler' \in [Thread -> {"none", "lock", "close", "unlock", "exit"}]
        /\ worker' = worker /\ store' = store /\ conn' = conn /\ up' = up /\ down' = down
        /\ mode' = mode \/ mode' \in {"exited", "killed"}
        /\ open' \in BOOLEAN /\ (disk' = disk \/ disk' = store)
        /\ owner' \in Thread \cup {Nil} /\ signals' = signals
    BY <1>1, <1>3 DEF Stop, ExitEnters, ExitCloses, ExitLeaves, Exit, TypeOK, sockets
  <2>. QED  BY <1>1, <2>1, HandlersKeep DEF TypeOK
<1>. QED  BY <1>2, <1>3

LEMMA CrashKeeps ==
  ASSUME Inv, NEW c \in Client, WorkCrashes(c) \/ SendKills(c), UNCHANGED driver
  PROVE  Inv'
<1>1. /\ mode' = "killed" /\ worker' = worker /\ store' = store /\ owner' = owner
      /\ conn' = conn /\ up' = up /\ down' = down
      /\ handler' = handler /\ open' = open /\ disk' = disk /\ signals' = signals
  BY DEF WorkCrashes, SendKills, sockets, stopping
<1>. QED  BY <1>1, HandlersKeep DEF Inv, DriverTypeOK, TypeOK

LEMMA ResetKeeps ==
  ASSUME Inv, NEW c \in Client, ResetArrives(c), UNCHANGED driver
  PROVE  Inv'
<1>1. /\ mode' = mode /\ worker' = worker /\ store' = store /\ owner' = owner
      /\ up' = up /\ down' = down /\ asked' = asked /\ told' = told /\ asks' = asks
      /\ handler' = handler /\ open' = open /\ disk' = disk /\ signals' = signals
      /\ conn[c] = "dead" /\ conn' = [conn EXCEPT ![c] = "reset"]
  BY DEF ResetArrives, stopping, driver
<1>2. DriverTypeOK /\ TypeOK /\ ClientOK(c)
  BY DEF Inv, DriverTypeOK
<1>3. /\ conn' \in [Client -> {"none", "open", "closed", "dead", "reset"}]
      /\ conn'[c] = "reset" /\ \A d \in Client \ {c} : conn'[d] = conn[d]
  BY <1>1, <1>2 DEF TypeOK
<1>4. DriverTypeOK'
  BY <1>1, <1>2, <1>3 DEF DriverTypeOK, TypeOK
<1>5. ClientOK(c)'
  BY <1>1, <1>2, <1>3 DEF ClientOK, LeftOver, pc
<1>. QED  BY <1>1, <1>3, <1>4, <1>5, OnlyHere

LEMMA ServerKeeps ==
  ASSUME Inv, ServerStep, UNCHANGED driver
  PROVE  Inv'
BY RecvKeeps, RecvFailsKeeps, EnterKeeps, WorkKeeps, CrashKeeps, SendKeeps, AcceptKeeps,
   ResetKeeps, StopKeeps DEF ServerStep, Serve

-----------------------------------------------------------------------------
(* The client asks and hears.                                               *)

LEMMA ConnectKeeps ==
  ASSUME Inv, NEW c \in Client, Connect(c)
  PROVE  Inv'
<1>1. /\ mode' = mode /\ worker' = worker /\ store' = store /\ owner' = owner
      /\ up' = up /\ down' = down /\ asked' = asked /\ told' = told /\ asks' = asks
      /\ handler' = handler /\ open' = open /\ disk' = disk /\ signals' = signals
      /\ conn[c] = "none" /\ conn' = [conn EXCEPT ![c] = "open"]
  BY DEF Connect, stopping, driver
<1>2. DriverTypeOK /\ TypeOK /\ ClientOK(c)
  BY DEF Inv, DriverTypeOK
<1>3. /\ conn' \in [Client -> {"none", "open", "closed", "dead", "reset"}]
      /\ conn'[c] = "open" /\ \A d \in Client \ {c} : conn'[d] = conn[d]
  BY <1>1, <1>2 DEF TypeOK
<1>4. DriverTypeOK'
  BY <1>1, <1>2, <1>3 DEF DriverTypeOK, TypeOK
<1>5. ClientOK(c)'
  BY <1>1, <1>2, <1>3 DEF ClientOK, InTurn, pc
<1>. QED  BY <1>1, <1>3, <1>4, <1>5, OnlyHere

LEMMA AskKeeps ==
  ASSUME Inv, NEW c \in Client, NEW r \in Asking, Ask(c, r)
  PROVE  /\ Inv' /\ asked[c] = Nil
         /\ up[c] = << >> /\ down[c] = << >> /\ pc(c) \in {"none", "code"}
<1>1. /\ mode = "up" /\ conn[c] = "open" /\ asked[c] = Nil /\ asks[c] < MaxAsks
      /\ mode' = mode /\ worker' = worker /\ store' = store /\ owner' = owner
      /\ down' = down /\ conn' = conn /\ told' = told
      /\ handler' = handler /\ open' = open /\ disk' = disk /\ signals' = signals
      /\ asked' = [asked EXCEPT ![c] = r] /\ up' = [up EXCEPT ![c] = up[c] \o Fields(r)]
  BY DEF Ask, stopping
<1>2. DriverTypeOK /\ TypeOK /\ ClientOK(c)
  BY DEF Inv, DriverTypeOK
<1>3. up[c] = << >> /\ down[c] = << >> /\ pc(c) \in {"none", "code"}
  BY <1>1, <1>2 DEF ClientOK, InTurn
<1>4. up[c] \o Fields(r) = Fields(r) /\ Fields(r) \in Seq(Field)
  BY <1>3, FieldsOf
<1>5. /\ up' \in [Client -> Seq(Field)] /\ up'[c] = Fields(r)
      /\ \A d \in Client \ {c} : up'[d] = up[d]
  BY <1>1, <1>2, <1>4 DEF TypeOK
<1>6. /\ asked' \in [Client -> Request \cup {Goodbye, Nil}] /\ asked'[c] = r /\ r # Nil
      /\ \A d \in Client \ {c} : asked'[d] = asked[d]
  BY <1>1, <1>2, Asked DEF DriverTypeOK, Asking
<1>7. asks' \in [Client -> 0 .. MaxAsks]
  <2>1. asks[c] + 1 \in 0 .. MaxAsks /\ MaxAsks \in 0 .. MaxAsks
    BY <1>1, <1>2, ImpoliteAssumption DEF DriverTypeOK
  <2>2. asks' = [asks EXCEPT ![c] = IF r = Goodbye THEN MaxAsks ELSE asks[c] + 1]
    BY DEF Ask
  <2>3. (IF r = Goodbye THEN MaxAsks ELSE asks[c] + 1) \in 0 .. MaxAsks
    BY <2>1
  <2>. QED  BY <1>2, <2>2, <2>3 DEF DriverTypeOK
<1>8. DriverTypeOK'
  BY <1>1, <1>2, <1>5, <1>6, <1>7 DEF DriverTypeOK, TypeOK
<1>9. ClientOK(c)'
  BY <1>1, <1>2, <1>3, <1>5, <1>6 DEF ClientOK, InTurn, OnItsWay, pc
<1>. QED  BY <1>1, <1>3, <1>5, <1>6, <1>8, <1>9, OnlyHere

LEMMA MeaningTyped ==
  ASSUME NEW r \in Asking, NEW n, NEW v, r.op = 0 /\ n = 1 => v \in Val \cup {Other}
  PROVE  Meaning(r, n, v) \in Results
BY DEF Meaning, Results

\* A reply that has begun is the first of what is on its way.
LEMMA HeardIs ==
  ASSUME Inv, NEW c \in Client, conn[c] = "open", asked[c] # Nil, down[c] # << >>
  PROVE  /\ asked[c] \in Asking /\ up[c] = << >>
         /\ \E m \in Answers(asked[c]) : /\ Answered(asked[c], m, worker[c], up[c], down[c])
                                         /\ down[c] = m \/ down[c] = <<m[1]>>
<1>1. InTurn(c) /\ asked[c] \in Asking
  BY DEF Inv, ClientOK, DriverTypeOK, Asking
<1>2. PICK m \in Answers(asked[c]) : Answered(asked[c], m, worker[c], up[c], down[c])
  BY <1>1 DEF InTurn
<1>. QED  BY <1>1, <1>2 DEF Answered

\* What hearing a complete reply takes off the stream, and leaves of it.
LEMMA HearIs ==
  ASSUME Inv, NEW c \in Client, Hear(c)
  PROVE  \E m \in Answers(asked[c]) :
           /\ down[c] = m /\ asked[c] \in Asking /\ up[c] = << >>
           /\ Answered(asked[c], m, worker[c], up[c], m)
           /\ pc(c) = IF asked[c].op = 3 THEN "gone" ELSE "code"
           /\ Told(c, Meaning(asked[c], m[1], IF asked[c].op = 0 /\ m[1] = 1 THEN m[2] ELSE Nil))
           /\ down' = [down EXCEPT ![c] = << >>]
<1>1. conn[c] = "open" /\ asked[c] # Nil /\ Complete(c) /\ down[c] # << >>
  BY DEF Hear, Complete
<1>2. PICK r : r = asked[c]
  OBVIOUS
<1>3. r \in Asking /\ up[c] = << >>
  BY <1>1, <1>2, HeardIs
<1>4. PICK m \in Answers(r) : /\ Answered(r, m, worker[c], up[c], down[c])
                              /\ down[c] = m \/ down[c] = <<m[1]>>
  BY <1>1, <1>2, HeardIs
<1>5. /\ m # << >> /\ Head(m) = m[1]
      /\ r.op = 0 /\ m[1] = 1 => m = <<m[1], m[2]>>
      /\ ~(r.op = 0 /\ m[1] = 1) => m = <<m[1]>>
  BY <1>3, AnswersOf
<1>6. down[c] = m
  BY <1>1, <1>2, <1>4, <1>5, OneField DEF Complete
<1>7. pc(c) = IF r.op = 3 THEN "gone" ELSE "code"
  <2>1. m # <<m[1]>> => Len(m) = 2
    BY <1>5, TwoFields
  <2>2. m = <<m[1]>> => Len(m) = 1
    BY OneField
  <2>3. Len(m) = 2 => m # <<m[1]>>
    BY <2>2
  <2>. QED  BY <1>4, <1>5, <1>6, <2>3 DEF Answered, pc
<1>8. PICK a, b : a = m[1] /\ b = m[2]
  OBVIOUS
<1>9. down' = [down EXCEPT ![c] = << >>]
  <2>1. CASE r.op = 0 /\ a = 1
    <3>1. m = <<a, b>> /\ Len(m) = 2 /\ SubSeq(<<a, b>>, 3, 2) = << >>
      BY <1>5, <1>8, <2>1, TwoFields
    <3>2. down' = [down EXCEPT ![c] = SubSeq(m, 3, Len(m))]
      BY <1>2, <1>5, <1>6, <1>8, <2>1 DEF Hear
    <3>. QED  BY <3>1, <3>2
  <2>2. CASE ~(r.op = 0 /\ a = 1)
    <3>1. m = <<a>> /\ Len(m) = 1 /\ SubSeq(<<a>>, 2, 1) = << >>
      BY <1>5, <1>8, <2>2, OneField
    <3>2. down' = [down EXCEPT ![c] = SubSeq(m, 2, Len(m))]
      BY <1>2, <1>5, <1>6, <1>8, <2>2 DEF Hear
    <3>. QED  BY <3>1, <3>2
  <2>. QED  BY <2>1, <2>2
<1>10. Told(c, Meaning(r, m[1], IF r.op = 0 /\ m[1] = 1 THEN m[2] ELSE Nil))
  BY <1>2, <1>5, <1>6 DEF Hear
<1>. QED  BY <1>2, <1>3, <1>4, <1>6, <1>7, <1>9, <1>10

\* The driver's part of a step that ends a request.
LEMMA ToldDoes ==
  ASSUME DriverTypeOK, NEW c \in Client, conn[c] = "open", NEW result \in Results, Told(c, result)
  PROVE  /\ told' \in [Client -> Results] /\ asks' = asks
         /\ asked' \in [Client -> Request \cup {Goodbye, Nil}] /\ asked'[c] = Nil
         /\ conn' \in [Client -> {"none", "open", "closed", "dead", "reset"}]
         /\ conn'[c] = IF asked[c] = Goodbye THEN "closed" ELSE "open"
         /\ \A d \in Client \ {c} : asked'[d] = asked[d] /\ conn'[d] = conn[d]
BY DEF Told, DriverTypeOK, TypeOK

LEMMA HearKeeps ==
  ASSUME Inv, NEW c \in Client, Hear(c)
  PROVE  Inv'
<1>1. /\ conn[c] = "open" /\ asked[c] # Nil
      /\ mode' = mode /\ worker' = worker /\ store' = store /\ owner' = owner /\ up' = up
      /\ handler' = handler /\ open' = open /\ disk' = disk /\ signals' = signals
  BY DEF Hear, stopping
<1>2. DriverTypeOK /\ TypeOK /\ ClientOK(c)
  BY DEF Inv, DriverTypeOK
<1>3. PICK r : r = asked[c]
  OBVIOUS
<1>4. PICK m \in Answers(r) :
        /\ down[c] = m /\ r \in Asking /\ up[c] = << >>
        /\ pc(c) = IF r.op = 3 THEN "gone" ELSE "code"
        /\ Told(c, Meaning(r, m[1], IF r.op = 0 /\ m[1] = 1 THEN m[2] ELSE Nil))
        /\ down' = [down EXCEPT ![c] = << >>]
  BY <1>3, HearIs
<1>5. Meaning(r, m[1], IF r.op = 0 /\ m[1] = 1 THEN m[2] ELSE Nil) \in Results
  <2>1. r.op = 0 /\ m[1] = 1 => m[2] \in Val \cup {Other}
    BY <1>4, AnswersOf
  <2>. QED  BY <1>4, <2>1, MeaningTyped
<1>6. PICK result \in Results : Told(c, result)
  BY <1>4, <1>5
<1>7. /\ told' \in [Client -> Results] /\ asks' = asks
      /\ asked' \in [Client -> Request \cup {Goodbye, Nil}] /\ asked'[c] = Nil
      /\ conn' \in [Client -> {"none", "open", "closed", "dead", "reset"}]
      /\ conn'[c] = IF r = Goodbye THEN "closed" ELSE "open"
      /\ \A d \in Client \ {c} : asked'[d] = asked[d] /\ conn'[d] = conn[d]
  BY <1>1, <1>2, <1>3, <1>6, ToldDoes
<1>8. /\ down' \in [Client -> Seq(Field)] /\ down'[c] = << >>
      /\ \A d \in Client \ {c} : down'[d] = down[d]
  BY <1>2, <1>4 DEF TypeOK
<1>9. DriverTypeOK'
  BY <1>1, <1>2, <1>7, <1>8 DEF DriverTypeOK, TypeOK
<1>10. r.op = 3 => r = Goodbye
  BY <1>4, Asked
<1>11. ClientOK(c)'
  BY <1>1, <1>2, <1>4, <1>7, <1>8, <1>10 DEF ClientOK, InTurn, LeftOver, pc
<1>. QED  BY <1>1, <1>7, <1>8, <1>9, <1>11, OnlyHere

\* A connection the client has open ends only with the process: the thread of a
\* request that is under way is there until its reply is on its way.
LEMMA EndsWithProcess ==
  ASSUME Inv, NEW c \in Client, HearEnd(c)
  PROVE  mode # "up"
<1>1. SUFFICES ASSUME mode = "up" PROVE FALSE
  OBVIOUS
<1>2. conn[c] = "open" /\ asked[c] # Nil /\ ~Complete(c) /\ pc(c) = "gone"
  BY <1>1 DEF HearEnd
<1>3. InTurn(c) /\ asked[c] \in Asking
  BY <1>2 DEF Inv, ClientOK, DriverTypeOK, Asking
<1>4. PICK m \in Answers(asked[c]) : Answered(asked[c], m, worker[c], up[c], down[c])
  BY <1>2, <1>3 DEF InTurn, OnItsWay, Pending, pc
<1>5. asked[c].op = 3 /\ down[c] = m
  BY <1>2, <1>4 DEF Answered, pc
<1>6. m # << >>
  BY <1>3, AnswersOf
<1>. QED  BY <1>2, <1>5, <1>6 DEF Complete

LEMMA HearEndKeeps ==
  ASSUME Inv, NEW c \in Client, HearEnd(c)
  PROVE  Inv'
<1>1. /\ conn[c] = "open" /\ asked[c] # Nil
      /\ mode' = mode /\ worker' = worker /\ store' = store /\ owner' = owner /\ up' = up
      /\ handler' = handler /\ open' = open /\ disk' = disk /\ signals' = signals
      /\ down' = [down EXCEPT ![c] = << >>]
  BY DEF HearEnd, stopping
<1>2. DriverTypeOK /\ TypeOK /\ ClientOK(c) /\ mode # "up"
  BY EndsWithProcess DEF Inv, DriverTypeOK
<1>3. PICK result \in Results : Told(c, result)
  <2>1. CASE Told(c, "error")
    BY <2>1 DEF Results
  <2>2. CASE /\ asked[c].op = 0 => Stale(asked[c]) # 1
             /\ Told(c, Meaning(asked[c], Stale(asked[c]), Nil))
    <3>1. PICK r, n : r = asked[c] /\ n = Stale(asked[c])
      OBVIOUS
    <3>2. Meaning(r, n, Nil) \in Results
      BY <1>1, <1>2, <2>2, <3>1, MeaningTyped DEF DriverTypeOK, Asking
    <3>. QED  BY <2>2, <3>1, <3>2
  <2>. QED  BY <2>1, <2>2 DEF HearEnd
<1>4. /\ told' \in [Client -> Results] /\ asks' = asks
      /\ asked' \in [Client -> Request \cup {Goodbye, Nil}] /\ asked'[c] = Nil
      /\ conn' \in [Client -> {"none", "open", "closed", "dead", "reset"}]
      /\ conn'[c] = IF asked[c] = Goodbye THEN "closed" ELSE "open"
      /\ \A d \in Client \ {c} : asked'[d] = asked[d] /\ conn'[d] = conn[d]
  BY <1>1, <1>2, <1>3, ToldDoes
<1>5. /\ down' \in [Client -> Seq(Field)] /\ down'[c] = << >>
      /\ \A d \in Client \ {c} : down'[d] = down[d]
  BY <1>1, <1>2 DEF TypeOK
<1>6. DriverTypeOK'
  BY <1>1, <1>2, <1>4, <1>5 DEF DriverTypeOK, TypeOK
<1>7. ClientOK(c)'
  BY <1>1, <1>2, <1>4 DEF ClientOK, InTurn, pc
<1>. QED  BY <1>1, <1>4, <1>5, <1>6, <1>7, OnlyHere

LEMMA VanishKeeps ==
  ASSUME Inv, NEW c \in Client, Vanish(c)
  PROVE  Inv'
<1>1. /\ mode' = mode /\ worker' = worker /\ store' = store /\ owner' = owner
      /\ up' = up /\ asked' = asked /\ told' = told /\ asks' = asks
      /\ handler' = handler /\ open' = open /\ disk' = disk /\ signals' = signals
      /\ conn[c] = "open" /\ down' = [down EXCEPT ![c] = << >>]
      /\ conn' = [conn EXCEPT ![c] = IF down[c] = << >> THEN "closed" ELSE "reset"]
  BY DEF Vanish, stopping, driver
<1>2. DriverTypeOK /\ TypeOK /\ ClientOK(c)
  BY DEF Inv, DriverTypeOK
<1>3. /\ conn' \in [Client -> {"none", "open", "closed", "dead", "reset"}]
      /\ conn'[c] \in {"closed", "reset"} /\ \A d \in Client \ {c} : conn'[d] = conn[d]
  BY <1>1, <1>2 DEF TypeOK
<1>4. /\ down' \in [Client -> Seq(Field)] /\ \A d \in Client \ {c} : down'[d] = down[d]
  BY <1>1, <1>2 DEF TypeOK
<1>5. DriverTypeOK'
  BY <1>1, <1>2, <1>3, <1>4 DEF DriverTypeOK, TypeOK
<1>6. mode = "up" => LeftOver(c)
  <2>1. asked[c] = Nil \/ asked[c] \in Asking
    BY <1>2 DEF DriverTypeOK, Asking
  <2>. QED  BY <1>1, <1>2, <2>1 DEF ClientOK, InTurn, LeftOver, Pending, Answered
<1>7. ClientOK(c)'
  BY <1>1, <1>2, <1>3, <1>6 DEF ClientOK, LeftOver, pc
<1>. QED  BY <1>1, <1>3, <1>4, <1>5, <1>7, OnlyHere

-----------------------------------------------------------------------------
(* The invariant, and what it says.                                         *)

LEMMA InitInv == ClientsInit => Inv
<1>1. SUFFICES ASSUME ClientsInit PROVE Inv
  OBVIOUS
<1>2. Start \in Locals /\ << >> \in Seq(Field)
  BY DEF Start, Locals
<1>3. TypeOK
  BY <1>1, <1>2, BoundAssumption DEF ClientsInit, Init, TypeOK
<1>4. DriverTypeOK
  BY <1>1, <1>3, ImpoliteAssumption DEF ClientsInit, DriverTypeOK, Results
<1>5. ASSUME NEW c \in Client PROVE ClientOK(c)
  BY <1>1 DEF ClientsInit, Init, ClientOK, Start, pc
<1>. QED  BY <1>4, <1>5 DEF Inv

LEMMA NextInv == Inv /\ [Next]_allVars => Inv'
<1>1. SUFFICES ASSUME Inv, [Next]_allVars PROVE Inv'
  OBVIOUS
<1>2. CASE ServerStep /\ UNCHANGED driver
  BY <1>1, <1>2, ServerKeeps
<1>3. CASE ClientStep
  <2>1. PICK c \in Client : \/ Connect(c) \/ (\E r \in Asking : Ask(c, r))
                            \/ Hear(c) \/ HearEnd(c) \/ Vanish(c)
    BY <1>3 DEF ClientStep, Asking
  <2>. QED  BY <1>1, <2>1, ConnectKeeps, AskKeeps, HearKeeps, HearEndKeeps, VanishKeeps
<1>4. CASE UNCHANGED allVars
  <2>1. /\ mode' = mode /\ worker' = worker /\ store' = store /\ owner' = owner
        /\ up' = up /\ down' = down /\ conn' = conn
        /\ handler' = handler /\ open' = open /\ disk' = disk /\ signals' = signals
    BY <1>4 DEF allVars, vars
  <2>2. UNCHANGED driver
    BY <1>4 DEF allVars
  <2>. QED  BY <1>1, <2>1, <2>2, HandlersKeep DEF Inv, DriverTypeOK, TypeOK
<1>. QED  BY <1>1, <1>2, <1>3, <1>4 DEF Next

\* Whatever clients do, leave or not, and however often and wherever ctrl + c
\* lands: each client that is there and its thread agree where its request is.
THEOREM Protocol == Spec => []Inv
BY InitInv, NextInv, PTL DEF Spec

\* No field is ever taken for one of another kind: a length received as a code,
\* a key as a value, or myjql_get's -1 as a length.
THEOREM TypeCorrect == Spec => []DriverTypeOK
<1>1. Inv => DriverTypeOK
  BY DEF Inv
<1>. QED  BY <1>1, Protocol, PTL

LEMMA StepInStep == Inv /\ mode = "up" => InStep
<1>1. SUFFICES ASSUME Inv, mode = "up", NEW c \in Client, asked[c] = Nil, conn[c] = "open"
               PROVE  up[c] = << >> /\ Stream(c) = << >> /\ pc(c) \in {"none", "code", "gone"}
  BY DEF InStep
<1>2. up[c] = << >> /\ down[c] = << >> /\ pc(c) \in {"none", "code"}
  BY <1>1 DEF Inv, ClientOK, InTurn
<1>. QED  BY <1>2, NoField DEF Stream

\* As long as the process is up nothing is left over between two requests of a
\* client, in either direction, after each of the replies there are, whatever
\* the other clients do.
THEOREM Framing == Spec => [](mode = "up" => InStep)
BY Protocol, StepInStep, PTL

-----------------------------------------------------------------------------
(* When everybody is polite and nobody presses ctrl + c.                    *)

LEMMA QuietThread ==
  ASSUME Inv, Quiet, NEW c \in Client, pc(c) \notin {"none", "gone"}
  PROVE  conn[c] = "open"
BY DEF Inv, Quiet, ClientOK, DriverTypeOK, TypeOK

LEMMA QuietStep ==
  ASSUME MaxSignals = 0, Impolite = {}, Inv, Quiet, Next
  PROVE  Quiet'
<1>1. /\ mode = "up" /\ open = TRUE /\ signals = 0 /\ handler = [t \in Thread |-> "none"]
      /\ \A c \in Client : /\ conn[c] \in {"none", "open", "closed"}
                           /\ conn[c] = "closed" => pc(c) = "gone"
  BY DEF Quiet
<1>2. TypeOK
  BY DEF Inv, DriverTypeOK
<1>3. ASSUME NEW c \in Client, NEW v, Becomes(c, v), conn' = conn, pc(c) \notin {"none", "gone"}
      PROVE  \A d \in Client : /\ conn'[d] \in {"none", "open", "closed"}
                               /\ conn'[d] = "closed" => pc(d)' = "gone"
  <2>1. conn[c] = "open"
    BY <1>3, QuietThread
  <2>2. \A d \in Client \ {c} : worker'[d] = worker[d]
    BY <1>2, <1>3, BecomesTyped DEF TypeOK
  <2>. QED  BY <1>1, <1>3, <2>1, <2>2 DEF pc
<1>4. ASSUME NEW c \in Client, Serve(c) \/ ResetArrives(c) PROVE Quiet'
  <2>1. CASE RecvCode(c) \/ RecvKey(c) \/ RecvValue(c)
    <3>1. /\ mode' = mode /\ conn' = conn /\ handler' = handler /\ open' = open /\ signals' = signals
          /\ mode = "up" /\ pc(c) \in {"code", "key", "value"}
      BY <2>1 DEF RecvCode, RecvKey, RecvValue, Runs, stopping
    <3>2. \E v : Becomes(c, v)
      <4>1. CASE up[c] = << >>
        BY <2>1, <4>1, ReadsEnd
      <4>2. CASE up[c] # << >>
        BY <2>1, <3>1, <4>2, InTheMiddle, ReadsOn
      <4>. QED  BY <4>1, <4>2
    <3>3. pc(c) \notin {"none", "gone"}
      BY <3>1
    <3>. QED  BY <1>1, <1>3, <3>1, <3>2, <3>3 DEF Quiet
  <2>2. CASE Enter(c)
    <3>1. /\ mode' = mode /\ conn' = conn /\ handler' = handler /\ open' = open /\ signals' = signals
          /\ pc(c) = "lock"
      BY <2>2 DEF Enter, stopping, sockets
    <3>2. \E v : Becomes(c, v)
      BY <1>2, <2>2, MovesDoes DEF Enter, TypeOK
    <3>. QED  BY <1>1, <1>3, <3>1, <3>2 DEF Quiet
  <2>3. CASE Work(c)
    <3>1. /\ mode' = mode /\ conn' = conn /\ handler' = handler /\ open' = open /\ signals' = signals
          /\ pc(c) = "work"
      BY <2>3 DEF Work, stopping, sockets
    <3>2. \E v : Becomes(c, v)
      BY <1>2, <2>3, WorkDoes
    <3>. QED  BY <1>1, <1>3, <3>1, <3>2 DEF Quiet
  <2>4. CASE Send(c)
    <3>1. /\ mode' = mode /\ handler' = handler /\ open' = open /\ signals' = signals
          /\ pc(c) = "send"
      BY <2>4 DEF Send, stopping
    <3>2. conn[c] = "open"
      BY <3>1, QuietThread
    <3>3. conn' = conn
      BY <2>4, <3>2 DEF Send
    <3>4. worker[c] \in Locals /\ worker[c].out # << >>
      BY <1>2, <3>1 DEF TypeOK, Inv, ClientOK
    <3>5. \E v : Becomes(c, v)
      BY <2>4, <3>1, <3>4, SentDoes DEF Send
    <3>. QED  BY <1>1, <1>3, <3>1, <3>3, <3>5 DEF Quiet
  <2>5. CASE Accept(c)
    <3>1. /\ mode' = mode /\ conn' = conn /\ handler' = handler /\ open' = open /\ signals' = signals
          /\ pc(c) = "none"
      BY <2>5 DEF Accept, stopping, sockets
    <3>2. conn[c] # "closed"
      BY <1>1, <3>1
    <3>3. \A d \in Client \ {c} : worker'[d] = worker[d]
      BY <1>2, <2>5 DEF Accept, TypeOK
    <3>. QED  BY <1>1, <3>1, <3>2, <3>3 DEF Quiet, pc
  <2>6. ~RecvFails(c) /\ ~SendKills(c) /\ ~WorkCrashes(c) /\ ~ResetArrives(c)
    BY <1>1 DEF RecvFails, SendKills, WorkCrashes, ResetArrives
  <2>. QED  BY <1>4, <2>1, <2>2, <2>3, <2>4, <2>5, <2>6 DEF Serve
<1>5. \A t \in Thread : ~Interrupt(t) /\ ~Stop(t)
  BY <1>1 DEF Interrupt, Stop, ExitEnters, ExitCloses, ExitLeaves, Exit
<1>6. ASSUME NEW c \in Client, Connect(c) \/ \E r \in Asking : Ask(c, r) PROVE Quiet'
  <2>1. /\ mode' = mode /\ worker' = worker /\ handler' = handler /\ open' = open
        /\ signals' = signals /\ (conn' = conn \/ conn' = [conn EXCEPT ![c] = "open"])
    BY <1>6 DEF Connect, Ask, stopping
  <2>. QED  BY <1>1, <1>2, <2>1 DEF Quiet, pc, TypeOK
<1>7. ASSUME NEW c \in Client, Hear(c) PROVE Quiet'
  <2>1. /\ mode' = mode /\ worker' = worker /\ handler' = handler /\ open' = open
        /\ signals' = signals
    BY <1>7 DEF Hear, stopping
  <2>2. pc(c) = IF asked[c].op = 3 THEN "gone" ELSE "code"
    BY <1>7, HearIs
  <2>3. conn' = IF asked[c] = Goodbye THEN [conn EXCEPT ![c] = "closed"] ELSE conn
    BY <1>7 DEF Hear, Told
  <2>4. asked[c] = Goodbye => asked[c].op = 3
    BY DEF Goodbye
  <2>. QED  BY <1>1, <1>2, <2>1, <2>2, <2>3, <2>4 DEF Quiet, pc, TypeOK
<1>8. \A c \in Client : ~HearEnd(c) /\ ~Vanish(c)
  BY <1>1, EndsWithProcess DEF Vanish
<1>. QED  BY <1>4, <1>5, <1>6, <1>7, <1>8 DEF Next, ServerStep, ClientStep, Asking

LEMMA QuietInit == ClientsInit => Quiet
BY DEF ClientsInit, Init, Quiet

LEMMA QuietNext ==
  ASSUME MaxSignals = 0, Impolite = {}
  PROVE  Inv /\ Quiet /\ [Next]_allVars => Quiet'
<1>1. ASSUME Quiet, UNCHANGED allVars PROVE Quiet'
  BY <1>1 DEF Quiet, allVars, vars, pc
<1>. QED  BY <1>1, QuietStep

LEMMA Undisturbed ==
  ASSUME MaxSignals = 0, Impolite = {}
  PROVE  Spec => [](Inv /\ Quiet)
BY QuietInit, QuietNext, Protocol, PTL DEF Spec

\* Between requests nothing is left over in either direction.
THEOREM InStepAlways ==
  ASSUME MaxSignals = 0, Impolite = {}
  PROVE  Spec => []InStep
<1>1. Inv /\ Quiet => InStep
  BY StepInStep DEF Quiet
<1>. QED  BY <1>1, Undisturbed, PTL

-----------------------------------------------------------------------------
(* The server implements Service.                                           *)

\* What is known of the answer to the request a, for locals w and a stream d.
AnswerOf(a, w, d) ==
  LET s == d \o (IF w.pc = "send" THEN w.out ELSE << >>)
  IN  IF a = Nil \/ s = << >> THEN Nil
      ELSE Meaning(a, Head(s), IF Len(s) > 1 THEN s[2] ELSE Nil)

MeaningOf(r, m) == Meaning(r, m[1], IF r.op = 0 /\ m[1] = 1 THEN m[2] ELSE Nil)

LEMMA AnswerIs ==
  /\ Answer  = [c \in Client |-> AnswerOf(asked[c], worker[c], down[c])]
  /\ Answer' = [c \in Client |-> AnswerOf(asked'[c], worker'[c], down'[c])]
BY DEF Answer, AnswerOf, Stream, pc

LEMMA AnswerHere ==
  ASSUME NEW c \in Client,
         \A d \in Client \ {c} : asked'[d] = asked[d] /\ worker'[d] = worker[d] /\ down'[d] = down[d]
  PROVE  /\ Answer[c] = AnswerOf(asked[c], worker[c], down[c])
         /\ Answer' = [Answer EXCEPT ![c] = AnswerOf(asked'[c], worker'[c], down'[c])]
BY AnswerIs

\* There is none before the request is done.
LEMMA NotYet ==
  ASSUME NEW r, NEW w, NEW u, OnItsWay(r, w, u) \/ Pending(r, w, u)
  PROVE  AnswerOf(r, w, << >>) = Nil
<1>1. w.pc # "send"
  BY DEF OnItsWay, Pending
<1>. QED  BY <1>1, NoField DEF AnswerOf

\* It is the same however much of the reply is on its way.
LEMMA AsAnswered ==
  ASSUME NEW r \in Asking, NEW m \in Answers(r), NEW w, NEW u, NEW d, Answered(r, m, w, u, d)
  PROVE  AnswerOf(r, w, d) = MeaningOf(r, m) /\ MeaningOf(r, m) # Nil
<1>1. /\ m # << >> /\ m[1] \in 0 .. 3 /\ Head(m) = m[1]
      /\ r.op = 0 /\ m[1] = 1 => m[2] \in Val \cup {Other} /\ m = <<m[1], m[2]>>
      /\ ~(r.op = 0 /\ m[1] = 1) => m = <<m[1]>>
  BY AnswersOf
<1>2. r # Nil
  BY Asked
<1>3. (r.op = 0 /\ m[1] = 1) <=> Len(m) > 1
  BY <1>1, OneField, TwoFields
<1>4. << >> \o m = m /\ m \o << >> = m
  BY <1>1, OneField, TwoFields
<1>5. d \o (IF w.pc = "send" THEN w.out ELSE << >>) = m
  <2>1. CASE w.pc = "send" /\ w.out = m /\ d = << >>
    BY <1>4, <2>1
  <2>2. CASE w.pc = "send" /\ Len(m) = 2 /\ w.out = <<m[2]>> /\ d = <<m[1]>>
    <3>1. m = <<m[1], m[2]>>
      BY <1>1, <1>3, <2>2
    <3>. QED  BY <2>2, <3>1, TwoJoined
  <2>3. CASE w.pc = (IF r.op = 3 THEN "gone" ELSE "code") /\ d = m
    BY <1>4, <2>3
  <2>. QED  BY <2>1, <2>2, <2>3 DEF Answered
<1>6. AnswerOf(r, w, d) = MeaningOf(r, m)
  BY <1>1, <1>2, <1>3, <1>5 DEF AnswerOf, MeaningOf
<1>7. MeaningOf(r, m) # Nil
  <2>1. CASE r.op = 0 /\ m[1] = 1
    BY <1>1, <2>1, OtherAssumption DEF MeaningOf, Meaning
  <2>2. CASE ~(r.op = 0 /\ m[1] = 1)
    BY <2>2, NoneAssumption DEF MeaningOf, Meaning
  <2>. QED  BY <2>1, <2>2
<1>. QED  BY <1>6, <1>7

seen == <<store, asked, Answer, told>>

\* A step of c's thread that changes nothing of the answer to it.
LEMMA Stutters ==
  ASSUME NEW c \in Client, store' = store, asked' = asked, told' = told,
         AnswerOf(asked'[c], worker'[c], down'[c]) = AnswerOf(asked[c], worker[c], down[c]),
         \A d \in Client \ {c} : worker'[d] = worker[d] /\ down'[d] = down[d]
  PROVE  UNCHANGED seen
BY AnswerIs DEF seen

\* The thread does the request, or refuses it.
LEMMA Does ==
  ASSUME NEW c \in Client, asked' = asked, told' = told, down' = down,
         \A d \in Client \ {c} : worker'[d] = worker[d],
         NEW r \in Asking, asked[c] = r, AnswerOf(r, worker[c], down[c]) = Nil,
         NEW m, AnswerOf(r, worker'[c], down'[c]) = MeaningOf(r, m),
         MeaningOf(r, m) = Promised!Reply(r),
         store' = IF Promised!Reply(r) = "ok" THEN Promised!Effect(r) ELSE store
  PROVE  Promised!Do(c)
<1>1. Answer[c] = Nil /\ r # Nil
  BY AnswerHere, Asked
<1>2. Answer' = [Answer EXCEPT ![c] = Promised!Reply(r)]
  BY AnswerHere
<1>. QED  BY <1>1, <1>2 DEF Promised!Do

LEMMA RecvImplements ==
  ASSUME Inv, Quiet, NEW c \in Client, RecvCode(c) \/ RecvKey(c) \/ RecvValue(c), UNCHANGED driver
  PROVE  Promised!Do(c) \/ UNCHANGED seen
<1>1. /\ mode = "up" /\ pc(c) \in {"code", "key", "value"}
      /\ store' = store /\ down' = down /\ asked' = asked /\ told' = told
  BY DEF RecvCode, RecvKey, RecvValue, Runs, driver
<1>2. pc(c) \notin {"none", "gone"}
  BY <1>1
<1>3. conn[c] = "open"
  BY <1>2, QuietThread
<1>4. up[c] # << >>
  BY <1>3, ReadsEnd
<1>5. PICK r \in Asking : OnItsWay(r, worker[c], up[c]) /\ asked[c] = r /\ down[c] = << >>
  BY <1>1, <1>3, <1>4, InTheMiddle
<1>6. PICK v \in Locals :
        /\ Becomes(c, v)
        /\ \/ OnItsWay(r, v, up'[c])
           \/ Pending(r, v, up'[c])
           \/ /\ r.op = 3 \/ Refused(r)
              /\ v.pc = "send" /\ v.out = Refusal(r) /\ v.op = r.op /\ up'[c] = << >>
  BY <1>5, ReadsOn
<1>7. worker'[c] = v /\ \A d \in Client \ {c} : worker'[d] = worker[d]
  BY <1>6, BecomesTyped DEF Inv, DriverTypeOK, TypeOK
<1>8. AnswerOf(r, worker[c], down[c]) = Nil
  <2>1. PICK w, u : w = worker[c] /\ u = up[c]
    OBVIOUS
  <2>. QED  BY <1>5, <2>1, NotYet
<1>9. PICK u : u = up'[c]
  OBVIOUS
<1>10. CASE OnItsWay(r, v, u) \/ Pending(r, v, u)
  <2>1. AnswerOf(r, v, << >>) = Nil
    BY <1>10, NotYet
  <2>. QED  BY <1>1, <1>5, <1>7, <1>8, <2>1, Stutters
<1>11. CASE /\ r.op = 3 \/ Refused(r)
            /\ v.pc = "send" /\ v.out = Refusal(r) /\ v.op = r.op /\ u = << >>
  <2>1. r.op \in 0 .. 3
    BY Asked
  <2>2. PICK m \in Answers(r) : m = Refusal(r)
    BY <1>11, <2>1 DEF Refusal, Answers, Refused
  <2>3. Answered(r, m, v, u, << >>)
    BY <1>11, <2>2 DEF Answered
  <2>4. AnswerOf(r, v, << >>) = MeaningOf(r, m)
    BY <2>3, AsAnswered
  <2>5. /\ MeaningOf(r, m) = Promised!Reply(r)
        /\ store' = IF Promised!Reply(r) = "ok" THEN Promised!Effect(r) ELSE store
    <3>1. CASE r.op = 3
      BY <1>1, <2>2, <3>1, OneField
         DEF Refusal, MeaningOf, Meaning, Promised!Reply, Promised!Effect
    <3>2. CASE r.op # 3 /\ TooLong(r.key)
      BY <1>1, <2>2, <3>2, OneField
         DEF Refusal, MeaningOf, Meaning, Promised!Reply, Promised!Effect
    <3>3. CASE r.op = 1 /\ ~TooLong(r.key) /\ TooLong(r.val)
      BY <1>1, <2>2, <3>3, OneField
         DEF Refusal, MeaningOf, Meaning, Promised!Reply, Promised!Effect
    <3>. QED  BY <1>11, <3>1, <3>2, <3>3 DEF Refused
  <2>. QED  BY <1>1, <1>5, <1>7, <1>8, <2>4, <2>5, Does
<1>. QED  BY <1>6, <1>9, <1>10, <1>11

LEMMA WorkImplements ==
  ASSUME Inv, Quiet, NEW c \in Client, Work(c), UNCHANGED driver
  PROVE  Promised!Do(c)
<1>1. /\ pc(c) = "work" /\ down' = down /\ asked' = asked /\ told' = told
  BY DEF Work, sockets, driver
<1>2. TypeOK /\ DriverTypeOK /\ conn[c] = "open" /\ mode = "up"
  BY <1>1, QuietThread DEF Inv, DriverTypeOK, Quiet
<1>3. InTurn(c)
  BY <1>2 DEF Inv, ClientOK
<1>4. PICK r, w, u : r = asked[c] /\ w = worker[c] /\ u = up[c]
  OBVIOUS
<1>5. r \in Asking /\ Pending(r, w, u) /\ down[c] = << >>
  <2>1. r # Nil
    BY <1>1, <1>2, <1>3, <1>4 DEF InTurn
  <2>. QED  BY <1>1, <1>2, <1>3, <1>4, <2>1
            DEF InTurn, OnItsWay, Answered, pc, DriverTypeOK, Asking
<1>6. /\ r.op \in 0 .. 2 /\ r.key \in Key /\ w.op = r.op /\ w.key = r.key
      /\ r.op = 1 => w.val = r.val
      /\ ~TooLong(r.key) /\ ~(r.op = 1 /\ TooLong(r.val))
  BY <1>5, Asked DEF Pending, Refused
<1>7. AnswerOf(r, worker[c], down[c]) = Nil
  BY <1>4, <1>5, NotYet
<1>8. PICK v \in Locals : Becomes(c, v) /\ v.pc = "send" /\ v.op = w.op /\ v.out = Done(w.op, w.key)
  BY <1>2, <1>4, WorkDoes
<1>9. worker'[c] = v /\ \A d \in Client \ {c} : worker'[d] = worker[d]
  BY <1>2, <1>8, BecomesTyped DEF TypeOK
<1>10. PICK x : x = store[r.key]
  OBVIOUS
<1>11. x \in Val \cup {Other, Nil} /\ store \in [Key -> Val \cup {Other, Nil}]
  BY <1>2, <1>6, <1>10 DEF TypeOK
<1>12. PICK m : m = Done(w.op, w.key)
  OBVIOUS
<1>13. m = IF r.op # 0 THEN <<1>> ELSE IF x = Nil THEN <<0>> ELSE <<1, x>>
  BY <1>6, <1>10, <1>12 DEF Done, Stored
<1>14. m \in Answers(r)
  BY <1>6, <1>11, <1>13 DEF Answers
<1>15. Answered(r, m, v, u, << >>)
  BY <1>5, <1>6, <1>8, <1>12, <1>14 DEF Answered, Pending
<1>16. AnswerOf(r, v, << >>) = MeaningOf(r, m)
  BY <1>5, <1>14, <1>15, AsAnswered
<1>17. Promised!Reply(r) = IF r.op # 0 THEN "ok" ELSE IF x = Nil THEN "not found" ELSE x
  BY <1>6, <1>10 DEF Promised!Reply
<1>18. MeaningOf(r, m) = Promised!Reply(r)
  <2>1. CASE r.op # 0
    <3>1. m = <<1>> /\ m[1] = 1
      BY <1>13, <2>1, OneField
    <3>2. MeaningOf(r, m) = "ok"
      BY <1>6, <2>1, <3>1 DEF MeaningOf, Meaning
    <3>. QED  BY <1>17, <2>1, <3>2
  <2>2. CASE r.op = 0 /\ x = Nil
    <3>1. m = <<0>> /\ m[1] = 0
      BY <1>13, <2>2, OneField
    <3>2. MeaningOf(r, m) = "not found"
      BY <1>6, <2>2, <3>1 DEF MeaningOf, Meaning
    <3>. QED  BY <1>17, <2>2, <3>2
  <2>3. CASE r.op = 0 /\ x # Nil
    <3>1. m = <<1, x>> /\ m[1] = 1 /\ m[2] = x
      BY <1>13, <2>3, TwoFields
    <3>2. MeaningOf(r, m) = x
      BY <1>6, <2>3, <3>1 DEF MeaningOf, Meaning
    <3>. QED  BY <1>17, <2>3, <3>2
  <2>. QED  BY <2>1, <2>2, <2>3
<1>19. /\ r.op = 0 => store' = store
       /\ r.op = 1 => store' = [store EXCEPT ![r.key] = r.val]
       /\ r.op = 2 => store' = [store EXCEPT ![r.key] = Nil]
  <2>1. /\ w.op = 0 => store' = store
        /\ w.op = 1 => store' = [k \in Key |-> IF k = w.key THEN w.val ELSE store[k]]
        /\ w.op = 2 => store' = [k \in Key |-> IF k = w.key THEN Nil ELSE store[k]]
    BY <1>2, <1>4, WorkDoes
  <2>. QED  BY <1>6, <1>11, <2>1
<1>20. store' = IF Promised!Reply(r) = "ok" THEN Promised!Effect(r) ELSE store
  <2>1. r.op = 0 => Promised!Effect(r) = store
    BY DEF Promised!Effect
  <2>2. r.op = 1 => Promised!Effect(r) = [store EXCEPT ![r.key] = r.val]
    BY DEF Promised!Effect
  <2>3. r.op = 2 => Promised!Effect(r) = [store EXCEPT ![r.key] = Nil]
    BY DEF Promised!Effect
  <2>4. r.op # 0 => Promised!Reply(r) = "ok"
    BY <1>17
  <2>. QED  BY <1>6, <1>19, <2>1, <2>2, <2>3, <2>4
<1>. QED  BY <1>1, <1>4, <1>5, <1>7, <1>9, <1>16, <1>18, <1>20, Does

LEMMA SendImplements ==
  ASSUME Inv, Quiet, NEW c \in Client, Send(c), UNCHANGED driver
  PROVE  UNCHANGED seen
<1>1. /\ pc(c) = "send" /\ store' = store /\ asked' = asked /\ told' = told
  BY DEF Send, driver
<1>2. TypeOK /\ DriverTypeOK /\ conn[c] = "open" /\ mode = "up" /\ InTurn(c)
  BY <1>1, QuietThread DEF Inv, DriverTypeOK, Quiet, ClientOK
<1>3. PICK r : r = asked[c]
  OBVIOUS
<1>4. r \in Asking
  <2>1. r # Nil
    BY <1>1, <1>2, <1>3 DEF InTurn
  <2>. QED  BY <1>2, <1>3, <2>1 DEF DriverTypeOK, Asking
<1>5. PICK m \in Answers(r) : Answered(r, m, worker[c], up[c], down[c])
  BY <1>1, <1>2, <1>3, <1>4, Asked DEF InTurn, OnItsWay, Pending, pc
<1>6. Answered(r, m, worker'[c], up'[c], down'[c])
  BY <1>2, <1>4, <1>5, SendsOn
<1>7. PICK w, u, d, x, y, z : /\ w = worker[c] /\ u = up[c] /\ d = down[c]
                             /\ x = worker'[c] /\ y = up'[c] /\ z = down'[c]
  OBVIOUS
<1>8. AnswerOf(r, w, d) = MeaningOf(r, m) /\ AnswerOf(r, x, z) = MeaningOf(r, m)
  BY <1>4, <1>5, <1>6, <1>7, AsAnswered
<1>9. \A d1 \in Client \ {c} : worker'[d1] = worker[d1] /\ down'[d1] = down[d1]
  <2>1. \E v : Becomes(c, v)
    BY SendDoes
  <2>. QED  BY <1>2, <2>1, SendDoes, BecomesTyped DEF TypeOK
<1>. QED  BY <1>1, <1>3, <1>7, <1>8, <1>9, Stutters

LEMMA ThreadImplements ==
  ASSUME Inv, Quiet, NEW c \in Client, Enter(c) \/ Accept(c), UNCHANGED driver
  PROVE  UNCHANGED seen
<1>1. /\ pc(c) \in {"lock", "none"} /\ store' = store /\ asked' = asked /\ told' = told /\ down' = down
  BY DEF Enter, Accept, sockets, driver
<1>2. TypeOK
  BY DEF Inv, DriverTypeOK
<1>3. PICK v : Becomes(c, v) /\ v.pc \in {"work", "code"}
  BY <1>2, MovesDoes DEF Enter, Accept, TypeOK
<1>4. worker'[c] = v /\ \A d \in Client \ {c} : worker'[d] = worker[d]
  BY <1>2, <1>3, BecomesTyped DEF TypeOK
<1>5. AnswerOf(asked'[c], worker'[c], down'[c]) = AnswerOf(asked[c], worker[c], down[c])
  BY <1>1, <1>3, <1>4 DEF AnswerOf, pc
<1>. QED  BY <1>1, <1>4, <1>5, Stutters

LEMMA ConnectImplements ==
  ASSUME NEW c \in Client, Connect(c)
  PROVE  UNCHANGED seen
<1>1. store' = store /\ asked' = asked /\ told' = told /\ worker' = worker /\ down' = down
  BY DEF Connect, driver
<1>. QED  BY <1>1, AnswerIs DEF seen

LEMMA AskImplements ==
  ASSUME Inv, NEW c \in Client, NEW r \in Asking, Ask(c, r)
  PROVE  Promised!Ask(c, r)
<1>1. /\ asked[c] = Nil /\ asked' = [asked EXCEPT ![c] = r]
      /\ store' = store /\ told' = told /\ worker' = worker /\ down' = down
  BY DEF Ask
<1>2. up[c] = << >> /\ down[c] = << >> /\ pc(c) \in {"none", "code"}
  BY AskKeeps
<1>3. asked \in [Client -> Request \cup {Goodbye, Nil}]
  BY DEF Inv, DriverTypeOK
<1>4. asked'[c] = r /\ \A d \in Client \ {c} : asked'[d] = asked[d]
  BY <1>1, <1>3
<1>5. /\ AnswerOf(asked[c], worker[c], down[c]) = Nil
      /\ AnswerOf(asked'[c], worker'[c], down'[c]) = Nil
  BY <1>1, <1>2, NoField DEF AnswerOf, pc
<1>6. Answer' = Answer
  <2>1. \A d \in Client : AnswerOf(asked'[d], worker'[d], down'[d]) = AnswerOf(asked[d], worker[d], down[d])
    BY <1>1, <1>4, <1>5
  <2>. QED  BY <2>1, AnswerIs
<1>. QED  BY <1>1, <1>6 DEF Promised!Ask

LEMMA HearImplements ==
  ASSUME Inv, NEW c \in Client, Hear(c)
  PROVE  Promised!Tell(c)
<1>1. store' = store /\ worker' = worker
  BY DEF Hear
<1>2. PICK r : r = asked[c]
  OBVIOUS
<1>3. PICK m \in Answers(r) :
        /\ down[c] = m /\ r \in Asking
        /\ Answered(r, m, worker[c], up[c], m)
        /\ Told(c, MeaningOf(r, m))
        /\ down' = [down EXCEPT ![c] = << >>]
  BY <1>2, HearIs DEF MeaningOf
<1>4. PICK w, u : w = worker[c] /\ u = up[c]
  OBVIOUS
<1>5. AnswerOf(r, w, m) = MeaningOf(r, m) /\ MeaningOf(r, m) # Nil
  BY <1>3, <1>4, AsAnswered
<1>6. /\ told' = [told EXCEPT ![c] = MeaningOf(r, m)] /\ asked' = [asked EXCEPT ![c] = Nil]
  BY <1>3 DEF Told
<1>7. /\ asked \in [Client -> Request \cup {Goodbye, Nil}] /\ down \in [Client -> Seq(Field)]
  BY DEF Inv, DriverTypeOK, TypeOK
<1>8. asked'[c] = Nil /\ \A d \in Client \ {c} : asked'[d] = asked[d] /\ down'[d] = down[d]
  BY <1>3, <1>6, <1>7
<1>9. AnswerOf(asked'[c], worker'[c], down'[c]) = Nil
  BY <1>8 DEF AnswerOf
<1>10. /\ Answer[c] = MeaningOf(r, m)
       /\ Answer' = [Answer EXCEPT ![c] = Nil]
  BY <1>1, <1>2, <1>3, <1>4, <1>5, <1>8, <1>9, AnswerHere
<1>. QED  BY <1>1, <1>5, <1>6, <1>10 DEF Promised!Tell

LEMMA NextImplements ==
  ASSUME MaxSignals = 0, Impolite = {}
  PROVE  Inv /\ Quiet /\ [Next]_allVars => [Promised!Next]_seen
<1>1. SUFFICES ASSUME Inv, Quiet, [Next]_allVars PROVE Promised!Next \/ UNCHANGED seen
  OBVIOUS
<1>2. CASE UNCHANGED allVars
  <2>1. store' = store /\ asked' = asked /\ told' = told /\ worker' = worker /\ down' = down
    BY <1>2 DEF allVars, vars, driver
  <2>. QED  BY <2>1, AnswerIs DEF seen
<1>3. ASSUME NEW c \in Client, Serve(c) \/ ResetArrives(c), UNCHANGED driver
      PROVE  Promised!Next \/ UNCHANGED seen
  <2>1. ~RecvFails(c) /\ ~SendKills(c) /\ ~WorkCrashes(c) /\ ~ResetArrives(c)
    BY <1>1 DEF Quiet, RecvFails, SendKills, WorkCrashes, ResetArrives
  <2>2. Promised!Do(c) \/ UNCHANGED seen
    BY <1>1, <1>3, <2>1, RecvImplements, WorkImplements, SendImplements, ThreadImplements DEF Serve
  <2>. QED  BY <2>2 DEF Promised!Next
<1>4. ASSUME NEW t \in Thread, Interrupt(t) \/ Stop(t) PROVE FALSE
  BY <1>1, <1>4 DEF Quiet, Interrupt, Stop, ExitEnters, ExitCloses, ExitLeaves, Exit
<1>5. ASSUME NEW c \in Client, \/ Connect(c) \/ (\E r \in Asking : Ask(c, r))
                               \/ Hear(c) \/ HearEnd(c) \/ Vanish(c)
      PROVE  Promised!Next \/ UNCHANGED seen
  <2>1. ~HearEnd(c) /\ ~Vanish(c)
    BY <1>1, EndsWithProcess DEF Quiet, Vanish
  <2>2. CASE Connect(c)
    BY <2>2, ConnectImplements
  <2>3. ASSUME NEW r \in Asking, Ask(c, r) PROVE Promised!Next
    <3>1. Promised!Ask(c, r)
      BY <1>1, <2>3, AskImplements
    <3>. QED  BY <3>1 DEF Promised!Next, Asking
  <2>4. CASE Hear(c)
    BY <1>1, <2>4, HearImplements DEF Promised!Next
  <2>. QED  BY <1>5, <2>1, <2>2, <2>3, <2>4
<1>. QED  BY <1>1, <1>2, <1>3, <1>4, <1>5 DEF Next, ServerStep, ClientStep, Asking

LEMMA InitImplements == ClientsInit => Promised!Init
<1>1. ASSUME ClientsInit PROVE Answer = [c \in Client |-> Nil]
  BY <1>1, AnswerIs DEF ClientsInit, AnswerOf
<1>. QED  BY <1>1 DEF ClientsInit, Init, Promised!Init

\* For any number of polite clients and of requests, as long as ctrl + c is not
\* pressed, the threads of myjqlserver.c, its mutex and the protocol add up to
\* one store: each request takes effect at one moment between its being sent and
\* its reply, and get, set and del tell the client what happened at that moment.
THEOREM Implementation ==
  ASSUME MaxSignals = 0, Impolite = {}
  PROVE  Spec => ImplementsService
<1>1. Inv /\ Quiet /\ [Next]_allVars => [Promised!Next]_<<store, asked, Answer, told>>
  BY NextImplements DEF seen
<1>. QED  BY <1>1, InitImplements, Undisturbed, PTL DEF Spec, ImplementsService, Promised!Spec

-----------------------------------------------------------------------------
(* The mutex: one thread at a time is inside the store, whatever the clients *)
(* do and wherever the signals land.                                        *)

\* What the steps need to know of the shape of the state.
Shape ==
  /\ DOMAIN worker = Client /\ \A c \in Client : "pc" \in DOMAIN worker[c]
  /\ DOMAIN handler = Thread

\* A thread inside a critical section owns the mutex, and a thread in a myjql
\* call has at most a handler on top that waits for it.  The last part is what
\* keeps a handler's unlock from being the unlock of the call below it.
Locked ==
  mode = "up" =>
    /\ \A t \in Thread : handler[t] \in {"close", "unlock"} => owner = t
    /\ \A c \in Client : pc(c) = "work" => owner = c /\ handler[c] \in {"none", "lock"}

IInv == Shape /\ Locked

LEMMA InitLocked == ClientsInit => IInv
  BY DEF ClientsInit, Init, IInv, Shape, Locked, Start, pc

\* A step of the thread that leaves the mutex alone and does not bring it into
\* the store.
LEMMA OutsideStep ==
  ASSUME IInv, NEW c \in Client, NEW w, "pc" \in DOMAIN w,
         w.pc # "work", worker' = [worker EXCEPT ![c] = w],
         UNCHANGED <<owner, mode, handler>>
  PROVE  IInv'
  BY DEF IInv, Shape, Locked, pc

LEMMA NobodyInside ==
  ASSUME IInv, mode = "up", owner = Nil
  PROVE  /\ \A c \in Client : pc(c) # "work"
         /\ \A t \in Thread : handler[t] \notin {"close", "unlock"}
  BY ThreadAssumption DEF IInv, Locked, Thread

LEMMA EnterLocked ==
  ASSUME IInv, NEW c \in Client, Enter(c)
  PROVE  IInv'
<1>1. mode = "up" /\ owner = Nil /\ handler[c] = "none"
  BY DEF Enter, Runs
<1>2. /\ \A d \in Client : pc(d) # "work"
      /\ \A t \in Thread : handler[t] \notin {"close", "unlock"}
  BY <1>1, NobodyInside
<1>3. \A d \in Client \ {c} : pc(d)' # "work"
  BY <1>2 DEF Enter, pc, IInv, Shape
<1> QED
  BY <1>1, <1>2, <1>3 DEF Enter, IInv, Shape, Locked, pc, stopping

LEMMA RecvLocked ==
  ASSUME IInv, NEW c \in Client,
         RecvFails(c) \/ RecvCode(c) \/ RecvKey(c) \/ RecvValue(c)
  PROVE  IInv'
<1>1. "pc" \in DOMAIN worker[c] /\ pc(c) \in {"code", "key", "value"}
  BY DEF IInv, Shape, RecvFails, RecvCode, RecvKey, RecvValue
<1>2. UNCHANGED <<owner, mode, handler>>
  BY DEF RecvFails, RecvCode, RecvKey, RecvValue, stopping
<1>3. SUFFICES \E w : "pc" \in DOMAIN w /\ w.pc # "work" /\ worker' = [worker EXCEPT ![c] = w]
  BY <1>2, OutsideStep
<1>4. CASE RecvFails(c)
  BY <1>1, <1>4 DEF RecvFails
<1>5. ASSUME NEW n, Dispatch(c, n)
      PROVE  \E w : "pc" \in DOMAIN w /\ w.pc # "work" /\ worker' = [worker EXCEPT ![c] = w]
  BY <1>1, <1>5 DEF Dispatch, Replies, pc
<1>6. ASSUME NEW s, NEW n, TakeKey(c, s, n)
      PROVE  \E w : "pc" \in DOMAIN w /\ w.pc # "work" /\ worker' = [worker EXCEPT ![c] = w]
  BY <1>1, <1>6 DEF TakeKey, Replies
<1>7. ASSUME NEW s, NEW n, TakeValue(c, s, n)
      PROVE  \E w : "pc" \in DOMAIN w /\ w.pc # "work" /\ worker' = [worker EXCEPT ![c] = w]
  BY <1>1, <1>7 DEF TakeValue, Replies
<1> QED
  BY <1>4, <1>5, <1>6, <1>7 DEF RecvCode, RecvKey, RecvValue

LEMMA WorkLocked ==
  ASSUME IInv, NEW c \in Client, Work(c)
  PROVE  IInv'
<1>1. /\ mode = "up" /\ handler[c] = "none" /\ pc(c) = "work" /\ owner = c
      /\ "pc" \in DOMAIN worker[c]
  BY DEF Work, Runs, IInv, Locked, Shape
<1>2. /\ \A d \in Client \ {c} : pc(d) # "work"
      /\ \A t \in Thread : handler[t] \notin {"close", "unlock"}
  BY <1>1 DEF IInv, Locked
<1>3. \E w : "pc" \in DOMAIN w /\ w.pc # "work" /\ worker' = [worker EXCEPT ![c] = w]
  BY <1>1 DEF Work, Get, Set, Del, Replies
<1> QED
  BY <1>1, <1>2, <1>3 DEF Work, IInv, Shape, Locked, pc, stopping

LEMMA SendLocked ==
  ASSUME IInv, NEW c \in Client, Send(c) \/ Accept(c)
  PROVE  IInv'
<1>1. "pc" \in DOMAIN worker[c]
  BY DEF IInv, Shape
<1>2. \E w : "pc" \in DOMAIN w /\ w.pc # "work" /\ worker' = [worker EXCEPT ![c] = w]
  <2>1. CASE Accept(c)
    BY <1>1, <2>1 DEF Accept
  <2>2. CASE Send(c)
    <3> DEFINE next == IF Len(worker[c].out) > 1 THEN "send"
                       ELSE IF worker[c].op = 3 THEN "gone" ELSE "code"
               w == [worker[c] EXCEPT !.out = Tail(worker[c].out), !.pc = next]
    <3>1. worker' = [worker EXCEPT ![c] = w]
      BY <2>2 DEF Send, Sent
    <3>2. next # "work"
      OBVIOUS
    <3> HIDE DEF next
    <3>3. "pc" \in DOMAIN w /\ w.pc = next
      BY <1>1
    <3> QED
      BY <3>1, <3>2, <3>3
  <2> QED
    BY <2>1, <2>2
<1> QED
  BY <1>2, OutsideStep DEF Send, Accept, stopping

\* A step that ends the process, or touches no thread.
LEMMA OtherLocked ==
  ASSUME IInv, UNCHANGED <<worker, handler, owner>>,
         mode' = mode \/ mode' # "up"
  PROVE  IInv'
  BY DEF IInv, Shape, Locked, pc

\* The handler on a thread: it takes the mutex only when nobody is inside, and
\* gives back only what it took.
LEMMA StopLocked ==
  ASSUME IInv, NEW t \in Thread, Stop(t)
  PROVE  IInv'
<1> USE DEF IInv, Shape, Locked, pc
<1>1. CASE ExitEnters(t)
  <2>1. /\ \A c \in Client : pc(c) # "work"
        /\ \A u \in Thread : handler[u] \notin {"close", "unlock"}
    BY <1>1, NobodyInside DEF ExitEnters
  <2> QED
    BY <1>1, <2>1 DEF ExitEnters
<1>2. CASE ExitCloses(t)
  BY <1>2 DEF ExitCloses
<1>3. CASE ExitLeaves(t)
  <2>1. owner = t /\ handler[t] = "unlock"
    BY <1>3 DEF ExitLeaves
  <2>2. \A c \in Client : pc(c) # "work"
    BY <1>3, <2>1 DEF ExitLeaves
  <2>3. \A u \in Thread \ {t} : handler[u] \notin {"close", "unlock"}
    BY <1>3, <2>1 DEF ExitLeaves
  <2> QED
    BY <1>3, <2>2, <2>3 DEF ExitLeaves
<1>4. CASE Exit(t)
  BY <1>4, OtherLocked DEF Exit
<1> QED
  BY <1>1, <1>2, <1>3, <1>4 DEF Stop

LEMMA InterruptLocked ==
  ASSUME IInv, NEW t \in Thread, Interrupt(t)
  PROVE  IInv'
  BY DEF Interrupt, Interruptible, IInv, Shape, Locked, pc

LEMMA ClientLocked ==
  ASSUME IInv, ClientStep
  PROVE  IInv'
<1>1. UNCHANGED <<worker, handler, owner, mode>>
  BY DEF ClientStep, Connect, Ask, Hear, HearEnd, Vanish, stopping
<1> QED
  BY <1>1, OtherLocked

LEMMA NextLocked ==
  ASSUME IInv, [Next]_allVars
  PROVE  IInv'
<1>1. ASSUME NEW c \in Client, Serve(c) \/ ResetArrives(c)
      PROVE  IInv'
  <2>1. CASE WorkCrashes(c) \/ SendKills(c) \/ ResetArrives(c)
    BY <2>1, OtherLocked DEF WorkCrashes, SendKills, ResetArrives, stopping
  <2> QED
    BY <1>1, <2>1, RecvLocked, EnterLocked, WorkLocked, SendLocked DEF Serve
<1>2. ASSUME NEW t \in Thread, Interrupt(t) \/ Stop(t)
      PROVE  IInv'
  BY <1>2, InterruptLocked, StopLocked
<1>3. CASE UNCHANGED allVars
  BY <1>3, OtherLocked DEF allVars, vars
<1> QED
  BY <1>1, <1>2, <1>3, ClientLocked DEF Next, ServerStep

\* Two threads inside the store would both own the mutex.
LEMMA LockedExclusive == IInv => StoreExclusive
  BY DEF IInv, Locked, StoreExclusive, Inside, Thread

\* Mutual exclusion of InstanceThread's myjql calls and exit_nicely's
\* myjql_close (myjqlserver.c:170, 297, 355, 410), for every number of clients
\* and of signals: a handler on top of a thread that is inside waits.
THEOREM Exclusion == Spec => []StoreExclusive
<1>1. ClientsInit => IInv
  BY InitLocked
<1>2. IInv /\ [Next]_allVars => IInv'
  BY NextLocked
<1>3. IInv => StoreExclusive
  BY LockedExclusive
<1> QED
  BY <1>1, <1>2, <1>3, PTL DEF Spec

=============================================================================
