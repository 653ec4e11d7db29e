----------------------------- MODULE IoctlProofs -----------------------------
(***************************************************************************)
(* Proofs about Ioctl and Events, for every number of calls, every set of  *)
(* waits, lengths and lists, every depth of the chip's queue and whatever  *)
(* the tails of frames read as.                                            *)
(***************************************************************************)
EXTENDS Events, TLAPS

USE DEF NoId, Nobody

-----------------------------------------------------------------------------
(* Sequences.                                                              *)

\* What Append adds at the back of a sequence.
LEMMA AppendFacts ==
  ASSUME NEW S, NEW s \in Seq(S), NEW e \in S
  PROVE  /\ Append(s, e) \in Seq(S)
         /\ Len(Append(s, e)) = Len(s) + 1
         /\ \A i \in 1..Len(s) : Append(s, e)[i] = s[i]
         /\ Append(s, e)[Len(s) + 1] = e
  OBVIOUS

\* What Tail leaves of a sequence, and Head takes.
LEMMA TailFacts ==
  ASSUME NEW S, NEW s \in Seq(S), s # <<>>
  PROVE  /\ Tail(s) \in Seq(S)
         /\ Len(s) \in Nat \ {0}
         /\ Len(Tail(s)) = Len(s) - 1
         /\ \A i \in 1..Len(Tail(s)) : Tail(s)[i] = s[i + 1]
         /\ Head(s) = s[1] /\ Head(s) \in S
  OBVIOUS

\* A read of the radio function leaves the frame queue alone or takes its first frame.
LEMMA ReadFifoFacts ==
  ASSUME fifo \in Seq(Frame), pos \in Nat, NEW n \in Nat, ReadFifo(n)
  PROVE  /\ pos' \in Nat
         /\ fifo' = fifo \/ (fifo # <<>> /\ fifo' = Tail(fifo))
         /\ fifo' \in Seq(Frame)
<1>1. CASE fifo # <<>> /\ pos + n < Head(fifo).len
  BY <1>1 DEF ReadFifo
<1>2. CASE fifo = <<>>
  BY <1>2 DEF ReadFifo
<1>3. CASE fifo # <<>> /\ ~(pos + n < Head(fifo).len)
  <2>1. pos' = 0 /\ fifo' = Tail(fifo)
    BY <1>3 DEF ReadFifo
  <2> QED BY <2>1, <1>3, TailFacts
<1> QED BY <1>1, <1>2, <1>3

\* What a fetch finds is the first frame, from its start, or nobody's.
LEMMA ReadingFacts ==
  ASSUME fifo \in Seq(Frame), pos \in Nat, NEW r \in Readings
  PROVE  /\ r.call \in Nobody..Calls
         /\ r.call = Nobody => r.id \in Lookalikes \union {NoId}
         /\ r.call # Nobody => /\ fifo # <<>> /\ pos = 0
                               /\ r.call = Head(fifo).call
                               /\ r.id = Head(fifo).id
                               /\ r.err = Head(fifo).err
<1> USE IoctlAssumption
<1>1. CASE fifo = <<>>
  <2>1. r = Found(Nobody, NoId, FALSE)
    BY <1>1 DEF Readings
  <2> QED BY <2>1 DEF Found
<1>2. CASE fifo # <<>> /\ pos = 0
  <2>1. r = Found(Head(fifo).call, Head(fifo).id, Head(fifo).err)
    BY <1>2 DEF Readings
  <2>2. Head(fifo) \in Frame
    BY <1>2, TailFacts
  <2>3. Head(fifo).call \in 0..Calls
    BY <2>2 DEF Frame
  <2> QED BY <1>2, <2>1, <2>3 DEF Found
<1>3. CASE fifo # <<>> /\ pos > 0
  <2>1. PICK i \in Lookalikes \union {NoId}, e \in BOOLEAN : r = Found(Nobody, i, e)
    BY <1>3 DEF Readings
  <2> QED BY <2>1 DEF Found
<1> QED BY <1>1, <1>2, <1>3

-----------------------------------------------------------------------------
(* Type correctness.                                                       *)

LEMMA TypeInit == Init => TypeOK
<1> SUFFICES ASSUME Init PROVE TypeOK
  OBVIOUS
<1>1. fifo \in Seq(Frame) /\ pos \in Nat
  <2>1. CASE fifo = <<>> /\ pos = 0
    BY <2>1
  <2>2. CASE \E l \in Lens : fifo = <<Event(l)>> /\ pos \in 0..l-1
    <3>1. PICK l \in Lens : fifo = <<Event(l)>> /\ pos \in 0..l-1
      BY <2>2
    <3>2. Event(l) \in Frame
      BY <3>1, IoctlAssumption DEF Event, Frame
    <3> QED BY <3>1, <3>2, IoctlAssumption
  <2> QED BY <2>1, <2>2 DEF Init
<1>2. wait_msec \in Int /\ wait_msec >= -PollMsec
  BY IoctlAssumption DEF Init
<1>3. call \in 0..Calls /\ ioctl_reqid \in 0..IdMod-1
  BY IoctlAssumption DEF Init
<1>4. /\ outcome \in [1..Calls -> {"none", "ok", "failed"}]
      /\ filled \in [1..Calls -> Nobody..Calls]
      /\ misled \in SUBSET (0..Calls)
  BY IoctlAssumption DEF Init
<1>5. inbox \in Seq(Request)
  BY DEF Init
<1> QED BY <1>1, <1>2, <1>3, <1>4, <1>5 DEF Init, TypeOK, Bits

LEMMA TypeStep == TypeOK /\ [Next]_vars => TypeOK'
<1> SUFFICES ASSUME TypeOK, [Next]_vars PROVE TypeOK'
  OBVIOUS
<1> USE IoctlAssumption
<1>1. ASSUME NEW w \in BOOLEAN, NEW l \in Lens, NEW t \in Waits, Send(w, l, t)
      PROVE  TypeOK'
  <2>1. /\ call' = call + 1 /\ call' \in 1..Calls
        /\ ioctl_reqid' \in 0..IdMod-1
    BY <1>1 DEF Send, NextId, TypeOK
  <2>2. inbox' \in Seq(Request)
    <3> DEFINE q == [call |-> call', id |-> ioctl_reqid', len |-> l]
    <3>1. q \in Request
      BY <2>1 DEF Request
    <3> HIDE DEF q
    <3>2. inbox' = Append(inbox, q) \/ inbox' = inbox
      BY <1>1 DEF Send, q
    <3>3. inbox \in Seq(Request)
      BY DEF TypeOK
    <3>4. Append(inbox, q) \in Seq(Request)
      BY <3>1, <3>3, AppendFacts
    <3> QED BY <3>2, <3>3, <3>4
  <2>3. wait_msec' \in Int /\ wait_msec' >= -PollMsec /\ txlen' \in Nat
    BY <1>1 DEF Send
  <2> QED BY <1>1, <2>1, <2>2, <2>3 DEF Send, TypeOK
<1>2. CASE IoctlWait
  BY <1>2 DEF IoctlWait, TypeOK, chipVars, history
<1>3. CASE Poll
  BY <1>3 DEF Poll, TypeOK, chipVars, history
<1>4. CASE Ack
  BY <1>4 DEF Ack, TypeOK, history
<1>5. CASE Discard
  <2>1. fifo' \in Seq(Frame) /\ pos' \in Nat
    BY <1>5, ReadFifoFacts DEF Discard, TypeOK
  <2> QED BY <1>5, <2>1 DEF Discard, TypeOK, history
<1>6. CASE Accept
  <2>1. fifo' \in Seq(Frame) /\ pos' \in Nat
    BY <1>6, ReadFifoFacts DEF Accept, TypeOK
  <2>2. PICK r \in Readings :
          /\ Taken(r)
          /\ misled' = IF r.call = Nobody /\ ~r.err THEN misled \union {call} ELSE misled
    BY <1>6 DEF Accept
  <2>3. r.call \in Nobody..Calls
    BY ReadingFacts DEF TypeOK
  <2>4. filled' \in [1..Calls -> Nobody..Calls]
    BY <2>2, <2>3 DEF Taken, TypeOK
  <2>5. outcome' \in [1..Calls -> {"none", "ok", "failed"}]
    BY <2>2 DEF Taken, TypeOK
  <2>6. misled' \in SUBSET (0..Calls)
    BY <2>2 DEF TypeOK
  <2> QED BY <1>6, <2>1, <2>4, <2>5, <2>6 DEF Accept, TypeOK
<1>7. CASE TimeOut
  <2>1. outcome' \in [1..Calls -> {"none", "ok", "failed"}]
    BY <1>7 DEF TimeOut, TypeOK
  <2> QED BY <1>7, <2>1 DEF TimeOut, TypeOK, chipVars
<1>8. CASE Execute
  <2>1. PICK e \in BOOLEAN :
          /\ Enqueue(Reply(Head(inbox), e))
          /\ applied' = IF e THEN applied ELSE applied \union {Head(inbox).call}
    BY <1>8 DEF Execute
  <2>2. Head(inbox) \in Request /\ inbox' \in Seq(Request)
    BY <1>8, TailFacts DEF Execute, TypeOK
  <2>3. Reply(Head(inbox), e) \in Frame
    BY <2>2 DEF Reply, Request, Frame
  <2>4. fifo' \in Seq(Frame)
    BY <2>1, <2>3, AppendFacts DEF Enqueue, TypeOK
  <2>5. applied' \in SUBSET (1..Calls)
    BY <2>1, <2>2 DEF TypeOK, Request
  <2> QED BY <1>8, <2>1, <2>2, <2>4, <2>5
          DEF Execute, Enqueue, TypeOK, hostVars, Bits
<1>9. CASE EmitEvent
  <2>1. PICK l \in Lens : Enqueue(Event(l))
    BY <1>9 DEF EmitEvent
  <2>2. Event(l) \in Frame
    BY DEF Event, Frame
  <2>3. fifo' \in Seq(Frame)
    BY <2>1, <2>2, AppendFacts DEF Enqueue, TypeOK
  <2> QED BY <1>9, <2>1, <2>3 DEF EmitEvent, Enqueue, TypeOK, hostVars, history, Bits
<1>10. CASE Interrupt
  BY <1>10 DEF Interrupt, TypeOK, hostVars, history, Bits
<1>11. CASE RadioRead
  <2>1. fifo' \in Seq(Frame) /\ pos' \in Nat
    BY <1>11, ReadFifoFacts DEF RadioRead, TypeOK
  <2> QED BY <1>11, <2>1 DEF RadioRead, TypeOK, hostVars, history
<1>12. CASE UNCHANGED vars
  BY <1>12 DEF vars, hostVars, chipVars, history, TypeOK
<1> QED
  BY <1>1, <1>2, <1>3, <1>4, <1>5, <1>6, <1>7, <1>8, <1>9, <1>10, <1>11, <1>12
  DEF Next, Host, AnyCall, Chip

\* Every variable keeps its type; in particular the remaining time of a call
\* never falls by more than one turn below zero.
THEOREM TypeCorrect == Spec => []TypeOK
  BY TypeInit, TypeStep, PTL DEF Spec

-----------------------------------------------------------------------------
(* The inductive invariant.                                                *)

\* What the invariant says of the link, without what it says of the calls.
LinkInv == IdsAreCalls /\ CallOrder /\ AppliedOrder

\* Sequence t is s, or s without its first element: t is s shifted by 0 or 1.
Shrinks(s, t) == t = s \/ (s # <<>> /\ t = Tail(s))

Shift(s, t, d) == /\ Len(s) \in Nat /\ Len(t) \in Nat
                  /\ Len(t) = Len(s) - d
                  /\ \A i \in 1..Len(t) : i + d \in 1..Len(s) /\ t[i] = s[i + d]

LEMMA ShrinksShift ==
  ASSUME NEW S, NEW s \in Seq(S), NEW t, Shrinks(s, t)
  PROVE  \E d \in 0..1 : Shift(s, t, d)
<1>1. CASE t = s
  <2>1. Shift(s, t, 0)
    BY <1>1 DEF Shift
  <2> QED BY <2>1
<1>2. CASE s # <<>> /\ t = Tail(s)
  <2>1. /\ Len(s) \in Nat \ {0} /\ Len(t) = Len(s) - 1
        /\ \A i \in 1..Len(t) : t[i] = s[i + 1]
    BY <1>2, TailFacts
  <2>2. Shift(s, t, 1)
    BY <2>1 DEF Shift
  <2> QED BY <2>2
<1> QED BY <1>1, <1>2 DEF Shrinks

\* A step that leaves the frames, the requests and the calls alone, or only
\* takes the first frame, keeps the link's order.
LEMMA LinkShrinks ==
  ASSUME TypeOK, LinkInv, Shrinks(fifo, fifo'),
         UNCHANGED <<inbox, applied, call, ioctl_reqid>>
  PROVE  LinkInv'
<1>1. PICK d \in 0..1 : Shift(fifo, fifo', d)
  BY ShrinksShift DEF TypeOK
<1>2. Len(fifo) \in Nat /\ Len(fifo') \in Nat
  BY <1>1 DEF Shift
<1>3. \A i \in 1..Len(fifo') : i + d \in 1..Len(fifo) /\ fifo'[i] = fifo[i + d]
  BY <1>1 DEF Shift
<1>4. IdsAreCalls'
  BY <1>3 DEF LinkInv, IdsAreCalls
<1>5. CallOrder'
  <2>1. ASSUME NEW i \in 1..Len(fifo'), NEW j \in 1..Len(fifo'),
               i < j, fifo'[j].call # 0
        PROVE  fifo'[i].call < fifo'[j].call
    <3>1. i + d < j + d
      BY <2>1, <1>1, <1>2
    <3> QED BY <2>1, <3>1, <1>3 DEF LinkInv, CallOrder
  <2> QED BY <2>1, <1>3 DEF LinkInv, CallOrder
<1>6. AppliedOrder'
  BY <1>3 DEF LinkInv, AppliedOrder
<1> QED BY <1>4, <1>5, <1>6 DEF LinkInv

LEMMA LinkSame ==
  ASSUME TypeOK, LinkInv, UNCHANGED <<inbox, fifo, applied, call, ioctl_reqid>>
  PROVE  LinkInv'
  BY DEF LinkInv, IdsAreCalls, CallOrder, AppliedOrder

\* The numbers in requests and frames are integers.
LEMMA LinkTypes ==
  ASSUME TypeOK
  PROVE  /\ Len(inbox) \in Nat /\ Len(fifo) \in Nat /\ call \in Nat
         /\ \A i \in 1..Len(inbox) : inbox[i] \in Request /\ inbox[i].call \in 1..Calls
         /\ \A i \in 1..Len(fifo) : fifo[i] \in Frame /\ fifo[i].call \in 0..Calls
<1>1. inbox \in Seq(Request) /\ fifo \in Seq(Frame) /\ call \in 0..Calls /\ Calls \in Nat
  BY IoctlAssumption DEF TypeOK
<1>2. \A i \in 1..Len(inbox) : inbox[i] \in Request
  BY <1>1
<1>3. \A i \in 1..Len(fifo) : fifo[i] \in Frame
  BY <1>1
<1>4. \A r \in Request : r.call \in 1..Calls
  BY DEF Request
<1>5. \A f \in Frame : f.call \in 0..Calls
  BY DEF Frame
<1> QED BY <1>1, <1>2, <1>3, <1>4, <1>5

LEMMA LinkSend ==
  ASSUME TypeOK, LinkInv, NEW w \in BOOLEAN, NEW l \in Lens, NEW t \in Waits,
         Send(w, l, t)
  PROVE  LinkInv'
<1> DEFINE q == [call |-> call + 1, id |-> ioctl_reqid', len |-> l]
<1>1. call' = call + 1 /\ ioctl_reqid' = call + 1 /\ call \in Nat
  <2>1. call \in Nat /\ call + 1 < IdMod /\ ioctl_reqid = call /\ IdMod \in Nat
    BY IoctlAssumption DEF Send, TypeOK, LinkInv, IdsAreCalls
  <2>2. (call + 1) % IdMod = call + 1
    BY <2>1
  <2> QED BY <2>1, <2>2 DEF Send, NextId
<1>2. q \in Request /\ q.call = call + 1 /\ q.id = call + 1
  BY <1>1, IoctlAssumption DEF Send, TypeOK, Request
<1>3. inbox' = Append(inbox, q) \/ inbox' = inbox
  BY <1>1 DEF Send
<1>4. UNCHANGED <<fifo, applied>>
  BY DEF Send
<1> HIDE DEF q
<1>5. CASE inbox' = inbox
  <2>1. IdsAreCalls'
    <3>1. \A i \in 1..Len(inbox) : inbox[i].id = inbox[i].call /\ inbox[i].call <= call + 1
      <4>1. \A i \in 1..Len(inbox) : inbox[i].call \in Nat /\ inbox[i].call <= call
        BY LinkTypes DEF LinkInv, IdsAreCalls
      <4> QED BY <1>1, <4>1 DEF LinkInv, IdsAreCalls
    <3>2. \A i \in 1..Len(fifo) : fifo[i].id = fifo[i].call /\ fifo[i].call <= call + 1
      <4>1. \A i \in 1..Len(fifo) : fifo[i].call \in Nat /\ fifo[i].call <= call
        BY LinkTypes DEF LinkInv, IdsAreCalls
      <4> QED BY <1>1, <4>1 DEF LinkInv, IdsAreCalls
    <3> QED BY <1>1, <1>4, <1>5, <3>1, <3>2 DEF IdsAreCalls
  <2>2. CallOrder'
    BY <1>4, <1>5 DEF LinkInv, CallOrder
  <2>3. AppliedOrder'
    <3>1. \A c \in applied : c \in Nat /\ c <= call
      BY DEF LinkInv, AppliedOrder, TypeOK
    <3>2. \A c \in applied : c <= call + 1
      BY <3>1, <1>1
    <3> QED BY <1>1, <1>4, <1>5, <3>2 DEF LinkInv, AppliedOrder
  <2> QED BY <2>1, <2>2, <2>3 DEF LinkInv
<1>6. CASE inbox' = Append(inbox, q)
  <2>1. inbox \in Seq(Request)
    BY DEF TypeOK
  <2>2. /\ Len(inbox') = Len(inbox) + 1
        /\ \A i \in 1..Len(inbox) : inbox'[i] = inbox[i]
        /\ inbox'[Len(inbox) + 1] = q
    BY <1>2, <1>6, <2>1, AppendFacts
  <2>3. \A i \in 1..Len(inbox') :
          \/ i \in 1..Len(inbox) /\ inbox'[i] = inbox[i]
          \/ inbox'[i] = q
    <3>1. Len(inbox) \in Nat
      BY LinkTypes
    <3>2. \A i \in 1..Len(inbox) + 1 : i \in 1..Len(inbox) \/ i = Len(inbox) + 1
      BY <3>1
    <3> QED BY <2>2, <3>2
  <2>4. \A i \in 1..Len(inbox) : inbox[i].call \in Nat /\ inbox[i].call < q.call
    BY <1>1, <1>2, LinkTypes DEF LinkInv, IdsAreCalls
  <2>5. \A i \in 1..Len(fifo) : fifo[i].call \in Nat /\ fifo[i].call < q.call
    BY <1>1, <1>2, LinkTypes DEF LinkInv, IdsAreCalls
  <2>6. \A c \in applied : c \in Nat /\ c < q.call /\ c <= call'
    BY <1>1, <1>2 DEF LinkInv, AppliedOrder, TypeOK
  <2>7. IdsAreCalls'
    <3>1. \A i \in 1..Len(inbox') :
            inbox'[i].id = inbox'[i].call /\ inbox'[i].call <= call'
      <4>1. call' \in Nat /\ q.id = q.call /\ q.call = call'
        BY <1>1, <1>2
      <4> QED BY <2>3, <2>4, <4>1 DEF LinkInv, IdsAreCalls
    <3>2. \A i \in 1..Len(fifo') : fifo'[i].id = fifo'[i].call /\ fifo'[i].call <= call'
      <4>1. call' \in Nat /\ q.call = call' /\ fifo' = fifo
        BY <1>1, <1>2, <1>4
      <4> QED BY <2>5, <4>1 DEF LinkInv, IdsAreCalls
    <3>3. ioctl_reqid' = call'
      BY <1>1
    <3> QED BY <3>1, <3>2, <3>3 DEF IdsAreCalls
  <2>8. CallOrder'
    <3>1. ASSUME NEW i \in 1..Len(inbox'), NEW j \in 1..Len(inbox'), i < j
          PROVE  inbox'[i].call < inbox'[j].call
      <4>1. i \in 1..Len(inbox) /\ inbox'[i] = inbox[i]
        BY <3>1, <2>2, LinkTypes
      <4> QED BY <4>1, <3>1, <2>3, <2>4 DEF LinkInv, CallOrder
    <3>2. \A i \in 1..Len(fifo), j \in 1..Len(inbox') : fifo[i].call < inbox'[j].call
      BY <2>3, <2>5 DEF LinkInv, CallOrder
    <3> QED BY <3>1, <3>2, <1>4 DEF LinkInv, CallOrder
  <2>9. AppliedOrder'
    BY <1>4, <2>3, <2>6 DEF LinkInv, AppliedOrder
  <2> QED BY <2>7, <2>8, <2>9 DEF LinkInv
<1> QED BY <1>3, <1>5, <1>6

\* A frame queued behind the others, for a call later than theirs and not
\* later than any request, or for no call, keeps the link's order.
LEMMA LinkEnqueue ==
  ASSUME TypeOK, LinkInv, NEW f \in Frame, Enqueue(f),
         UNCHANGED <<call, ioctl_reqid>>, inbox' \in Seq(Request),
         f.id = f.call, f.call <= call,
         f.call # 0 => \A i \in 1..Len(fifo) : fifo[i].call < f.call,
         \A j \in 1..Len(inbox') : f.call < inbox'[j].call,
         Shrinks(inbox, inbox'),
         applied' = applied \/ applied' = applied \union {f.call},
         f.call = 0 => applied' = applied,
         f.call # 0 /\ ~f.err => f.call \in applied'
  PROVE  LinkInv'
<1>1. PICK d \in 0..1 : Shift(inbox, inbox', d)
  BY ShrinksShift DEF TypeOK
<1>2. \A i \in 1..Len(inbox') : i + d \in 1..Len(inbox) /\ inbox'[i] = inbox[i + d]
  BY <1>1 DEF Shift
<1>3. /\ Len(fifo') = Len(fifo) + 1
      /\ \A i \in 1..Len(fifo) : fifo'[i] = fifo[i]
      /\ fifo'[Len(fifo) + 1] = f
  <2>1. fifo \in Seq(Frame) /\ fifo' = Append(fifo, f)
    BY DEF TypeOK, Enqueue
  <2> QED BY <2>1, AppendFacts
<1>4. \A i \in 1..Len(fifo') :
        \/ i \in 1..Len(fifo) /\ fifo'[i] = fifo[i]
        \/ fifo'[i] = f
  <2>1. Len(fifo) \in Nat
    BY LinkTypes
  <2>2. \A i \in 1..Len(fifo) + 1 : i \in 1..Len(fifo) \/ i = Len(fifo) + 1
    BY <2>1
  <2> QED BY <1>3, <2>2
<1>5. IdsAreCalls'
  BY <1>2, <1>4 DEF LinkInv, IdsAreCalls
<1>6. CallOrder'
  <2>1. ASSUME NEW i \in 1..Len(inbox'), NEW j \in 1..Len(inbox'), i < j
        PROVE  inbox'[i].call < inbox'[j].call
    <3>1. i + d < j + d
      BY <2>1, <1>1, LinkTypes
    <3> QED BY <3>1, <1>2 DEF LinkInv, CallOrder
  <2>2. ASSUME NEW i \in 1..Len(fifo'), NEW j \in 1..Len(fifo'), i < j, fifo'[j].call # 0
        PROVE  fifo'[i].call < fifo'[j].call
    <3>1. i \in 1..Len(fifo) /\ fifo'[i] = fifo[i]
      BY <2>2, <1>3, LinkTypes
    <3> QED BY <3>1, <2>2, <1>4 DEF LinkInv, CallOrder
  <2>3. \A i \in 1..Len(fifo'), j \in 1..Len(inbox') : fifo'[i].call < inbox'[j].call
    BY <1>2, <1>4 DEF LinkInv, CallOrder
  <2> QED BY <2>1, <2>2, <2>3 DEF CallOrder
<1>7. AppliedOrder'
  BY <1>2, <1>4 DEF LinkInv, AppliedOrder
<1> QED BY <1>5, <1>6, <1>7 DEF LinkInv
\* Taking frames and requests away leaves nothing new behind a success.
LEMMA BehindShrinks ==
  ASSUME TypeOK, NoReplyBehindSuccess,
         \A c \in 1..Calls : outcome'[c] = "ok" /\ c \notin misled'
                              => outcome[c] = "ok" /\ c \notin misled,
         Shrinks(fifo, fifo'), Shrinks(inbox, inbox')
  PROVE  NoReplyBehindSuccess'
<1>1. PICK d \in 0..1 : Shift(fifo, fifo', d)
  BY ShrinksShift DEF TypeOK
<1>2. PICK e \in 0..1 : Shift(inbox, inbox', e)
  BY ShrinksShift DEF TypeOK
<1>3. \A i \in 1..Len(fifo') : i + d \in 1..Len(fifo) /\ fifo'[i] = fifo[i + d]
  BY <1>1 DEF Shift
<1>4. \A i \in 1..Len(inbox') : i + e \in 1..Len(inbox) /\ inbox'[i] = inbox[i + e]
  BY <1>2 DEF Shift
<1> QED BY <1>3, <1>4 DEF NoReplyBehindSuccess

LEMMA FitsShrinks ==
  ASSUME TypeOK, ReplyFits, UNCHANGED <<call, txlen>>,
         Shrinks(fifo, fifo'), Shrinks(inbox, inbox')
  PROVE  ReplyFits'
<1>1. PICK d \in 0..1 : Shift(fifo, fifo', d)
  BY ShrinksShift DEF TypeOK
<1>2. PICK e \in 0..1 : Shift(inbox, inbox', e)
  BY ShrinksShift DEF TypeOK
<1>3. \A i \in 1..Len(fifo') : i + d \in 1..Len(fifo) /\ fifo'[i] = fifo[i + d]
  BY <1>1 DEF Shift
<1>4. \A i \in 1..Len(inbox') : i + e \in 1..Len(inbox) /\ inbox'[i] = inbox[i + e]
  BY <1>2 DEF Shift
<1> QED BY <1>3, <1>4 DEF ReplyFits

LEMMA InvInit == Init => IInv
<1> SUFFICES ASSUME Init PROVE IInv
  OBVIOUS
<1>1. TypeOK
  BY TypeInit
<1>2. Len(inbox) = 0 /\ \A i \in 1..Len(inbox) : FALSE
  BY DEF Init
<1>3. Len(fifo) \in 0..1 /\ \A i \in 1..Len(fifo) : fifo[i].call = 0 /\ fifo[i].id = 0
  <2>1. CASE fifo = <<>>
    BY <2>1
  <2>2. CASE \E l \in Lens : fifo = <<Event(l)>>
    BY <2>2 DEF Event
  <2> QED BY <2>1, <2>2 DEF Init
<1>4. IdsAreCalls
  BY <1>2, <1>3 DEF Init, IdsAreCalls
<1>5. CallOrder
  BY <1>2, <1>3 DEF CallOrder
<1>6. AppliedOrder
  BY <1>2, <1>3 DEF Init, AppliedOrder
<1>7. Outcomes
  BY IoctlAssumption DEF Init, Outcomes
<1>8. OwnReplyOnly /\ NoReplyBehindSuccess
  BY DEF Init, OwnReplyOnly, NoReplyBehindSuccess
<1>9. ReplyFits
  BY <1>2, <1>3 DEF ReplyFits
<1> QED BY <1>1, <1>4, <1>5, <1>6, <1>7, <1>8, <1>9 DEF IInv

\* What ioctl_cmd accepts is the reply to the current call, or a lookalike.
LEMMA MatchIsOwn ==
  ASSUME IInv, pc = "fetch", NEW r \in Readings, Matching(r)
  PROVE  /\ call \in 1..Calls /\ outcome[call] = "none"
         /\ r.call = Nobody => call \in Lookalikes
         /\ r.call # Nobody => /\ fifo # <<>> /\ pos = 0
                               /\ Head(fifo).call = call /\ r.call = call
                               /\ ~r.err => call \in applied
<1>1. fifo \in Seq(Frame) /\ pos \in Nat
  BY DEF IInv, TypeOK
<1>2. call \in 1..Calls /\ outcome[call] = "none"
  BY IoctlAssumption DEF IInv, TypeOK, Outcomes
<1>3. r.id = call
  BY DEF Matching, IInv, IdsAreCalls
<1>4. CASE r.call = Nobody
  <2>1. r.id \in Lookalikes \union {NoId}
    BY <1>1, <1>4, ReadingFacts
  <2> QED BY <1>2, <1>3, <1>4, <2>1
<1>5. CASE r.call # Nobody
  <2>1. /\ fifo # <<>> /\ pos = 0 /\ r.call = Head(fifo).call
        /\ r.id = Head(fifo).id /\ r.err = Head(fifo).err
    BY <1>1, <1>5, ReadingFacts
  <2>2. 1 \in 1..Len(fifo) /\ Head(fifo) = fifo[1]
    BY <1>1, <2>1, TailFacts
  <2>3. Head(fifo).call = call
    BY <1>3, <2>1, <2>2 DEF IInv, IdsAreCalls
  <2>4. ~Head(fifo).err => call \in applied
    BY <1>2, <2>2, <2>3 DEF IInv, AppliedOrder
  <2> QED BY <1>2, <1>5, <2>1, <2>3, <2>4
<1> QED BY <1>4, <1>5

LEMMA InvStep == IInv /\ [Next]_vars => IInv'
<1> SUFFICES ASSUME IInv, [Next]_vars PROVE IInv'
  OBVIOUS
<1>0. TypeOK /\ TypeOK' /\ LinkInv
  BY TypeStep DEF IInv, LinkInv
<1> USE IoctlAssumption
<1>1. ASSUME NEW w \in BOOLEAN, NEW l \in Lens, NEW t \in Waits, Send(w, l, t)
      PROVE  IInv'
  <2>1. LinkInv'
    BY <1>0, <1>1, LinkSend
  <2>2. call' = call + 1 /\ call \in Nat /\ outcome[call'] = "none"
    BY <1>1, <1>0 DEF Send, TypeOK, IInv, Outcomes
  <2>3. Outcomes'
    BY <1>1, <1>0, <2>2 DEF Send, IInv, Outcomes
  <2>4. OwnReplyOnly'
    BY <1>1 DEF Send, IInv, OwnReplyOnly
  <2> DEFINE q == [call |-> call', id |-> ioctl_reqid', len |-> l]
  <2>5. q.call = call + 1 /\ q.len = l
    BY <2>2
  <2>6. \A i \in 1..Len(inbox') :
          \/ i \in 1..Len(inbox) /\ inbox'[i] = inbox[i]
          \/ inbox'[i] = q
    <3>1. inbox \in Seq(Request) /\ Len(inbox) \in Nat
      BY <1>0 DEF TypeOK
    <3>2. q \in Request
      BY <1>0, <1>1, <2>2 DEF TypeOK, Request
    <3>3. inbox' = Append(inbox, q) \/ inbox' = inbox
      BY <1>1 DEF Send
    <3> HIDE DEF q
    <3>4. CASE inbox' = inbox
      BY <3>4
    <3>5. CASE inbox' = Append(inbox, q)
      <4>1. /\ Len(inbox') = Len(inbox) + 1
            /\ \A i \in 1..Len(inbox) : inbox'[i] = inbox[i]
            /\ inbox'[Len(inbox) + 1] = q
        BY <3>1, <3>2, <3>5, AppendFacts
      <4>2. \A i \in 1..Len(inbox) + 1 : i \in 1..Len(inbox) \/ i = Len(inbox) + 1
        BY <3>1
      <4> QED BY <4>1, <4>2
    <3> QED BY <3>3, <3>4, <3>5
  <2> HIDE DEF q
  <2>7. UNCHANGED <<fifo, outcome, misled>> /\ txlen' = l
    BY <1>1 DEF Send
  <2>8. NoReplyBehindSuccess'
    <3>1. \A c \in 1..Calls : outcome[c] = "ok" => c < q.call
      BY <2>2, <2>5, <1>0 DEF IInv, Outcomes, TypeOK
    <3> QED BY <2>6, <2>7, <3>1 DEF IInv, NoReplyBehindSuccess
  <2>9. ReplyFits'
    <3>1. \A i \in 1..Len(inbox) : inbox[i].call # call'
      BY <1>0, <2>2, LinkTypes DEF LinkInv, IdsAreCalls
    <3>2. \A i \in 1..Len(fifo) : fifo[i].call # call'
      BY <1>0, <2>2, LinkTypes DEF LinkInv, IdsAreCalls
    <3> QED BY <2>5, <2>6, <2>7, <3>1, <3>2 DEF ReplyFits
  <2> QED BY <1>0, <2>1, <2>3, <2>4, <2>8, <2>9 DEF IInv, LinkInv
<1>2. ASSUME UNCHANGED <<inbox, applied, call, outcome, filled, misled, ioctl_reqid, txlen>>,
             Shrinks(fifo, fifo'), pc # "idle" <=> pc' # "idle"
      PROVE  IInv'
  <2>1. LinkInv'
    BY <1>0, <1>2, LinkShrinks
  <2>2. NoReplyBehindSuccess'
    BY <1>0, <1>2, BehindShrinks DEF IInv, Shrinks
  <2>3. Outcomes' /\ OwnReplyOnly'
    BY <1>2 DEF IInv, Outcomes, OwnReplyOnly
  <2>4. ReplyFits'
    BY <1>0, <1>2, FitsShrinks DEF IInv, Shrinks
  <2> QED BY <1>0, <2>1, <2>2, <2>3, <2>4 DEF IInv, LinkInv
<1>3. CASE IoctlWait
  BY <1>2, <1>3 DEF IoctlWait, chipVars, history, Shrinks
<1>4. CASE Poll
  BY <1>2, <1>4 DEF Poll, chipVars, history, Shrinks
<1>5. CASE Ack
  BY <1>2, <1>5 DEF Ack, history, Shrinks
<1>6. CASE Discard
  <2>1. Shrinks(fifo, fifo')
    BY <1>0, <1>6, ReadFifoFacts DEF Discard, TypeOK, Shrinks
  <2> QED BY <1>2, <1>6, <2>1 DEF Discard, history
<1>7. CASE Accept
  <2>1. PICK r \in Readings :
          /\ Matching(r)
          /\ Taken(r)
          /\ misled' = IF r.call = Nobody /\ ~r.err THEN misled \union {call} ELSE misled
    BY <1>7 DEF Accept
  <2>2. /\ call \in 1..Calls /\ outcome[call] = "none"
        /\ r.call = Nobody => call \in Lookalikes
        /\ r.call # Nobody => /\ fifo # <<>> /\ pos = 0
                              /\ Head(fifo).call = call /\ r.call = call
                              /\ ~r.err => call \in applied
    BY <1>7, <2>1, MatchIsOwn DEF Accept
  <2>3. Shrinks(fifo, fifo')
    BY <1>0, <1>7, ReadFifoFacts DEF Accept, TypeOK, Shrinks
  <2>4. LinkInv'
    BY <1>0, <1>7, <2>3, LinkShrinks DEF Accept
  <2>5. \A c \in 1..Calls : outcome'[c] = IF c = call
                              THEN IF r.err THEN "failed" ELSE "ok"
                              ELSE outcome[c]
    BY <1>0, <2>1 DEF Taken, TypeOK
  <2>6. \A c \in 1..Calls :
          filled'[c] = filled[c] \/ (c = call /\ ~r.err /\ filled'[c] = r.call)
    BY <1>0, <2>1 DEF Taken, TypeOK
  <2>7. Outcomes'
    <3>1. call' = call /\ pc' = "idle"
      BY <1>7 DEF Accept
    <3>2. \A c \in misled' : c \in 1..Calls /\ outcome'[c] = "ok"
      <4>1. \A c \in misled : c \in 1..Calls /\ outcome[c] = "ok"
        BY DEF IInv, Outcomes
      <4> QED BY <2>1, <2>2, <2>5, <4>1
    <3>3. \A c \in 1..Calls : c > call' => outcome'[c] = "none"
      BY <1>0, <2>2, <2>5, <3>1 DEF IInv, Outcomes, TypeOK
    <3> QED BY <2>2, <2>5, <3>1, <3>2, <3>3 DEF Outcomes
  <2>8. OwnReplyOnly'
    <3>1. ASSUME NEW c \in 1..Calls, c # call
          PROVE  \/ c \in misled' \intersect Lookalikes
                 \/ /\ outcome'[c] = "ok" => c \in applied'
                    /\ filled'[c] # 0 => filled'[c] = c /\ outcome'[c] = "ok"
      <4>1. outcome'[c] = outcome[c] /\ filled'[c] = filled[c] /\ applied' = applied
        BY <1>7, <2>5, <2>6, <3>1 DEF Accept
      <4>2. misled \subseteq misled'
        BY <2>1
      <4> QED BY <4>1, <4>2 DEF IInv, OwnReplyOnly
    <3>2. filled[call] = 0 \/ call \in misled \intersect Lookalikes
      BY <2>2 DEF IInv, OwnReplyOnly
    <3>3. \/ call \in misled' \intersect Lookalikes
          \/ /\ outcome'[call] = "ok" => call \in applied'
             /\ filled'[call] # 0 => filled'[call] = call /\ outcome'[call] = "ok"
      <4>1. applied' = applied /\ misled \subseteq misled'
        BY <1>7, <2>1 DEF Accept
      <4>2. CASE r.err
        BY <2>2, <2>5, <2>6, <3>2, <4>1, <4>2
      <4>3. CASE ~r.err /\ r.call = Nobody
        <5>1. call \in misled'
          BY <2>1, <4>3
        <5> QED BY <2>2, <4>3, <5>1
      <4>4. CASE ~r.err /\ r.call # Nobody
        BY <2>2, <2>5, <2>6, <3>2, <4>1, <4>4
      <4> QED BY <4>2, <4>3, <4>4
    <3> QED BY <3>1, <3>3 DEF OwnReplyOnly
  <2>9. NoReplyBehindSuccess'
    <3>1. CASE r.err \/ r.call = Nobody
      <4>1. \A c \in 1..Calls : outcome'[c] = "ok" /\ c \notin misled'
              => outcome[c] = "ok" /\ c \notin misled
        BY <2>1, <2>2, <2>5, <3>1
      <4> QED BY <1>0, <1>7, <2>3, <4>1, BehindShrinks DEF Accept, IInv, Shrinks
    <3>2. CASE ~(r.err \/ r.call = Nobody)
      <4>1. fifo # <<>> /\ pos = 0 /\ fifo \in Seq(Frame) /\ Head(fifo).call = call
        BY <1>0, <2>2, <3>2 DEF TypeOK
      <4>2. 1 \in 1..Len(fifo) /\ Head(fifo) = fifo[1] /\ Len(fifo) \in Nat
        BY <4>1, TailFacts
      <4>3. Head(fifo).len = txlen
        BY <4>1, <4>2, <2>2 DEF IInv, ReplyFits
      <4>4. fifo' = Tail(fifo)
        BY <1>0, <1>7, <4>1, <4>3 DEF Accept, ReadFifo, TypeOK
      <4>5. \A i \in 1..Len(fifo') : i + 1 \in 1..Len(fifo) /\ 1 < i + 1 /\ fifo'[i] = fifo[i + 1]
        BY <4>1, <4>2, <4>4, TailFacts
      <4>6. ASSUME NEW i \in 1..Len(fifo'), fifo'[i].call # 0
            PROVE  FALSE
        <5>1. fifo[1].call < fifo[i + 1].call /\ fifo[i + 1].call <= call
          BY <1>0, <4>2, <4>5, <4>6 DEF LinkInv, CallOrder, IdsAreCalls
        <5> QED BY <2>2, <4>1, <4>2, <4>5, <5>1, LinkTypes, <1>0
      <4>7. ASSUME NEW i \in 1..Len(inbox')
            PROVE  FALSE
        <5>1. inbox' = inbox
          BY <1>7 DEF Accept
        <5>2. fifo[1].call < inbox[i].call /\ inbox[i].call <= call
          BY <1>0, <4>2, <5>1 DEF LinkInv, CallOrder, IdsAreCalls
        <5> QED BY <2>2, <4>1, <4>2, <5>1, <5>2, LinkTypes, <1>0
      <4> QED BY <4>6, <4>7 DEF NoReplyBehindSuccess
    <3> QED BY <3>1, <3>2
  <2>10. ReplyFits'
    BY <1>0, <1>7, <2>3, FitsShrinks DEF Accept, IInv, Shrinks
  <2> QED BY <1>0, <2>4, <2>7, <2>8, <2>9, <2>10 DEF IInv, LinkInv
<1>8. CASE TimeOut
  <2>1. LinkInv'
    BY <1>0, <1>8, LinkSame DEF TimeOut, chipVars
  <2>2. call \in 1..Calls /\ outcome[call] = "none"
    BY <1>0, <1>8 DEF TimeOut, IInv, Outcomes, TypeOK
  <2>3. \A c \in 1..Calls :
          outcome'[c] = IF c = call THEN "failed" ELSE outcome[c]
    BY <1>0, <1>8 DEF TimeOut, TypeOK
  <2>4. Outcomes'
    BY <1>0, <1>8, <2>2, <2>3 DEF TimeOut, IInv, Outcomes, TypeOK
  <2>5. OwnReplyOnly' /\ NoReplyBehindSuccess'
    BY <1>8, <2>2, <2>3
    DEF TimeOut, chipVars, IInv, OwnReplyOnly, NoReplyBehindSuccess
  <2>6. ReplyFits'
    BY <1>8 DEF TimeOut, chipVars, IInv, ReplyFits
  <2> QED BY <1>0, <2>1, <2>4, <2>5, <2>6 DEF IInv, LinkInv
<1>9. ASSUME NEW f \in Frame, Enqueue(f), LinkInv',
             UNCHANGED <<pc, txlen, call, outcome, filled, misled>>,
             applied \subseteq applied', Shrinks(inbox, inbox'),
             \A c \in 1..Calls :
               outcome[c] = "ok" /\ c \notin misled /\ f.call # 0 => f.call > c,
             f.call = call /\ call # 0 => f.len = txlen
      PROVE  IInv'
  <2>1. fifo \in Seq(Frame) /\ fifo' = Append(fifo, f) /\ Len(fifo) \in Nat
    BY <1>0, <1>9 DEF TypeOK, Enqueue
  <2>2. \A i \in 1..Len(fifo') :
          \/ i \in 1..Len(fifo) /\ fifo'[i] = fifo[i]
          \/ fifo'[i] = f
    <3>1. /\ Len(fifo') = Len(fifo) + 1
          /\ \A i \in 1..Len(fifo) : fifo'[i] = fifo[i]
          /\ fifo'[Len(fifo) + 1] = f
      BY <1>9, <2>1, AppendFacts
    <3>2. \A i \in 1..Len(fifo) + 1 : i \in 1..Len(fifo) \/ i = Len(fifo) + 1
      BY <2>1
    <3> QED BY <3>1, <3>2
  <2>3. PICK d \in 0..1 : Shift(inbox, inbox', d)
    BY <1>0, <1>9, ShrinksShift DEF TypeOK
  <2>4. \A i \in 1..Len(inbox') : i + d \in 1..Len(inbox) /\ inbox'[i] = inbox[i + d]
    BY <2>3 DEF Shift
  <2>5. NoReplyBehindSuccess'
    BY <1>9, <2>2, <2>4 DEF IInv, NoReplyBehindSuccess
  <2>6. ReplyFits'
    BY <1>9, <2>2, <2>4 DEF IInv, ReplyFits
  <2>7. Outcomes' /\ OwnReplyOnly'
    BY <1>9 DEF IInv, Outcomes, OwnReplyOnly
  <2> QED BY <1>0, <1>9, <2>5, <2>6, <2>7 DEF IInv, LinkInv
<1>10. CASE Execute
  <2> DEFINE q == Head(inbox)
  <2>1. PICK e \in BOOLEAN :
          /\ Enqueue(Reply(q, e))
          /\ applied' = IF e THEN applied ELSE applied \union {q.call}
    BY <1>10 DEF Execute
  <2>2. inbox # <<>> /\ inbox' = Tail(inbox) /\ inbox \in Seq(Request)
    BY <1>0, <1>10 DEF Execute, TypeOK
  <2>3. /\ q = inbox[1] /\ q \in Request /\ 1 \in 1..Len(inbox)
        /\ inbox' \in Seq(Request)
        /\ \A i \in 1..Len(inbox') :
              i + 1 \in 1..Len(inbox) /\ 1 < i + 1 /\ inbox'[i] = inbox[i + 1]
    BY <2>2, TailFacts
  <2>4. Shrinks(inbox, inbox')
    BY <2>2 DEF Shrinks
  <2> HIDE DEF q
  <2> DEFINE f == Reply(q, e)
  <2>5. /\ f \in Frame /\ f.call = q.call /\ f.id = q.id
        /\ f.len = q.len /\ f.err = e /\ f.call \in 1..Calls
    BY <2>3 DEF Reply, Request, Frame
  <2> HIDE DEF f
  <2>6. Enqueue(f) /\ applied' = IF e THEN applied ELSE applied \union {f.call}
    BY <2>1, <2>5 DEF f
  <2>7. /\ f.id = f.call /\ f.call <= call
        /\ \A i \in 1..Len(fifo) : fifo[i].call < f.call
        /\ \A j \in 1..Len(inbox') : f.call < inbox'[j].call
    BY <1>0, <2>3, <2>5 DEF LinkInv, IdsAreCalls, CallOrder
  <2>8. UNCHANGED <<pc, txlen, ioctl_reqid, call, outcome, filled, misled>>
    BY <1>10 DEF Execute, hostVars
  <2>9. LinkInv'
    BY <1>0, <2>3, <2>4, <2>5, <2>6, <2>7, <2>8, LinkEnqueue
  <2>10. \A c \in 1..Calls : outcome[c] = "ok" /\ c \notin misled => f.call > c
    BY <2>3, <2>5 DEF IInv, NoReplyBehindSuccess
  <2>11. f.call = call => f.len = txlen
    BY <2>3, <2>5 DEF IInv, ReplyFits
  <2> QED BY <1>9, <2>4, <2>5, <2>6, <2>8, <2>9, <2>10, <2>11
<1>11. CASE EmitEvent
  <2>1. PICK l \in Lens : Enqueue(Event(l))
    BY <1>11 DEF EmitEvent
  <2> DEFINE f == Event(l)
  <2>2. f \in Frame /\ f.call = 0 /\ f.id = 0
    BY DEF Event, Frame
  <2> HIDE DEF f
  <2>3. Enqueue(f) /\ UNCHANGED <<pc, txlen, ioctl_reqid, inbox, call, outcome, applied, filled, misled>>
    BY <1>11, <2>1 DEF EmitEvent, hostVars, history, f
  <2>4. Shrinks(inbox, inbox') /\ inbox' \in Seq(Request)
    BY <1>0, <2>3 DEF Shrinks, TypeOK
  <2>5. \A j \in 1..Len(inbox') : f.call < inbox'[j].call
    BY <1>0, <2>2, <2>3, LinkTypes
  <2>6. f.call <= call
    BY <1>0, <2>2 DEF TypeOK
  <2>7. LinkInv'
    BY <1>0, <2>2, <2>3, <2>4, <2>5, <2>6, LinkEnqueue
  <2> QED BY <1>9, <2>2, <2>3, <2>4, <2>7
<1>12. CASE Interrupt
  BY <1>2, <1>12 DEF Interrupt, hostVars, history, Shrinks
<1>13. CASE RadioRead
  <2>1. Shrinks(fifo, fifo')
    BY <1>0, <1>13, ReadFifoFacts DEF RadioRead, TypeOK, Shrinks
  <2> QED BY <1>2, <1>13, <2>1 DEF RadioRead, hostVars, history
<1>14. CASE UNCHANGED vars
  BY <1>2, <1>14 DEF vars, hostVars, chipVars, history, Shrinks
<1> QED
  BY <1>1, <1>3, <1>4, <1>5, <1>6, <1>7, <1>8, <1>10, <1>11, <1>12, <1>13, <1>14
  DEF Next, Host, AnyCall, Chip

\* The inductive invariant holds in every reachable state.
THEOREM InvCorrect == Spec => []IInv
  BY InvInit, InvStep, PTL DEF Spec

\* A call succeeds only when its own command was carried out, and only its own
\* reply fills the caller's buffer, whatever is late, lost or unsolicited, but
\* for a call that finds its own id in the tail of a frame.
THEOREM OwnReplies == Spec => []OwnReplyOnly
<1>1. IInv => OwnReplyOnly
  BY DEF IInv
<1> QED BY InvCorrect, <1>1, PTL

\* A success by a reply leaves no older request or reply on the link, also when
\* calls before it were misled.
THEOREM Resynchronised == Spec => []NoReplyBehindSuccess
<1>1. IInv => NoReplyBehindSuccess
  BY DEF IInv
<1> QED BY InvCorrect, <1>1, PTL
-----------------------------------------------------------------------------
(* The engine implements the abstract service.                             *)

\* What the service's callers see of outcomes and buffers.
MapOutcome == [c \in 1..Calls |-> IF c \in misled THEN "failed" ELSE outcome[c]]
MapFilled  == [c \in 1..Calls |-> IF c \in misled THEN 0 ELSE filled[c]]

LEMMA ServiceInit == Init => Service!Init
  BY DEF Init, Service!Init

LEMMA ServiceStep ==
  ASSUME IInv, [Next]_vars
  PROVE  [Service!Next]_(Service!svars)
<1> USE IoctlAssumption
<1>0. TypeOK /\ LinkInv
  BY DEF IInv, LinkInv
<1>1. ASSUME UNCHANGED history
      PROVE  [Service!Next]_(Service!svars)
  BY <1>1 DEF history, Service!svars
<1>2. ASSUME NEW w \in BOOLEAN, NEW l \in Lens, NEW t \in Waits, Send(w, l, t)
      PROVE  Service!Begin
  <2>1. ~Service!Open
    BY <1>0, <1>2 DEF Send, IInv, Outcomes, TypeOK, Service!Open
  <2> QED BY <1>2, <2>1 DEF Send, Service!Begin
<1>3. CASE Accept
  <2>1. PICK r \in Readings :
          /\ Matching(r)
          /\ Taken(r)
          /\ misled' = IF r.call = Nobody /\ ~r.err THEN misled \union {call} ELSE misled
    BY <1>3 DEF Accept
  <2>2. /\ call \in 1..Calls /\ outcome[call] = "none"
        /\ r.call # Nobody => /\ r.call = call
                              /\ ~r.err => call \in applied
    BY <1>3, <2>1, MatchIsOwn DEF Accept
  <2>3. call \notin misled
    BY <2>2 DEF IInv, Outcomes
  <2>4. Service!Open
    BY <2>2, <2>3 DEF Service!Open
  <2>5. UNCHANGED <<call, applied>>
    BY <1>3 DEF Accept
  <2>6. CASE r.err
    <3>1. misled' = misled /\ filled' = filled
          /\ outcome' = [outcome EXCEPT ![call] = "failed"]
      BY <2>1, <2>6 DEF Taken
    <3>2. MapOutcome' = [MapOutcome EXCEPT ![call] = "failed"] /\ MapFilled' = MapFilled
      BY <1>0, <2>2, <2>3, <3>1 DEF MapOutcome, MapFilled, TypeOK
    <3> QED BY <2>4, <2>5, <3>2 DEF MapOutcome, MapFilled, Service!Next, Service!Fail
  <2>7. CASE ~r.err /\ r.call = Nobody
    <3>1. misled' = misled \union {call}
          /\ outcome' = [outcome EXCEPT ![call] = "ok"]
          /\ \A c \in 1..Calls : c # call => filled'[c] = filled[c]
      BY <1>0, <2>1, <2>7 DEF Taken, TypeOK
    <3>2. filled[call] = 0
      BY <2>2, <2>3 DEF IInv, OwnReplyOnly
    <3>3. MapOutcome' = [MapOutcome EXCEPT ![call] = "failed"] /\ MapFilled' = MapFilled
      BY <1>0, <2>2, <3>1, <3>2 DEF MapOutcome, MapFilled, TypeOK
    <3> QED BY <2>4, <2>5, <3>3 DEF MapOutcome, MapFilled, Service!Next, Service!Fail
  <2>8. CASE ~r.err /\ r.call # Nobody
    <3>1. misled' = misled
          /\ outcome' = [outcome EXCEPT ![call] = "ok"]
          /\ (filled' = filled \/ filled' = [filled EXCEPT ![call] = call])
      BY <2>1, <2>2, <2>8 DEF Taken
    <3>2. /\ MapOutcome' = [MapOutcome EXCEPT ![call] = "ok"]
          /\ \/ MapFilled' = MapFilled
             \/ MapFilled' = [MapFilled EXCEPT ![call] = call]
      <4>1. MapOutcome' = [MapOutcome EXCEPT ![call] = "ok"]
        BY <1>0, <2>2, <2>3, <3>1 DEF MapOutcome, TypeOK
      <4>2. CASE filled' = filled
        BY <3>1, <4>1, <4>2 DEF MapFilled
      <4>3. CASE filled' = [filled EXCEPT ![call] = call]
        <5>1. MapFilled' = [MapFilled EXCEPT ![call] = call]
          BY <1>0, <2>2, <2>3, <3>1, <4>3 DEF MapFilled, TypeOK
        <5> QED BY <4>1, <5>1
      <4> QED BY <3>1, <4>2, <4>3
    <3>3. call \in applied
      BY <2>2, <2>8
    <3> QED BY <2>4, <2>5, <3>2, <3>3 DEF MapOutcome, MapFilled, Service!Next, Service!Succeed
  <2> QED BY <2>6, <2>7, <2>8
<1>4. CASE TimeOut
  <2>1. /\ call \in 1..Calls /\ outcome[call] = "none" /\ call \notin misled
        /\ outcome' = [outcome EXCEPT ![call] = "failed"]
        /\ UNCHANGED <<call, applied, filled, misled>>
    BY <1>0, <1>4 DEF TimeOut, IInv, Outcomes, TypeOK
  <2>2. Service!Open
    BY <2>1 DEF Service!Open
  <2>3. MapOutcome' = [MapOutcome EXCEPT ![call] = "failed"] /\ MapFilled' = MapFilled
    BY <1>0, <2>1 DEF MapOutcome, MapFilled, TypeOK
  <2> QED BY <2>1, <2>2, <2>3 DEF MapOutcome, MapFilled, Service!Next, Service!Fail
<1>5. CASE Execute
  <2>1. PICK e \in BOOLEAN :
          applied' = IF e THEN applied ELSE applied \union {Head(inbox).call}
    BY <1>5 DEF Execute
  <2>2. inbox # <<>> /\ inbox \in Seq(Request)
    BY <1>0, <1>5 DEF Execute, TypeOK
  <2>3. Head(inbox) = inbox[1] /\ 1 \in 1..Len(inbox)
    BY <2>2, TailFacts
  <2>4. /\ Head(inbox).call \in 1..call
        /\ \A d \in applied : d < Head(inbox).call
    BY <1>0, <2>3, LinkTypes DEF LinkInv, IdsAreCalls, AppliedOrder
  <2>5. UNCHANGED <<call, outcome, filled, misled>>
    BY <1>5 DEF Execute
  <2>6. CASE e
    BY <2>1, <2>5, <2>6 DEF Service!svars
  <2>7. CASE ~e
    BY <2>1, <2>4, <2>5, <2>7 DEF Service!Next, Service!Apply
  <2> QED BY <2>6, <2>7
<1>6. CASE IoctlWait \/ Poll \/ Ack \/ Discard \/ RadioRead \/ EmitEvent \/ Interrupt
  BY <1>1, <1>6 DEF IoctlWait, Poll, Ack, Discard, RadioRead, EmitEvent, Interrupt
<1>7. CASE UNCHANGED vars
  BY <1>1, <1>7 DEF vars
<1> QED
  BY <1>2, <1>3, <1>4, <1>5, <1>6, <1>7 DEF Next, Host, AnyCall, Chip, Service!Next

\* To its callers the engine is the abstract service: commands take effect in
\* call order, at most once each, and success means the command took effect,
\* when that of a misled call counts for nothing.
THEOREM Implementation == Spec => ImplementsService
<1>1. Spec => [][Service!Next]_(Service!svars)
  BY InvCorrect, ServiceStep, PTL DEF Spec
<1> QED BY ServiceInit, <1>1, PTL DEF Spec, ImplementsService, Service!Spec

-----------------------------------------------------------------------------
(* Events: the calls that enable events, among any number of calls and     *)
(* with any lists.                                                         *)

\* Enabling events and making other calls are calls of the engine.
LEMMA EngineStep == [EventsNext]_allVars => [Next]_vars
<1>1. EnableEvts => AnyCall
  BY EventsAssumption DEF EnableEvts, AnyCall
<1> QED
  BY <1>1 DEF EventsNext, OtherCall, Underway, InCall, allVars, Next, Host

\* What the program has sent and remembers of the enabling calls so far.
Remembers ==
  /\ call \in Nat
  /\ DOMAIN sent = DOMAIN Lists
  /\ \A c \in DOMAIN Lists : c <= call => sent[c] = MaskOf(Lists[c])
  /\ \A c \in DOMAIN Lists :
        c <= call /\ (\A d \in DOMAIN Lists : d > c => d > call) => current_evts = Lists[c]

\* Numbers of calls are integers.
LEMMA Numbers == \A c \in DOMAIN Lists : c \in Nat /\ c > 0
  BY EventsAssumption, IoctlAssumption

LEMMA RemembersInit == EventsInit => Remembers
  BY Numbers DEF EventsInit, Init, Remembers

LEMMA RemembersStep ==
  ASSUME Remembers, [EventsNext]_allVars
  PROVE  Remembers'
<1> USE Numbers
<1>1. CASE EnableEvts
  <2>1. /\ call' = call + 1 /\ call' \in DOMAIN Lists
        /\ current_evts' = Lists[call']
        /\ sent' = [sent EXCEPT ![call'] = MaskOf(Lists[call'])]
    BY <1>1 DEF EnableEvts, Send
  <2>2. call' \in Nat /\ DOMAIN sent' = DOMAIN Lists
    BY <2>1 DEF Remembers
  <2>3. ASSUME NEW c \in DOMAIN Lists, c <= call'
        PROVE  sent'[c] = MaskOf(Lists[c])
    <3>1. CASE c = call'
      BY <2>1, <3>1 DEF Remembers
    <3>2. CASE c # call'
      <4>1. c <= call
        BY <2>1, <2>3, <3>2 DEF Remembers
      <4>2. sent'[c] = sent[c]
        BY <2>1, <3>2 DEF Remembers
      <4> QED BY <4>1, <4>2 DEF Remembers
    <3> QED BY <3>1, <3>2
  <2>4. ASSUME NEW c \in DOMAIN Lists, c <= call', \A d \in DOMAIN Lists : d > c => d > call'
        PROVE  current_evts' = Lists[c]
    <3>1. c = call'
      BY <2>1, <2>2, <2>4
    <3> QED BY <2>1, <3>1
  <2> QED BY <2>2, <2>3, <2>4 DEF Remembers
<1>2. CASE OtherCall
  <2>1. call' = call + 1 /\ call' \notin DOMAIN Lists /\ UNCHANGED <<current_evts, sent>>
    BY <1>2 DEF OtherCall, AnyCall, Send, eventVars
  <2>2. \A c \in DOMAIN Lists : c <= call' => c <= call
    BY <2>1 DEF Remembers
  <2>3. \A d \in DOMAIN Lists : d > call' => d > call
    BY <2>1 DEF Remembers
  <2> QED BY <2>1, <2>2, <2>3 DEF Remembers
<1>3. CASE Underway \/ UNCHANGED allVars
  <2>1. UNCHANGED <<call, current_evts, sent>>
    BY <1>3 DEF Underway, InCall, IoctlWait, Poll, Ack, Discard, Accept, TimeOut, RadioRead,
                Chip, Execute, EmitEvent, Interrupt, history, eventVars, allVars, vars
  <2> QED BY <2>1 DEF Remembers
<1> QED BY <1>1, <1>2, <1>3 DEF EventsNext

\* An event's number is given by the byte and the bit that stand for it.
LEMMA ByteAndBit ==
  ASSUME NEW x \in Nat, NEW y \in Nat, x \div 8 = y \div 8, x % 8 = y % 8
  PROVE  x = y
  OBVIOUS

\* A mask has the bit of an event exactly when the event is in the list.
LEMMA MaskExact ==
  ASSUME NEW list \in SUBSET Nat, NEW e \in 0..EVENT_MAX-1
  PROVE  e % 8 \in MaskOf(list)[e \div 8] <=> e \in list
<1>1. e \div 8 \in MaskBytes /\ e \in Nat
  BY DEF EVENT_MAX, MaskBytes
<1>2. MaskOf(list)[e \div 8] = {x % 8 : x \in {y \in list : y \div 8 = e \div 8}}
  BY <1>1 DEF MaskOf
<1>3. e \in list => e % 8 \in {x % 8 : x \in {y \in list : y \div 8 = e \div 8}}
  OBVIOUS
<1>4. ASSUME NEW x \in list, x \div 8 = e \div 8, x % 8 = e % 8
      PROVE  e \in list
  BY <1>1, <1>4, ByteAndBit
<1> QED BY <1>2, <1>3, <1>4

LEMMA Agreement ==
  ASSUME IInv, Remembers
  PROVE  SendsWhatIsNamed
<1> SUFFICES ASSUME NEW c \in DOMAIN Lists, outcome[c] = "ok",
                    c \notin misled,
                    \A d \in DOMAIN Lists : d > c => d > call,
                    NEW e \in 0..EVENT_MAX-1
             PROVE  ChipSends(e) <=> Named(e)
  BY DEF SendsWhatIsNamed
<1>1. c \in applied /\ \A d \in applied : d \in Nat /\ d <= call
  <2>1. c \in 1..Calls /\ c \notin misled
    BY EventsAssumption
  <2>2. c \in applied
    BY <2>1 DEF IInv, OwnReplyOnly
  <2>3. applied \subseteq Nat
    BY DEF IInv, TypeOK
  <2>4. \A d \in applied : d <= call
    BY DEF IInv, AppliedOrder
  <2> QED BY <2>2, <2>3, <2>4
<1>2. \A d \in applied : Enabling(d) => d <= c
  BY <1>1, Numbers DEF Enabling, Remembers
<1>3. ChipSends(e) <=> e % 8 \in sent[c][e \div 8]
  <2>1. ASSUME NEW d \in applied, Enabling(d), \A b \in applied : Enabling(b) => b <= d
        PROVE  d = c
    BY <1>1, <1>2, <2>1, Numbers DEF Enabling
  <2>2. Enabling(c)
    BY DEF Enabling
  <2> QED BY <1>1, <1>2, <2>1, <2>2 DEF ChipSends
<1>4. sent[c] = MaskOf(Lists[c]) /\ current_evts = Lists[c]
  BY <1>1 DEF Remembers
<1>5. Lists[c] \in SUBSET Nat
  BY EventsAssumption
<1> QED BY <1>3, <1>4, <1>5, MaskExact DEF Named

\* For any program and any lists: after the last enabling call has succeeded
\* the chip sends the events of the list, each of which can be named.
THEOREM EventsAgree == EventsSpec => []SendsWhatIsNamed
<1>1. EventsInit => IInv /\ Remembers
  BY InvInit, RemembersInit DEF EventsInit
<1>2. IInv /\ Remembers /\ [EventsNext]_allVars => IInv' /\ Remembers'
  BY EngineStep, InvStep, RemembersStep
<1>3. IInv /\ Remembers => SendsWhatIsNamed
  BY Agreement
<1> QED BY <1>1, <1>2, <1>3, PTL DEF EventsSpec
=============================================================================
