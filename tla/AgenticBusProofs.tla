-------------------------- MODULE AgenticBusProofs --------------------------
(***************************************************************************)
(* The safety of the turns over the bus, for any calls, turns and lengths  *)
(* of an answer.  An answer is in three places: what was emitted, what is  *)
(* queued and what is on the wire.  The invariant says of each turn that   *)
(* the three are in order, that the sentinel and the terminal message are  *)
(* where they must be, and that nothing is missing before the place where  *)
(* a turn that lost nothing will stop.                                     *)
(***************************************************************************)
EXTENDS AgenticBus, SequenceTheorems, TLAPS

HasText(m) == m.type \in {"chunk", "final"}
Terminal(m) == m.type \in {"final", "end", "error"}

\* Only texts are numbered.
Numbered(s) == \A i \in 1..Len(s) : HasText(s[i]) <=> s[i].n > 0

\* The sentinel is in the queue exactly when the entry of a running turn is gone.
SlotInv(k) ==
    /\ k \in open => turn[k] \in Running
    /\ \A i \in 1..Len(queue[k]) : queue[k][i] = Closed => k \notin open /\ i = Len(queue[k])
    /\ turn[k] \in Running /\ k \notin open =>
          queue[k] # <<>> /\ queue[k][Len(queue[k])] = Closed
    /\ turn[k] \notin Running => queue[k] = <<>>
    /\ turn[k] = "new" => emitted[k] = <<>> /\ sent[k] = 0

\* The numbers grow along each of the three places and from one to the next.
OrderInv(k) ==
    LET e == emitted[k]
        q == queue[k]
        w == wire[k]
    IN
    /\ \A i, j \in 1..Len(e) : i < j => e[i] < e[j]
    /\ \A i, j \in 1..Len(q) : i < j /\ q[j].n > 0 => q[i].n < q[j].n
    /\ \A i, j \in 1..Len(w) : i < j /\ w[j].n > 0 => w[i].n < w[j].n
    /\ \A i \in 1..Len(e), j \in 1..Len(q) : q[j].n > 0 => e[i] < q[j].n
    /\ \A i \in 1..Len(e), j \in 1..Len(w) : w[j].n > 0 => e[i] < w[j].n
    /\ \A i \in 1..Len(q), j \in 1..Len(w) : w[j].n > 0 => q[i].n < w[j].n
    /\ \A i \in 1..Len(e) : e[i] <= sent[k]
    /\ \A i \in 1..Len(q) : q[i].n <= sent[k]
    /\ \A i \in 1..Len(w) : w[i].n <= sent[k]

\* The terminal message is the last one sent, wherever it is.
TerminalInv(k) ==
    LET q == queue[k]
        w == wire[k]
    IN
    /\ \A i \in 1..Len(w) : Terminal(w[i]) =>
          /\ i = Len(w) /\ k \in answered
          /\ w[i].type = "final" => w[i].n = sent[k]
    /\ \A i \in 1..Len(q) : Terminal(q[i]) =>
          /\ w = <<>> /\ k \in answered
          /\ \A j \in 1..Len(q) : i < j => q[j] = Closed
          /\ q[i].type = "final" => q[i].n = sent[k]
    /\ turn[k] = "answered" => k \in answered

\* Where text number t of turn k is.
Queued(k, t) == \E i \in 1..Len(queue[k]) : queue[k][i].n = t
OnWire(k, t) == \E i \in 1..Len(wire[k]) : wire[k][i].n = t
\* It comes after all that turn k will take from its queue.
CutOff(k, t) == \A i \in 1..Len(queue[k]) : queue[k][i].n < t /\ ~Terminal(queue[k][i])

\* What a turn that lost nothing has emitted is the answer so far, and what it has not is
\* still to come, or comes after the sentinel of a turn that was closed.
WholeInv(k) ==
    k \notin lost =>
      /\ turn[k] \in Running \cup {"answered"} => \A i \in 1..Len(emitted[k]) : emitted[k][i] = i
      /\ turn[k] = "answered" => Len(emitted[k]) = sent[k]
      /\ turn[k] \in Running => \A t \in Len(emitted[k])+1..sent[k] :
            Queued(k, t) \/ (IF k \in open THEN OnWire(k, t) ELSE CutOff(k, t))

TurnInv(k) ==
    /\ Numbered(queue[k]) /\ Numbered(wire[k])
    /\ SlotInv(k) /\ OrderInv(k) /\ TerminalInv(k) /\ WholeInv(k)

BusInv == TypeOK /\ \A k \in Turns : TurnInv(k)

\* Nothing of turn k changes that its invariant speaks of.
Same(k) ==
    /\ turn'[k] = turn[k] /\ queue'[k] = queue[k] /\ emitted'[k] = emitted[k]
    /\ wire'[k] = wire[k] /\ sent'[k] = sent[k]
    /\ k \in open' <=> k \in open
    /\ k \in answered' <=> k \in answered
    /\ k \in lost' <=> k \in lost

-----------------------------------------------------------------------------
LEMMA TailFacts ==
    ASSUME NEW S, NEW s \in Seq(S), s # <<>>
    PROVE  /\ Len(s) \in Nat /\ Len(s) >= 1
           /\ Head(s) = s[1] /\ s[1] \in S
           /\ Tail(s) \in Seq(S)
           /\ Len(Tail(s)) = Len(s) - 1
           /\ \A i \in 1..Len(s)-1 : Tail(s)[i] = s[i+1]
  BY HeadTailProperties, SMT

LEMMA AppendFacts ==
    ASSUME NEW S, NEW s \in Seq(S), NEW m \in S
    PROVE  /\ Append(s, m) \in Seq(S)
           /\ Append(s, m) # <<>>
           /\ Len(Append(s, m)) = Len(s) + 1
           /\ \A i \in 1..Len(s) : Append(s, m)[i] = s[i]
           /\ Append(s, m)[Len(s) + 1] = m
  BY AppendProperties

LEMMA LastIndex ==
    ASSUME NEW S, NEW s \in Seq(S), Len(s) # 0
    PROVE  Len(s) \in 1..Len(s) /\ s # <<>>
  OBVIOUS

LEMMA NoLength ==
    ASSUME NEW S, NEW s \in Seq(S), Len(s) = 0
    PROVE  s = <<>>
  OBVIOUS

LEMMA SameKeeps ==
    ASSUME NEW k \in Turns, TurnInv(k), Same(k)
    PROVE  TurnInv(k)'
<1>1. Numbered(queue[k])' /\ Numbered(wire[k])'
  BY DEF TurnInv, Same, Numbered
<1>2. SlotInv(k)'
  BY DEF TurnInv, Same, SlotInv
<1>3. OrderInv(k)'
  BY DEF TurnInv, Same, OrderInv
<1>4. TerminalInv(k)'
  BY DEF TurnInv, Same, TerminalInv
<1>5. WholeInv(k)'
  BY DEF TurnInv, Same, WholeInv, Queued, OnWire, CutOff
<1>6. QED
  BY <1>1, <1>2, <1>3, <1>4, <1>5 DEF TurnInv

\* The sequences of a turn are sequences, of messages with a number.
LEMMA TurnTypes ==
    ASSUME TypeOK, NEW k \in Turns
    PROVE  /\ queue[k] \in Seq(Messages \cup {Closed}) /\ Len(queue[k]) \in Nat
           /\ wire[k] \in Seq(Messages) /\ Len(wire[k]) \in Nat
           /\ emitted[k] \in Seq(1..MaxTexts) /\ Len(emitted[k]) \in Nat
           /\ sent[k] \in Nat /\ sent[k] <= MaxTexts /\ MaxTexts \in Nat
           /\ \A i \in 1..Len(queue[k]) : queue[k][i] \in Messages \cup {Closed}
                                          /\ queue[k][i].n \in Nat
           /\ \A i \in 1..Len(wire[k]) : wire[k][i] \in Messages /\ wire[k][i].n \in Nat
           /\ \A i \in 1..Len(emitted[k]) : emitted[k][i] \in Nat
<1>1. /\ queue[k] \in Seq(Messages \cup {Closed}) /\ wire[k] \in Seq(Messages)
      /\ emitted[k] \in Seq(1..MaxTexts)
      /\ sent[k] \in Nat /\ sent[k] <= MaxTexts /\ MaxTexts \in Nat
  BY AgenticBusAssumption DEF TypeOK
<1>2. \A m \in Messages \cup {Closed} : m.n \in Nat
  BY AgenticBusAssumption DEF Messages, Closed, Msg
<1>3. /\ \A i \in 1..Len(queue[k]) : queue[k][i] \in Messages \cup {Closed}
      /\ \A i \in 1..Len(wire[k]) : wire[k][i] \in Messages
      /\ \A i \in 1..Len(emitted[k]) : emitted[k][i] \in 1..MaxTexts
  BY <1>1, ElementOfSeq
<1>4. Len(queue[k]) \in Nat /\ Len(wire[k]) \in Nat /\ Len(emitted[k]) \in Nat
  BY <1>1, LenProperties
<1>5. QED
  BY <1>1, <1>2, <1>3, <1>4

-----------------------------------------------------------------------------
\* The steps that change nothing but where a turn is.
LEMMA StageKeeps ==
    ASSUME NEW k \in Turns, TypeOK, TurnInv(k),
           turn'[k] \in Running, turn[k] \in Running,
           queue'[k] = queue[k], emitted'[k] = emitted[k], wire'[k] = wire[k],
           sent'[k] = sent[k], open' = open, answered' = answered, lost' = lost
    PROVE  TurnInv(k)'
<1>1. Numbered(queue[k])' /\ Numbered(wire[k])'
  BY DEF TurnInv, Numbered
<1>2. SlotInv(k)'
  BY DEF TurnInv, SlotInv, Running
<1>3. OrderInv(k)'
  BY DEF TurnInv, OrderInv
<1>4. TerminalInv(k)'
  BY DEF TurnInv, TerminalInv, Running
<1>5. WholeInv(k)'
  BY DEF TurnInv, WholeInv, Queued, OnWire, CutOff, Running
<1>6. QED
  BY <1>1, <1>2, <1>3, <1>4, <1>5 DEF TurnInv

\* A turn that ends without its answer.
LEMMA LeaveKeeps ==
    ASSUME NEW k \in Turns, TypeOK, TurnInv(k),
           turn'[k] \in {"cut", "error", "raised"}, queue'[k] = <<>>, k \notin open',
           emitted'[k] = emitted[k], wire'[k] = wire[k], sent'[k] = sent[k],
           answered' = answered, lost' = lost
    PROVE  TurnInv(k)'
<1>1. Numbered(queue[k])' /\ Numbered(wire[k])'
  BY DEF TurnInv, Numbered
<1>2. SlotInv(k)'
  BY DEF SlotInv, Running
<1>3. OrderInv(k)'
  BY DEF TurnInv, OrderInv
<1>4. TerminalInv(k)'
  BY DEF TurnInv, TerminalInv
<1>5. WholeInv(k)'
  BY DEF WholeInv, Running
<1>6. QED
  BY <1>1, <1>2, <1>3, <1>4, <1>5 DEF TurnInv

-----------------------------------------------------------------------------
LEMMA SubscriptionKeeps ==
    ASSUME BusInv, NEW c \in Calls, StartBus(c) \/ StopBus(c)
    PROVE  BusInv'
<1>1. TypeOK'
  BY DEF BusInv, TypeOK, StartBus, StopBus, backend
<1>2. \A j \in Turns : Same(j)
  BY DEF Same, StartBus, StopBus, backend
<1>3. QED
  BY <1>1, <1>2, SameKeeps DEF BusInv

LEMMA StartTurnKeeps ==
    ASSUME BusInv, NEW k \in Turns, StartTurn(k)
    PROVE  BusInv'
<1> USE DEF StartTurn, backend
<1>1. TypeOK'
  BY DEF BusInv, TypeOK, TurnStages
<1>2. \A j \in Turns \ {k} : Same(j)
  BY DEF BusInv, TypeOK, Same
<1>3. TurnInv(k)'
  <2>1. /\ turn'[k] = "publish" /\ k \in open' /\ queue'[k] = <<>>
        /\ emitted'[k] = <<>> /\ sent'[k] = 0 /\ wire'[k] = wire[k]
        /\ answered' = answered /\ lost' = lost
    BY DEF BusInv, TypeOK, TurnInv, SlotInv, Running
  <2>2. Numbered(queue[k])' /\ Numbered(wire[k])'
    BY <2>1 DEF BusInv, TurnInv, Numbered
  <2>3. SlotInv(k)'
    BY <2>1 DEF SlotInv, Running
  <2>4. OrderInv(k)'
    <3>1. emitted[k] = <<>> /\ queue[k] = <<>> /\ sent[k] = 0
      BY DEF BusInv, TypeOK, TurnInv, SlotInv, Running
    <3>2. QED
      BY <2>1, <3>1 DEF BusInv, TurnInv, OrderInv
  <2>5. TerminalInv(k)'
    <3>1. sent[k] = 0
      BY DEF BusInv, TurnInv, SlotInv
    <3>2. QED
      BY <2>1, <3>1 DEF BusInv, TurnInv, TerminalInv
  <2>6. WholeInv(k)'
    BY <2>1 DEF WholeInv, Running
  <2>7. QED
    BY <2>2, <2>3, <2>4, <2>5, <2>6 DEF TurnInv
<1>4. QED
  BY <1>1, <1>2, <1>3, SameKeeps DEF BusInv

LEMMA StageMoves ==
    ASSUME BusInv, NEW k \in Turns, Published(k) \/ ToolReturns(k) \/ CancelBegins(k)
    PROVE  BusInv'
<1> USE DEF Published, ToolReturns, CancelBegins, backend
<1>1. TypeOK'
  BY DEF BusInv, TypeOK, TurnStages
<1>2. \A j \in Turns \ {k} : Same(j)
  BY DEF BusInv, TypeOK, Same
<1>3. TurnInv(k)'
  <2>1. /\ turn'[k] \in Running /\ turn[k] \in Running
        /\ queue'[k] = queue[k] /\ emitted'[k] = emitted[k] /\ wire'[k] = wire[k]
        /\ sent'[k] = sent[k] /\ open' = open /\ answered' = answered /\ lost' = lost
    BY DEF BusInv, TypeOK, Running
  <2>2. QED
    BY <2>1, StageKeeps DEF BusInv
<1>4. QED
  BY <1>1, <1>2, <1>3, SameKeeps DEF BusInv

\* What leaving does, whatever the message or the deadline that made the turn leave.
LEMMA LeaveTypes ==
    ASSUME TypeOK, NEW k \in Turns, NEW outcome \in Over, Leave(k, outcome),
           UNCHANGED <<subscribed, cancel, wire, backend, lost>>,
           emitted' \in [Turns -> Seq(1..MaxTexts)],
           \A j \in Turns \ {k} : emitted'[j] = emitted[j]
    PROVE  /\ TypeOK'
           /\ \A j \in Turns \ {k} : Same(j)
           /\ turn'[k] = outcome /\ queue'[k] = <<>> /\ k \notin open'
<1>1. queue' \in [Turns -> Seq(Messages \cup {Closed})]
  BY EmptySeq DEF TypeOK, Leave
<1>2. TypeOK'
  BY <1>1 DEF TypeOK, Leave, backend, Over, TurnStages
<1>3. \A j \in Turns \ {k} : Same(j)
  BY DEF TypeOK, Same, Leave, backend
<1>4. QED
  BY <1>2, <1>3 DEF TypeOK, Leave

LEMMA GivingUpKeeps ==
    ASSUME BusInv, NEW k \in Turns, PublishFails(k) \/ Timeout(k)
    PROVE  BusInv'
<1>1. /\ Leave(k, "raised") /\ "raised" \in Over
      /\ UNCHANGED <<subscribed, emitted, cancel, wire, backend, lost>>
  BY DEF PublishFails, Timeout, Over
<1>2. /\ TypeOK'
      /\ \A j \in Turns \ {k} : Same(j)
      /\ turn'[k] = "raised" /\ queue'[k] = <<>> /\ k \notin open'
  BY <1>1, LeaveTypes DEF BusInv, TypeOK
<1>3. TurnInv(k)'
  BY <1>1, <1>2, LeaveKeeps DEF BusInv, backend
<1>4. QED
  BY <1>2, <1>3, SameKeeps DEF BusInv

-----------------------------------------------------------------------------
LEMMA CancelKeeps ==
    ASSUME BusInv, NEW k \in Turns, CancelReturns(k)
    PROVE  BusInv'
<1> DEFINE q == queue[k]
           r == queue'[k]
<1> USE DEF CancelReturns, Close, Enqueue, backend
<1>0. TypeOK /\ TurnInv(k)
  BY DEF BusInv
<1>1. /\ k \in open => r = Append(q, Closed)
      /\ k \notin open => r = q
      /\ k \notin open' /\ turn' = turn /\ emitted' = emitted /\ wire' = wire /\ sent' = sent
      /\ answered' = answered /\ lost' = lost
  BY <1>0 DEF TypeOK
<1>2. q \in Seq(Messages \cup {Closed}) /\ Append(q, Closed) \in Seq(Messages \cup {Closed})
  BY <1>0, TurnTypes, AppendFacts
<1>3. TypeOK'
  BY <1>0, <1>2 DEF TypeOK
<1>4. \A j \in Turns \ {k} : Same(j)
  BY <1>0 DEF TypeOK, Same
<1>5. TurnInv(k)'
  <2>1. CASE k \notin open
    <3>1. Same(k)
      BY <1>1, <2>1 DEF Same
    <3>2. QED
      BY <3>1, <1>0, SameKeeps
  <2>2. CASE k \in open
    <3>1. /\ r = Append(q, Closed) /\ r # <<>> /\ Len(q) \in Nat
          /\ Len(r) = Len(q) + 1
          /\ \A i \in 1..Len(q) : r[i] = q[i]
          /\ r[Len(q) + 1] = Closed
      BY <1>1, <1>2, <2>2, <1>0, TurnTypes, AppendFacts
    <3>2. \A i \in 1..Len(r) : r[i] = Closed \/ (i \in 1..Len(q) /\ r[i] = q[i])
      BY <3>1
    <3>3. Closed.n = 0 /\ ~HasText(Closed) /\ ~Terminal(Closed)
      BY DEF Closed, Msg, HasText, Terminal
    <3>4. Numbered(queue[k])' /\ Numbered(wire[k])'
      BY <1>1, <3>2, <3>3, <1>0 DEF TurnInv, Numbered
    <3>5. SlotInv(k)'
      <4>1. turn[k] \in Running /\ \A i \in 1..Len(q) : q[i] # Closed
        BY <2>2, <1>0 DEF TurnInv, SlotInv
      <4>2. \A i \in 1..Len(r) : r[i] = Closed => i = Len(r)
        BY <4>1, <3>1
      <4>3. r[Len(r)] = Closed
        BY <3>1
      <4>4. QED
        BY <4>1, <4>2, <4>3, <3>1, <1>1 DEF SlotInv, Running
    <3>6. OrderInv(k)'
      <4>1. OrderInv(k) /\ sent[k] \in Nat
        BY <1>0, TurnTypes DEF TurnInv
      <4>2. \A i, j \in 1..Len(r) : i < j /\ r[j].n > 0 => r[i].n < r[j].n
        BY <4>1, <3>1, <3>3 DEF OrderInv
      <4>3. \A i \in 1..Len(emitted[k]), j \in 1..Len(r) : r[j].n > 0 => emitted[k][i] < r[j].n
        BY <4>1, <3>2, <3>3 DEF OrderInv
      <4>4. \A i \in 1..Len(r), j \in 1..Len(wire[k]) : wire[k][j].n > 0 => r[i].n < wire[k][j].n
        BY <4>1, <3>2, <3>3 DEF OrderInv
      <4>5. \A i \in 1..Len(r) : r[i].n <= sent[k]
        BY <4>1, <3>2, <3>3 DEF OrderInv
      <4>6. QED
        BY <4>1, <4>2, <4>3, <4>4, <4>5, <1>1 DEF OrderInv
    <3>7. TerminalInv(k)'
      <4>1. \A i \in 1..Len(r) : Terminal(r[i]) =>
               /\ i \in 1..Len(q) /\ Terminal(q[i]) /\ r[i] = q[i]
               /\ \A j \in 1..Len(r) : i < j => j = Len(q) + 1 \/ (j \in 1..Len(q) /\ r[j] = q[j])
        BY <3>1, <3>2, <3>3
      <4>2. QED
        BY <4>1, <3>1, <1>1, <1>0 DEF TurnInv, TerminalInv
    <3>8. WholeInv(k)'
      <4>1. ASSUME k \notin lost, turn[k] \in Running,
                   NEW t \in Len(emitted[k])+1..sent[k]
            PROVE  Queued(k, t)' \/ CutOff(k, t)'
        <5>1. Queued(k, t) \/ OnWire(k, t)
          BY <4>1, <2>2, <1>0 DEF TurnInv, WholeInv
        <5>2. CASE Queued(k, t)
          <6>1. PICK i \in 1..Len(q) : q[i].n = t
            BY <5>2 DEF Queued
          <6>2. i \in 1..Len(r) /\ r[i].n = t
            BY <6>1, <3>1
          <6>3. QED
            BY <6>2 DEF Queued
        <5>3. CASE OnWire(k, t)
          <6>1. PICK j \in 1..Len(wire[k]) : wire[k][j].n = t
            BY <5>3 DEF OnWire
          <6>2. t > 0 /\ t \in Int
            BY <1>0, TurnTypes
          <6>3. \A i \in 1..Len(q) : q[i].n < t /\ ~Terminal(q[i])
            BY <6>1, <6>2, <1>0 DEF TurnInv, OrderInv, TerminalInv
          <6>4. CutOff(k, t)'
            BY <6>2, <6>3, <3>2, <3>3 DEF CutOff
          <6>5. QED
            BY <6>4
        <5>4. QED
          BY <5>1, <5>2, <5>3
      <4>2. QED
        BY <4>1, <1>1, <1>0 DEF TurnInv, WholeInv
    <3>9. QED
      BY <3>4, <3>5, <3>6, <3>7, <3>8 DEF TurnInv
  <2>3. QED
    BY <2>1, <2>2
<1>6. QED
  BY <1>3, <1>4, <1>5, SameKeeps DEF BusInv

-----------------------------------------------------------------------------
\* A message that leaves the wire and reaches no queue.
LEMMA VanishKeeps ==
    ASSUME NEW k \in Turns, TypeOK, TurnInv(k), wire[k] # <<>>, wire'[k] = Tail(wire[k]),
           turn' = turn, queue'[k] = queue[k], emitted'[k] = emitted[k], sent' = sent,
           open' = open, answered' = answered,
           k \in lost' \/ (k \notin open /\ lost' = lost)
    PROVE  TurnInv(k)'
<1> DEFINE w == wire[k]
           v == wire'[k]
<1>1. /\ Len(w) \in Nat /\ Len(v) = Len(w) - 1
      /\ \A i \in 1..Len(v) : i + 1 \in 1..Len(w) /\ v[i] = w[i + 1]
  BY TurnTypes, TailFacts
<1>2. Numbered(queue[k])' /\ Numbered(wire[k])'
  BY <1>1 DEF TurnInv, Numbered
<1>3. SlotInv(k)'
  BY DEF TurnInv, SlotInv
<1>4. OrderInv(k)'
  <2>1. \A i, j \in 1..Len(v) : i < j /\ v[j].n > 0 => v[i].n < v[j].n
    BY <1>1 DEF TurnInv, OrderInv
  <2>2. \A i \in 1..Len(emitted[k]), j \in 1..Len(v) : v[j].n > 0 => emitted[k][i] < v[j].n
    BY <1>1 DEF TurnInv, OrderInv
  <2>3. \A i \in 1..Len(queue[k]), j \in 1..Len(v) : v[j].n > 0 => queue[k][i].n < v[j].n
    BY <1>1 DEF TurnInv, OrderInv
  <2>4. \A i \in 1..Len(v) : v[i].n <= sent[k]
    BY <1>1 DEF TurnInv, OrderInv
  <2>5. QED
    BY <2>1, <2>2, <2>3, <2>4 DEF TurnInv, OrderInv
<1>5. TerminalInv(k)'
  <2>1. \A i \in 1..Len(v) : Terminal(v[i]) =>
           /\ i = Len(v) /\ k \in answered
           /\ v[i].type = "final" => v[i].n = sent[k]
    BY <1>1 DEF TurnInv, TerminalInv
  <2>2. \A i \in 1..Len(queue[k]) : ~Terminal(queue[k][i])
    BY DEF TurnInv, TerminalInv
  <2>3. QED
    BY <2>1, <2>2 DEF TurnInv, TerminalInv
<1>6. WholeInv(k)'
  BY DEF TurnInv, WholeInv, Queued, CutOff
<1>7. QED
  BY <1>2, <1>3, <1>4, <1>5, <1>6 DEF TurnInv

LEMMA WireTypes ==
    ASSUME TypeOK, NEW k \in Turns, wire[k] # <<>>, wire' = [wire EXCEPT ![k] = Tail(@)]
    PROVE  wire' \in [Turns -> Seq(Messages)] /\ wire'[k] = Tail(wire[k])
  BY TailFacts DEF TypeOK

LEMMA LoseKeeps ==
    ASSUME BusInv, NEW k \in Turns, Lose(k)
    PROVE  BusInv'
<1> USE DEF Lose, backend
<1>1. TypeOK'
  BY WireTypes DEF BusInv, TypeOK
<1>2. \A j \in Turns \ {k} : Same(j)
  BY DEF BusInv, TypeOK, Same
<1>3. TurnInv(k)'
  BY WireTypes, VanishKeeps DEF BusInv
<1>4. QED
  BY <1>1, <1>2, <1>3, SameKeeps DEF BusInv

\* The next message of the wire goes to the end of the queue.
LEMMA ArriveKeeps ==
    ASSUME NEW k \in Turns, TypeOK, TurnInv(k), wire[k] # <<>>, wire'[k] = Tail(wire[k]),
           k \in open, queue'[k] = Append(queue[k], Head(wire[k])),
           turn' = turn, emitted'[k] = emitted[k], sent' = sent,
           open' = open, answered' = answered, lost' = lost
    PROVE  TurnInv(k)'
<1> DEFINE w == wire[k]
           v == wire'[k]
           q == queue[k]
           r == queue'[k]
           e == emitted[k]
           m == w[1]
<1>1. /\ Len(w) \in Nat /\ 1 \in 1..Len(w) /\ Len(v) = Len(w) - 1
      /\ \A i \in 1..Len(v) : i + 1 \in 1..Len(w) /\ v[i] = w[i + 1]
      /\ Head(w) = m /\ m \in Messages
  BY TurnTypes, TailFacts
<1>2. /\ Len(q) \in Nat /\ Len(r) = Len(q) + 1 /\ r # <<>>
      /\ \A i \in 1..Len(q) : r[i] = q[i]
      /\ r[Len(q) + 1] = m
  <2>1. m \in Messages \cup {Closed} /\ q \in Seq(Messages \cup {Closed}) /\ r = Append(q, m)
    BY <1>1, TurnTypes
  <2>2. /\ Append(q, m) # <<>> /\ Len(Append(q, m)) = Len(q) + 1
        /\ \A i \in 1..Len(q) : Append(q, m)[i] = q[i]
        /\ Append(q, m)[Len(q) + 1] = m
    BY <2>1, AppendFacts
  <2>3. Len(q) \in Nat
    BY TurnTypes
  <2>4. QED
    BY <2>1, <2>2, <2>3
<1>3. m \in Messages /\ m.n \in Nat /\ m # Closed
  BY <1>1, TurnTypes DEF Messages, Closed, Msg
<1>4. \A i \in 1..Len(r) : (i = Len(q) + 1 /\ r[i] = m) \/ (i \in 1..Len(q) /\ r[i] = q[i])
  BY <1>2
<1>5. Numbered(queue[k])' /\ Numbered(wire[k])'
  BY <1>1, <1>4 DEF TurnInv, Numbered
<1>6. SlotInv(k)'
  BY <1>2, <1>3, <1>4 DEF TurnInv, SlotInv
<1>7. OrderInv(k)'
  <2> USE DEF TurnInv, OrderInv
  <2>1. \A i, j \in 1..Len(r) : i < j /\ r[j].n > 0 => r[i].n < r[j].n
    BY <1>1, <1>2, <1>4
  <2>2. \A i, j \in 1..Len(v) : i < j /\ v[j].n > 0 => v[i].n < v[j].n
    BY <1>1
  <2>3. \A i \in 1..Len(e), j \in 1..Len(r) : r[j].n > 0 => e[i] < r[j].n
    BY <1>1, <1>4
  <2>4. \A i \in 1..Len(e), j \in 1..Len(v) : v[j].n > 0 => e[i] < v[j].n
    BY <1>1
  <2>5. \A i \in 1..Len(r), j \in 1..Len(v) : v[j].n > 0 => r[i].n < v[j].n
    BY <1>1, <1>4
  <2>6. \A i \in 1..Len(r) : r[i].n <= sent[k]
    BY <1>1, <1>4
  <2>7. \A i \in 1..Len(v) : v[i].n <= sent[k]
    BY <1>1
  <2>8. QED
    BY <2>1, <2>2, <2>3, <2>4, <2>5, <2>6, <2>7
<1>8. TerminalInv(k)'
  <2>1. \A i \in 1..Len(w) : Terminal(w[i]) =>
           /\ i = Len(w) /\ k \in answered
           /\ w[i].type = "final" => w[i].n = sent[k]
    BY DEF TurnInv, TerminalInv
  <2>2. \A i \in 1..Len(q) : ~Terminal(q[i])
    BY DEF TurnInv, TerminalInv
  <2>3. Terminal(m) => /\ Len(w) = 1 /\ k \in answered
                       /\ m.type = "final" => m.n = sent[k]
    BY <2>1, <1>1
  <2>4. Terminal(m) => v = <<>>
    <3>1. v \in Seq(Messages)
      BY TurnTypes, TailFacts
    <3>2. Terminal(m) => Len(v) = 0
      BY <2>3, <1>1
    <3>3. QED
      BY <3>1, <3>2, NoLength
  <2>5. \A i \in 1..Len(v) : Terminal(v[i]) =>
           /\ i = Len(v) /\ k \in answered
           /\ v[i].type = "final" => v[i].n = sent[k]
    BY <2>1, <1>1
  <2>6. \A i \in 1..Len(r) : Terminal(r[i]) =>
           /\ v = <<>> /\ k \in answered
           /\ \A j \in 1..Len(r) : i < j => r[j] = Closed
           /\ r[i].type = "final" => r[i].n = sent[k]
    BY <1>2, <1>4, <2>2, <2>3, <2>4
  <2>7. QED
    BY <2>5, <2>6 DEF TurnInv, TerminalInv
<1>9. WholeInv(k)'
  <2>1. ASSUME k \notin lost, turn[k] \in Running, NEW t \in Len(e)+1..sent[k]
        PROVE  Queued(k, t)' \/ OnWire(k, t)'
    <3>1. CASE Queued(k, t)
      <4>1. PICK i \in 1..Len(q) : q[i].n = t
        BY <3>1 DEF Queued
      <4>2. i \in 1..Len(r) /\ r[i].n = t
        BY <4>1, <1>2
      <4>3. QED
        BY <4>2 DEF Queued
    <3>2. CASE OnWire(k, t)
      <4>1. PICK i \in 1..Len(w) : w[i].n = t
        BY <3>2 DEF OnWire
      <4>2. CASE i = 1
        BY <4>1, <4>2, <1>2 DEF Queued
      <4>3. CASE i # 1
        <5>1. i - 1 \in 1..Len(v) /\ v[i - 1].n = t
          BY <4>1, <4>3, <1>1
        <5>2. QED
          BY <5>1 DEF OnWire
      <4>4. QED
        BY <4>2, <4>3
    <3>3. QED
      BY <3>1, <3>2, <2>1 DEF TurnInv, WholeInv
  <2>2. QED
    BY <2>1 DEF TurnInv, WholeInv
<1>10. QED
  BY <1>5, <1>6, <1>7, <1>8, <1>9 DEF TurnInv

LEMMA DeliverKeeps ==
    ASSUME BusInv, NEW k \in Turns, Deliver(k)
    PROVE  BusInv'
<1> USE DEF Deliver, Receive, Enqueue, backend
<1>0. TypeOK /\ TurnInv(k)
  BY DEF BusInv
<1>1. wire' \in [Turns -> Seq(Messages)] /\ wire'[k] = Tail(wire[k])
  BY <1>0, WireTypes
<1>2. Append(queue[k], Head(wire[k])) \in Seq(Messages \cup {Closed})
  <2>1. Head(wire[k]) \in Messages \cup {Closed}
    BY <1>0, TurnTypes, TailFacts
  <2>2. QED
    BY <2>1, <1>0, TurnTypes, AppendFacts
<1>3. TypeOK'
  BY <1>0, <1>1, <1>2 DEF TypeOK
<1>4. \A j \in Turns \ {k} : Same(j)
  BY <1>0 DEF TypeOK, Same
<1>5. TurnInv(k)'
  <2>1. CASE CallOf(k) \in subscribed /\ k \in open
    <3>1. queue'[k] = Append(queue[k], Head(wire[k])) /\ lost' = lost
      BY <2>1, <1>0 DEF TypeOK
    <3>2. QED
      BY <3>1, <2>1, <1>1, <1>0, ArriveKeeps
  <2>2. CASE ~(CallOf(k) \in subscribed /\ k \in open)
    <3>1. queue'[k] = queue[k] /\ (k \in lost' \/ (k \notin open /\ lost' = lost))
      BY <2>2
    <3>2. QED
      BY <3>1, <1>1, <1>0, VanishKeeps
  <2>3. QED
    BY <2>1, <2>2
<1>6. QED
  BY <1>3, <1>4, <1>5, SameKeeps DEF BusInv

LEMMA BackendKeeps ==
    ASSUME BusInv, NEW k \in Turns, BackendSends(k)
    PROVE  BusInv'
<1>0. TypeOK /\ TurnInv(k)
  BY DEF BusInv
<1> DEFINE w == wire[k]
           v == wire'[k]
           q == queue[k]
           e == emitted[k]
<1>1. PICK m \in {Msg("tool", 0), Msg("end", 0), Msg("error", 0),
                  Msg("chunk", sent[k] + 1), Msg("final", sent[k] + 1)} :
          /\ m.n <= MaxTexts
          /\ wire' = [wire EXCEPT ![k] = Append(@, m)]
          /\ sent' = IF m.n > 0 THEN [sent EXCEPT ![k] = @ + 1] ELSE sent
          /\ asked' = IF m.type = "tool" THEN asked \cup {k} ELSE asked
          /\ answered' = IF m.type \in {"final", "end", "error"} THEN answered \cup {k}
                         ELSE answered
  BY DEF BackendSends
<1>2. /\ k \notin answered /\ turn[k] # "new"
      /\ UNCHANGED <<subscribed, turn, open, queue, emitted, cancel, lost>>
  BY DEF BackendSends
<1>3. /\ m \in Messages /\ m.n \in Nat
      /\ HasText(m) <=> m.n > 0
      /\ m.n > 0 => m.n = sent[k] + 1
      /\ m.type = "final" => m.n > 0
      /\ Terminal(m) <=> m.type \in {"final", "end", "error"}
  <2>1. sent[k] \in Nat /\ MaxTexts \in Nat
    BY <1>0, TurnTypes
  <2>2. QED
    BY <2>1, <1>1 DEF Messages, Msg, HasText, Terminal
<1>4. /\ v = Append(w, m) /\ v \in Seq(Messages) /\ Len(w) \in Nat /\ Len(v) = Len(w) + 1
      /\ \A i \in 1..Len(w) : v[i] = w[i]
      /\ v[Len(w) + 1] = m
  <2>1. w \in Seq(Messages) /\ v = Append(w, m) /\ Len(w) \in Nat
    BY <1>0, <1>1, TurnTypes DEF TypeOK
  <2>2. /\ Append(w, m) \in Seq(Messages) /\ Len(Append(w, m)) = Len(w) + 1
        /\ \A i \in 1..Len(w) : Append(w, m)[i] = w[i]
        /\ Append(w, m)[Len(w) + 1] = m
    BY <2>1, <1>3, AppendFacts
  <2>3. QED
    BY <2>1, <2>2
<1>5. /\ sent'[k] \in 0..MaxTexts
      /\ sent'[k] = IF m.n > 0 THEN sent[k] + 1 ELSE sent[k]
      /\ sent[k] \in Nat
  BY <1>0, <1>1, <1>3, TurnTypes DEF TypeOK
<1>6. TypeOK'
  <2>1. wire' \in [Turns -> Seq(Messages)]
    BY <1>0, <1>1, <1>4 DEF TypeOK
  <2>2. sent' \in [Turns -> 0..MaxTexts]
    BY <1>0, <1>1, <1>5 DEF TypeOK
  <2>3. asked' \subseteq Turns /\ answered' \subseteq Turns
    BY <1>0, <1>1 DEF TypeOK
  <2>4. QED
    BY <1>0, <1>2, <2>1, <2>2, <2>3 DEF TypeOK
<1>7. \A j \in Turns \ {k} : Same(j)
  BY <1>0, <1>1, <1>2 DEF TypeOK, Same
<1>8. TurnInv(k)'
  <2>1. \A i \in 1..Len(v) : (i = Len(w) + 1 /\ v[i] = m) \/ (i \in 1..Len(w) /\ v[i] = w[i])
    BY <1>4
  <2>2. Numbered(queue[k])' /\ Numbered(wire[k])'
    BY <2>1, <1>2, <1>3, <1>0 DEF TurnInv, Numbered
  <2>3. SlotInv(k)'
    BY <1>2, <1>0 DEF TurnInv, SlotInv
  <2>4. /\ \A i \in 1..Len(q) : q[i].n \in Nat /\ q[i].n <= sent[k]
        /\ \A i \in 1..Len(w) : w[i].n \in Nat /\ w[i].n <= sent[k]
        /\ \A i \in 1..Len(e) : e[i] \in Nat /\ e[i] <= sent[k]
    BY <1>0, TurnTypes DEF TurnInv, OrderInv
  <2>5. OrderInv(k)'
    <3>1. OrderInv(k)
      BY <1>0 DEF TurnInv
    <3>2. \A j \in 1..Len(v) :
             \/ j = Len(w) + 1 /\ (v[j].n > 0 => v[j].n = sent[k] + 1)
             \/ j \in 1..Len(w) /\ v[j] = w[j]
      BY <2>1, <1>3
    <3>3. /\ \A i, j \in 1..Len(w) : i < j /\ w[j].n > 0 => w[i].n < w[j].n
          /\ \A i \in 1..Len(e), j \in 1..Len(w) : w[j].n > 0 => e[i] < w[j].n
          /\ \A i \in 1..Len(q), j \in 1..Len(w) : w[j].n > 0 => q[i].n < w[j].n
      BY <3>1 DEF OrderInv
    <3>4. ASSUME NEW i \in 1..Len(v), NEW j \in 1..Len(v), i < j, v[j].n > 0
          PROVE  v[i].n < v[j].n
      <4>1. i \in 1..Len(w) /\ v[i] = w[i]
        BY <3>4, <3>2, <1>4
      <4>2. CASE j \in 1..Len(w) /\ v[j] = w[j]
        BY <4>1, <4>2, <3>4, <3>3
      <4>3. CASE v[j].n = sent[k] + 1
        <5>1. w[i].n \in Nat /\ w[i].n <= sent[k]
          BY <4>1, <2>4
        <5>2. w[i].n < sent[k] + 1
          BY <5>1, <1>5
        <5>3. QED
          BY <5>2, <4>1, <4>3
      <4>4. QED
        BY <4>2, <4>3, <3>4, <3>2
    <3>5. ASSUME NEW i \in 1..Len(e), NEW j \in 1..Len(v), v[j].n > 0
          PROVE  e[i] < v[j].n
      <4>1. CASE j \in 1..Len(w) /\ v[j] = w[j]
        BY <4>1, <3>5, <3>3
      <4>2. CASE v[j].n = sent[k] + 1
        <5>1. e[i] < sent[k] + 1
          BY <2>4, <1>5
        <5>2. QED
          BY <5>1, <4>2
      <4>3. QED
        BY <4>1, <4>2, <3>5, <3>2
    <3>6. ASSUME NEW i \in 1..Len(q), NEW j \in 1..Len(v), v[j].n > 0
          PROVE  q[i].n < v[j].n
      <4>1. CASE j \in 1..Len(w) /\ v[j] = w[j]
        BY <4>1, <3>6, <3>3
      <4>2. CASE v[j].n = sent[k] + 1
        <5>1. q[i].n < sent[k] + 1
          BY <2>4, <1>5
        <5>2. QED
          BY <5>1, <4>2
      <4>3. QED
        BY <4>1, <4>2, <3>6, <3>2
    <3>7. sent[k] <= sent'[k] /\ m.n <= sent'[k] /\ sent'[k] \in Nat
      BY <1>3, <1>5, <1>0, TurnTypes
    <3>8. /\ \A i \in 1..Len(v) : v[i].n <= sent'[k]
          /\ \A i \in 1..Len(e) : e[i] <= sent'[k]
          /\ \A i \in 1..Len(q) : q[i].n <= sent'[k]
      <4>1. \A i \in 1..Len(v) : v[i].n <= sent'[k]
        <5>1. \A i \in 1..Len(w) : w[i].n <= sent'[k]
          BY <2>4, <3>7, <1>5
        <5>2. QED
          BY <5>1, <2>1, <3>7
      <4>2. \A i \in 1..Len(e) : e[i] <= sent'[k]
        BY <2>4, <3>7, <1>5
      <4>3. \A i \in 1..Len(q) : q[i].n <= sent'[k]
        BY <2>4, <3>7, <1>5
      <4>4. QED
        BY <4>1, <4>2, <4>3
    <3>9. QED
      BY <3>1, <3>4, <3>5, <3>6, <3>8, <1>2 DEF OrderInv
  <2>6. /\ \A i \in 1..Len(w) : ~Terminal(w[i])
        /\ \A i \in 1..Len(q) : ~Terminal(q[i])
        /\ turn[k] # "answered"
    BY <1>2, <1>0 DEF TurnInv, TerminalInv
  <2>7. TerminalInv(k)'
    <3>1. \A i \in 1..Len(v) : Terminal(v[i]) =>
             /\ i = Len(v) /\ k \in answered'
             /\ v[i].type = "final" => v[i].n = sent'[k]
      BY <2>1, <2>6, <1>1, <1>3, <1>4, <1>5
    <3>2. QED
      BY <3>1, <2>6, <1>2 DEF TerminalInv
  <2>8. WholeInv(k)'
    <3>1. ASSUME k \notin lost, turn[k] \in Running, NEW t \in Len(e)+1..sent'[k]
          PROVE  Queued(k, t)' \/ (IF k \in open THEN OnWire(k, t)' ELSE CutOff(k, t)')
      <4>0. Len(e) \in Nat
        BY <1>0, TurnTypes
      <4>1. CASE t <= sent[k]
        <5>1. Queued(k, t) \/ (IF k \in open THEN OnWire(k, t) ELSE CutOff(k, t))
          BY <3>1, <4>0, <4>1, <1>5, <1>0 DEF TurnInv, WholeInv
        <5>2. OnWire(k, t) => OnWire(k, t)'
          BY <1>4 DEF OnWire
        <5>3. QED
          BY <5>1, <5>2, <1>2 DEF Queued, CutOff
      <4>2. CASE ~(t <= sent[k])
        <5>1. m.n = t /\ t = sent[k] + 1
          BY <3>1, <4>0, <4>2, <1>3, <1>5
        <5>2. OnWire(k, t)'
          BY <5>1, <1>4 DEF OnWire
        <5>3. CutOff(k, t)'
          BY <5>1, <2>4, <2>6, <1>2, <1>5 DEF CutOff
        <5>4. QED
          BY <5>2, <5>3
      <4>3. QED
        BY <4>1, <4>2
    <3>2. QED
      BY <3>1, <2>6, <1>2, <1>0 DEF TurnInv, WholeInv
  <2>9. QED
    BY <2>2, <2>3, <2>5, <2>7, <2>8 DEF TurnInv
<1>9. QED
  BY <1>6, <1>7, <1>8, SameKeeps DEF BusInv

-----------------------------------------------------------------------------
\* In a turn that lost nothing, the first text of the queue is the next of the answer.
LEMMA NextText ==
    ASSUME NEW k \in Turns, TypeOK, TurnInv(k), turn[k] \in Running, k \notin lost,
           queue[k] # <<>>, queue[k][1].n > 0
    PROVE  queue[k][1].n = Len(emitted[k]) + 1
<1> DEFINE q == queue[k]
           w == wire[k]
           e == emitted[k]
           t == Len(e) + 1
<1>1. /\ Len(q) \in Nat /\ 1 \in 1..Len(q) /\ q[1].n \in Nat
      /\ Len(e) \in Nat /\ sent[k] \in Nat
  BY TurnTypes, TailFacts
<1>2. q[1].n >= t
  <2>1. CASE Len(e) = 0
    BY <2>1, <1>1
  <2>2. CASE Len(e) # 0
    <3>1. Len(e) \in 1..Len(e) /\ e[Len(e)] = Len(e)
      BY <2>2, <1>1 DEF TurnInv, WholeInv
    <3>2. e[Len(e)] < q[1].n
      BY <3>1, <1>1 DEF TurnInv, OrderInv
    <3>3. QED
      BY <3>1, <3>2, <1>1
  <2>3. QED
    BY <2>1, <2>2
<1>3. t \in Len(e)+1..sent[k]
  <2>1. q[1].n <= sent[k]
    BY <1>1 DEF TurnInv, OrderInv
  <2>2. QED
    BY <2>1, <1>1, <1>2
<1>4. Queued(k, t) \/ OnWire(k, t) \/ CutOff(k, t)
  BY <1>3 DEF TurnInv, WholeInv
<1>5. CASE Queued(k, t)
  <2>1. PICK j \in 1..Len(q) : q[j].n = t
    BY <1>5 DEF Queued
  <2>2. CASE j = 1
    BY <2>1, <2>2
  <2>3. CASE j # 1
    <3>1. 1 < j /\ q[j].n > 0
      BY <2>1, <2>3, <1>1
    <3>2. q[1].n < q[j].n
      BY <3>1, <1>1 DEF TurnInv, OrderInv
    <3>3. QED
      BY <3>2, <2>1, <1>1, <1>2
  <2>4. QED
    BY <2>2, <2>3
<1>6. CASE OnWire(k, t)
  <2>1. PICK j \in 1..Len(w) : w[j].n = t
    BY <1>6 DEF OnWire
  <2>2. w[j].n > 0
    BY <2>1, <1>1
  <2>3. q[1].n < w[j].n
    BY <2>2, <1>1 DEF TurnInv, OrderInv
  <2>4. QED
    BY <2>3, <2>1, <1>1, <1>2
<1>7. CASE CutOff(k, t)
  <2>1. q[1].n < t
    BY <1>7, <1>1 DEF CutOff
  <2>2. QED
    BY <2>1, <1>1, <1>2
<1>8. QED
  BY <1>4, <1>5, <1>6, <1>7

\* What emitting the first text of the queue does to what was emitted.
LEMMA Emitted ==
    ASSUME NEW k \in Turns, TypeOK, TurnInv(k), turn[k] \in Running,
           queue[k] # <<>>, HasText(queue[k][1]),
           emitted'[k] = Append(emitted[k], queue[k][1].n)
    PROVE  /\ emitted'[k] \in Seq(1..MaxTexts)
           /\ Len(emitted[k]) \in Nat /\ Len(emitted'[k]) = Len(emitted[k]) + 1
           /\ \A i \in 1..Len(emitted'[k]) :
                 \/ i \in 1..Len(emitted[k]) /\ emitted'[k][i] = emitted[k][i]
                 \/ i = Len(emitted[k]) + 1 /\ emitted'[k][i] = queue[k][1].n
           /\ \A i, j \in 1..Len(emitted'[k]) : i < j => emitted'[k][i] < emitted'[k][j]
           /\ \A i \in 1..Len(emitted'[k]) : emitted'[k][i] <= sent[k]
           /\ k \notin lost => \A i \in 1..Len(emitted'[k]) : emitted'[k][i] = i
<1> DEFINE q == queue[k]
           e == emitted[k]
           f == emitted'[k]
           n == q[1].n
<1>1. /\ 1 \in 1..Len(q) /\ n \in Nat /\ Len(e) \in Nat /\ e \in Seq(1..MaxTexts)
      /\ sent[k] \in Nat /\ sent[k] <= MaxTexts /\ MaxTexts \in Nat
      /\ \A i \in 1..Len(e) : e[i] \in Nat
  BY TurnTypes, TailFacts
<1>2. n > 0 /\ n <= sent[k]
  BY <1>1 DEF TurnInv, Numbered, OrderInv
<1>3. n \in 1..MaxTexts
  BY <1>1, <1>2
<1>4. /\ f \in Seq(1..MaxTexts) /\ Len(f) = Len(e) + 1
      /\ \A i \in 1..Len(e) : f[i] = e[i]
      /\ f[Len(e) + 1] = n
  BY <1>1, <1>3, AppendFacts
<1>5. \A i \in 1..Len(f) : \/ i \in 1..Len(e) /\ f[i] = e[i]
                           \/ i = Len(e) + 1 /\ f[i] = n
  BY <1>1, <1>4
<1>6. \A i \in 1..Len(e) : e[i] < n /\ e[i] <= sent[k]
  BY <1>1, <1>2 DEF TurnInv, OrderInv
<1>7. ASSUME NEW i \in 1..Len(f), NEW j \in 1..Len(f), i < j
      PROVE  f[i] < f[j]
  <2>1. i \in 1..Len(e) /\ f[i] = e[i]
    BY <1>7, <1>1, <1>4
  <2>2. CASE j = Len(e) + 1
    BY <2>1, <2>2, <1>4, <1>6
  <2>3. CASE j \in 1..Len(e)
    BY <2>1, <2>3, <1>7, <1>4 DEF TurnInv, OrderInv
  <2>4. QED
    BY <2>2, <2>3, <1>5
<1>8. \A i \in 1..Len(f) : f[i] <= sent[k]
  BY <1>2, <1>5, <1>6
<1>9. ASSUME k \notin lost
      PROVE  \A i \in 1..Len(f) : f[i] = i
  <2>1. n = Len(e) + 1
    BY <1>2, <1>9, NextText
  <2>2. \A i \in 1..Len(e) : e[i] = i
    BY <1>9 DEF TurnInv, WholeInv
  <2>3. QED
    BY <2>1, <2>2, <1>5
<1>10. QED
  BY <1>1, <1>4, <1>5, <1>7, <1>8, <1>9

\* A message is taken, and the turn goes on.
LEMMA TakenKeeps ==
    ASSUME NEW k \in Turns, TypeOK, TurnInv(k), turn[k] \in Running, turn'[k] \in Running,
           queue[k] # <<>>, queue'[k] = Tail(queue[k]),
           queue[k][1] # Closed, ~Terminal(queue[k][1]),
           IF HasText(queue[k][1]) THEN emitted'[k] = Append(emitted[k], queue[k][1].n)
                                   ELSE emitted'[k] = emitted[k],
           wire'[k] = wire[k], sent' = sent, open' = open, answered' = answered, lost' = lost
    PROVE  TurnInv(k)'
<1> DEFINE q == queue[k]
           r == queue'[k]
           w == wire[k]
           e == emitted[k]
           f == emitted'[k]
<1>1. /\ Len(q) \in Nat /\ 1 \in 1..Len(q) /\ Len(r) = Len(q) - 1
      /\ \A i \in 1..Len(r) : i + 1 \in 1..Len(q) /\ r[i] = q[i + 1]
      /\ Len(e) \in Nat /\ sent[k] \in Nat
  BY TurnTypes, TailFacts
<1>2. \/ HasText(q[1]) /\ f = Append(e, q[1].n)
      \/ q[1].n = 0 /\ f = e
  <2>1. q[1].n \in Nat /\ (HasText(q[1]) <=> q[1].n > 0)
    BY <1>1, TurnTypes DEF TurnInv, Numbered
  <2>2. QED
    BY <2>1
<1>3. /\ Len(f) \in Nat /\ Len(f) >= Len(e)
      /\ \A i \in 1..Len(f) : \/ i \in 1..Len(e) /\ f[i] = e[i]
                              \/ HasText(q[1]) /\ f[i] = q[1].n
      /\ \A i, j \in 1..Len(f) : i < j => f[i] < f[j]
      /\ \A i \in 1..Len(f) : f[i] <= sent[k]
      /\ k \notin lost => \A i \in 1..Len(f) : f[i] = i
  <2>1. CASE HasText(q[1]) /\ f = Append(e, q[1].n)
    <3>1. /\ Len(e) \in Nat /\ Len(f) = Len(e) + 1
          /\ \A i \in 1..Len(f) : \/ i \in 1..Len(e) /\ f[i] = e[i]
                                  \/ i = Len(e) + 1 /\ f[i] = q[1].n
          /\ \A i, j \in 1..Len(f) : i < j => f[i] < f[j]
          /\ \A i \in 1..Len(f) : f[i] <= sent[k]
          /\ k \notin lost => \A i \in 1..Len(f) : f[i] = i
      BY <2>1, Emitted
    <3> QED
      BY <2>1, <3>1
  <2>2. CASE f = e
    BY <2>2, <1>1 DEF TurnInv, OrderInv, WholeInv
  <2>3. QED
    BY <1>2, <2>1, <2>2
<1>4. Numbered(queue[k])' /\ Numbered(wire[k])'
  BY <1>1 DEF TurnInv, Numbered
<1>5. SlotInv(k)'
  <2>1. k \in open => \A i \in 1..Len(r) : r[i] # Closed
    BY <1>1 DEF TurnInv, SlotInv
  <2>2. \A i \in 1..Len(r) : r[i] = Closed => i = Len(r)
    BY <1>1 DEF TurnInv, SlotInv
  <2>3. ASSUME k \notin open
        PROVE  r # <<>> /\ r[Len(r)] = Closed
    <3>1. q[Len(q)] = Closed
      BY <2>3 DEF TurnInv, SlotInv
    <3>2. Len(q) # 1
      BY <3>1
    <3>3. Len(r) \in 1..Len(r) /\ r # <<>>
      <4>1. Len(r) # 0
        BY <3>2, <1>1
      <4>2. r \in Seq(Messages \cup {Closed})
        BY TurnTypes, TailFacts
      <4>3. QED
        BY <4>1, <4>2, LastIndex
    <3>4. r[Len(r)] = Closed
      BY <3>1, <3>3, <1>1
    <3>5. QED
      BY <3>3, <3>4
  <2>4. QED
    BY <2>1, <2>2, <2>3 DEF SlotInv, Running
<1>6. OrderInv(k)'
  <2>1. ASSUME NEW i \in 1..Len(r), NEW j \in 1..Len(r), i < j, r[j].n > 0
        PROVE  r[i].n < r[j].n
    <3>1. /\ i + 1 \in 1..Len(q) /\ j + 1 \in 1..Len(q) /\ i + 1 < j + 1
          /\ r[i] = q[i + 1] /\ r[j] = q[j + 1]
      BY <2>1, <1>1
    <3>2. QED
      BY <3>1, <2>1 DEF TurnInv, OrderInv
  <2>2. ASSUME NEW i \in 1..Len(f), NEW j \in 1..Len(r), r[j].n > 0
        PROVE  f[i] < r[j].n
    <3>1. j + 1 \in 1..Len(q) /\ r[j] = q[j + 1] /\ 1 < j + 1
      BY <1>1
    <3>2. q[1].n < q[j + 1].n
      BY <3>1, <2>2, <1>1 DEF TurnInv, OrderInv
    <3>3. i \in 1..Len(e) => e[i] < q[j + 1].n
      BY <3>1, <2>2 DEF TurnInv, OrderInv
    <3>4. QED
      BY <3>1, <3>2, <3>3, <1>3
  <2>3. ASSUME NEW i \in 1..Len(f), NEW j \in 1..Len(w), w[j].n > 0
        PROVE  f[i] < w[j].n
    <3>1. q[1].n < w[j].n
      BY <2>3, <1>1 DEF TurnInv, OrderInv
    <3>2. i \in 1..Len(e) => e[i] < w[j].n
      BY <2>3 DEF TurnInv, OrderInv
    <3>3. QED
      BY <3>1, <3>2, <1>3
  <2>4. \A i \in 1..Len(r), j \in 1..Len(w) : w[j].n > 0 => r[i].n < w[j].n
    BY <1>1 DEF TurnInv, OrderInv
  <2>5. \A i \in 1..Len(r) : r[i].n <= sent[k]
    BY <1>1 DEF TurnInv, OrderInv
  <2>6. QED
    BY <2>1, <2>2, <2>3, <2>4, <2>5, <1>3 DEF TurnInv, OrderInv
<1>7. TerminalInv(k)'
  <2>1. ASSUME NEW i \in 1..Len(r), Terminal(r[i])
        PROVE  /\ w = <<>> /\ k \in answered
               /\ \A j \in 1..Len(r) : i < j => r[j] = Closed
               /\ r[i].type = "final" => r[i].n = sent[k]
    <3>1. i + 1 \in 1..Len(q) /\ r[i] = q[i + 1]
      BY <1>1
    <3>2. /\ w = <<>> /\ k \in answered
          /\ \A j \in 1..Len(q) : i + 1 < j => q[j] = Closed
          /\ r[i].type = "final" => r[i].n = sent[k]
      BY <3>1, <2>1 DEF TurnInv, TerminalInv
    <3>3. ASSUME NEW j \in 1..Len(r), i < j
          PROVE  r[j] = Closed
      <4>1. j + 1 \in 1..Len(q) /\ i + 1 < j + 1 /\ r[j] = q[j + 1]
        BY <3>3, <1>1
      <4>2. QED
        BY <4>1, <3>2
    <3>4. QED
      BY <3>2, <3>3
  <2>2. QED
    BY <2>1 DEF TurnInv, TerminalInv, Running
<1>8. WholeInv(k)'
  <2>1. ASSUME k \notin lost, NEW t \in Len(f)+1..sent[k]
        PROVE  Queued(k, t)' \/ (IF k \in open THEN OnWire(k, t) ELSE CutOff(k, t)')
    <3>1. t \in Len(e)+1..sent[k] /\ t > 0
      BY <1>1, <1>3
    <3>2. q[1].n # t
      <4>1. CASE q[1].n = 0
        BY <4>1, <3>1
      <4>2. CASE HasText(q[1]) /\ f = Append(e, q[1].n)
        <5>1. Len(f) = Len(e) + 1 /\ q[1].n > 0
          BY <4>2, <1>1, Emitted DEF TurnInv, Numbered
        <5>2. q[1].n = Len(e) + 1
          BY <5>1, <2>1, NextText
        <5>3. QED
          BY <5>1, <5>2, <1>1
      <4>3. QED
        BY <4>1, <4>2, <1>2
    <3>3. Queued(k, t) => Queued(k, t)'
      <4>1. ASSUME NEW i \in 1..Len(q), q[i].n = t
            PROVE  Queued(k, t)'
        <5>1. i - 1 \in 1..Len(r) /\ r[i - 1].n = t
          BY <4>1, <3>2, <1>1
        <5>2. QED
          BY <5>1 DEF Queued
      <4>2. QED
        BY <4>1 DEF Queued
    <3>4. CutOff(k, t) => CutOff(k, t)'
      BY <1>1 DEF CutOff
    <3>5. QED
      BY <2>1, <3>1, <3>3, <3>4 DEF TurnInv, WholeInv
  <2>2. \A t \in Len(f)+1..sent[k] : OnWire(k, t)' <=> OnWire(k, t)
    BY DEF OnWire
  <2>3. QED
    BY <2>1, <2>2, <1>3 DEF WholeInv, Running
<1>9. QED
  BY <1>4, <1>5, <1>6, <1>7, <1>8 DEF TurnInv

\* The terminal message of an answer is taken, a final one with its text.
LEMMA AnsweredKeeps ==
    ASSUME NEW k \in Turns, TypeOK, TurnInv(k), turn[k] \in Running, turn'[k] = "answered",
           queue[k] # <<>>, queue[k][1].type \in {"final", "end"},
           queue'[k] = <<>>, k \notin open',
           IF queue[k][1].type = "final" THEN emitted'[k] = Append(emitted[k], queue[k][1].n)
                                         ELSE emitted'[k] = emitted[k],
           wire'[k] = wire[k], sent' = sent, answered' = answered, lost' = lost
    PROVE  TurnInv(k)'
<1> DEFINE q == queue[k]
           w == wire[k]
           e == emitted[k]
           f == emitted'[k]
<1>1. /\ Len(q) \in Nat /\ 1 \in 1..Len(q) /\ q[1].n \in Nat
      /\ Len(e) \in Nat /\ sent[k] \in Nat
      /\ \A i \in 1..Len(e) : e[i] \in Nat
  BY TurnTypes, TailFacts
<1>2. /\ w = <<>> /\ k \in answered
      /\ \A j \in 1..Len(q) : 1 < j => q[j] = Closed
      /\ q[1].type = "final" => q[1].n = sent[k]
  BY <1>1 DEF TurnInv, TerminalInv, Terminal
<1>3. HasText(q[1]) <=> q[1].type = "final"
  BY DEF HasText
<1>4. /\ Len(f) \in Nat
      /\ \A i, j \in 1..Len(f) : i < j => f[i] < f[j]
      /\ \A i \in 1..Len(f) : f[i] <= sent[k]
      /\ k \notin lost => \A i \in 1..Len(f) : f[i] = i
  <2>1. CASE q[1].type = "final"
    BY <2>1, <1>1, <1>3, Emitted
  <2>2. CASE q[1].type # "final"
    BY <2>2, <1>1 DEF TurnInv, OrderInv, WholeInv
  <2>3. QED
    BY <2>1, <2>2
<1>5. ASSUME k \notin lost
      PROVE  Len(f) = sent[k]
  <2>1. CASE q[1].type = "final"
    <3>1. q[1].n > 0
      BY <2>1, <1>1, <1>3 DEF TurnInv, Numbered
    <3>2. q[1].n = Len(e) + 1
      BY <3>1, <1>5, NextText
    <3>3. Len(f) = Len(e) + 1
      BY <2>1, <1>3, Emitted
    <3>4. QED
      BY <3>2, <3>3, <2>1, <1>2
  <2>2. CASE q[1].type = "end"
    <3>1. \A t \in Len(e)+1..sent[k] : ~Queued(k, t) /\ ~CutOff(k, t) /\ ~OnWire(k, t)
      <4>1. q[1].n = 0 /\ Closed.n = 0
        BY <2>2, <1>1, <1>3 DEF TurnInv, Numbered, Closed, Msg
      <4>2. \A j \in 1..Len(q) : q[j].n = 0
        BY <4>1, <1>1, <1>2
      <4>3. Terminal(q[1])
        BY <2>2 DEF Terminal
      <4>4. Len(w) = 0
        BY <1>2
      <4>5. QED
        BY <4>2, <4>3, <4>4, <1>1 DEF Queued, CutOff, OnWire
    <3>2. ~(Len(e) + 1 \in Len(e)+1..sent[k])
      BY <3>1, <1>5 DEF TurnInv, WholeInv
    <3>3. Len(e) >= sent[k]
      BY <3>2, <1>1
    <3>4. Len(e) <= sent[k]
      <4>1. CASE Len(e) = 0
        BY <4>1, <1>1
      <4>2. CASE Len(e) # 0
        <5>1. Len(e) \in 1..Len(e)
          BY <4>2, <1>1
        <5>2. e[Len(e)] = Len(e) /\ e[Len(e)] <= sent[k]
          BY <5>1, <1>5 DEF TurnInv, WholeInv, OrderInv
        <5>3. QED
          BY <5>2
      <4>3. QED
        BY <4>1, <4>2
    <3>5. f = e
      BY <2>2
    <3>6. QED
      BY <3>3, <3>4, <3>5, <1>1
  <2>3. QED
    BY <2>1, <2>2
<1>6. Numbered(queue[k])' /\ Numbered(wire[k])'
  BY DEF TurnInv, Numbered
<1>7. SlotInv(k)'
  BY DEF SlotInv, Running
<1>8. OrderInv(k)'
  BY <1>2, <1>4 DEF TurnInv, OrderInv
<1>9. TerminalInv(k)'
  BY <1>2 DEF TerminalInv
<1>10. WholeInv(k)'
  BY <1>4, <1>5 DEF WholeInv, Running
<1>11. QED
  BY <1>6, <1>7, <1>8, <1>9, <1>10 DEF TurnInv

LEMMA CollectKeeps ==
    ASSUME BusInv, NEW k \in Turns, Collect(k)
    PROVE  BusInv'
<1>0. TypeOK /\ TurnInv(k)
  BY DEF BusInv
<1> DEFINE q == queue[k]
           m == q[1]
<1>1. /\ turn[k] = "collect" /\ turn[k] \in Running /\ q # <<>>
      /\ UNCHANGED <<subscribed, cancel, wire, backend, lost>>
      /\ UNCHANGED <<wire, sent, asked, answered>>
  BY DEF Collect, Running, backend
<1>2. /\ Head(q) = m /\ 1 \in 1..Len(q) /\ m \in Messages \cup {Closed}
      /\ Tail(q) \in Seq(Messages \cup {Closed})
  BY <1>0, <1>1, TurnTypes, TailFacts
<1>3. Closed.type = "closed" /\ (m = Closed \/ m.type # "closed")
  BY <1>2 DEF Closed, Msg, Messages
<1>4. CASE m.type \in {"chunk", "tool"}
  <2>1. /\ queue' = [queue EXCEPT ![k] = Tail(@)] /\ open' = open
        /\ turn'[k] \in Running
        /\ turn' = turn \/ turn' = [turn EXCEPT ![k] = "tool"]
        /\ IF m.type = "chunk" THEN Emit(k, m) ELSE emitted' = emitted
    BY <1>0, <1>1, <1>2, <1>3, <1>4 DEF Collect, TypeOK, Running
  <2>2. ~Terminal(m) /\ m # Closed /\ (HasText(m) <=> m.type = "chunk")
    BY <1>3, <1>4 DEF Terminal, HasText
  <2>3. IF HasText(m) THEN emitted'[k] = Append(emitted[k], m.n) ELSE emitted'[k] = emitted[k]
    BY <2>1, <2>2, <1>0 DEF Emit, TypeOK
  <2>4. emitted'[k] \in Seq(1..MaxTexts)
    <3>1. CASE HasText(m)
      BY <3>1, <2>3, <1>0, <1>1, Emitted
    <3>2. CASE ~HasText(m)
      BY <3>2, <2>3, <1>0, TurnTypes
    <3>3. QED
      BY <3>1, <3>2
  <2>5. /\ emitted' \in [Turns -> Seq(1..MaxTexts)]
        /\ \A j \in Turns \ {k} : emitted'[j] = emitted[j]
    BY <2>1, <2>4, <1>0 DEF Emit, TypeOK
  <2>6. TypeOK'
    <3>1. queue' \in [Turns -> Seq(Messages \cup {Closed})]
      BY <2>1, <1>2, <1>0 DEF TypeOK
    <3>2. turn' \in [Turns -> TurnStages]
      BY <2>1, <1>0 DEF TypeOK, TurnStages
    <3>3. QED
      BY <3>1, <3>2, <2>1, <2>5, <1>1, <1>0 DEF TypeOK
  <2>7. \A j \in Turns \ {k} : Same(j)
    BY <2>1, <2>5, <1>1, <1>0 DEF TypeOK, Same
  <2>8. queue'[k] = Tail(q)
    BY <2>1, <1>0 DEF TypeOK
  <2>9. TurnInv(k)'
    BY <2>1, <2>2, <2>3, <2>8, <1>1, <1>0, TakenKeeps
  <2>10. QED
    BY <2>6, <2>7, <2>9, SameKeeps DEF BusInv
<1>5. CASE m.type \in {"final", "end"}
  <2>1. /\ Leave(k, "answered") /\ "answered" \in Over
        /\ IF m.type = "final" THEN Emit(k, m) ELSE emitted' = emitted
    BY <1>2, <1>3, <1>5 DEF Collect, Over
  <2>2. IF m.type = "final" THEN emitted'[k] = Append(emitted[k], m.n)
                            ELSE emitted'[k] = emitted[k]
    BY <2>1, <1>0 DEF Emit, TypeOK
  <2>3. emitted'[k] \in Seq(1..MaxTexts)
    <3>1. CASE m.type = "final"
      BY <3>1, <2>2, <1>0, <1>1, Emitted DEF HasText
    <3>2. CASE m.type # "final"
      BY <3>2, <2>2, <1>0, TurnTypes
    <3>3. QED
      BY <3>1, <3>2
  <2>4. /\ emitted' \in [Turns -> Seq(1..MaxTexts)]
        /\ \A j \in Turns \ {k} : emitted'[j] = emitted[j]
    BY <2>1, <2>3, <1>0 DEF Emit, TypeOK
  <2>5. /\ TypeOK'
        /\ \A j \in Turns \ {k} : Same(j)
        /\ turn'[k] = "answered" /\ queue'[k] = <<>> /\ k \notin open'
    BY <2>1, <2>4, <1>1, <1>0, LeaveTypes
  <2>6. TurnInv(k)'
    BY <2>2, <2>5, <1>1, <1>5, <1>0, AnsweredKeeps
  <2>7. QED
    BY <2>5, <2>6, SameKeeps DEF BusInv
<1>6. CASE m.type = "error" \/ m = Closed
  <2>1. PICK outcome \in {"error", "cut"} : Leave(k, outcome) /\ UNCHANGED emitted
    BY <1>2, <1>3, <1>6 DEF Collect
  <2>2. outcome \in Over
    BY DEF Over
  <2>3. /\ TypeOK'
        /\ \A j \in Turns \ {k} : Same(j)
        /\ turn'[k] = outcome /\ queue'[k] = <<>> /\ k \notin open'
    BY <2>1, <2>2, <1>1, <1>0, LeaveTypes DEF TypeOK
  <2>4. TurnInv(k)'
    BY <2>1, <2>3, <1>1, <1>0, LeaveKeeps
  <2>5. QED
    BY <2>3, <2>4, SameKeeps DEF BusInv
<1>7. m.type \in {"chunk", "tool"} \/ m.type \in {"final", "end"} \/ m.type = "error" \/ m = Closed
  BY <1>2 DEF Messages
<1>8. QED
  BY <1>4, <1>5, <1>6, <1>7

-----------------------------------------------------------------------------
(* The properties of AgenticBus.                                           *)

\* The invariant holds initially and every step of service, bus and backend keeps it.
THEOREM BusInvariant == Spec => []BusInv
<1>1. Init => BusInv
  <2> SUFFICES ASSUME Init
               PROVE  BusInv
    OBVIOUS
  <2>1. TypeOK
    BY AgenticBusAssumption, EmptySeq DEF Init, TypeOK, TurnStages
  <2>2. ASSUME NEW k \in Turns
        PROVE  TurnInv(k)
    <3>1. /\ turn[k] = "new" /\ queue[k] = <<>> /\ wire[k] = <<>> /\ emitted[k] = <<>>
          /\ sent[k] = 0 /\ k \notin open
      BY DEF Init
    <3>2. Numbered(queue[k]) /\ Numbered(wire[k])
      BY <3>1 DEF Numbered
    <3>3. SlotInv(k) /\ OrderInv(k) /\ TerminalInv(k) /\ WholeInv(k)
      BY <3>1 DEF SlotInv, OrderInv, TerminalInv, WholeInv, Running
    <3>4. QED
      BY <3>2, <3>3 DEF TurnInv
  <2>3. QED
    BY <2>1, <2>2 DEF BusInv
<1>2. BusInv /\ [Next]_vars => BusInv'
  <2> SUFFICES ASSUME BusInv, [Next]_vars
               PROVE  BusInv'
    OBVIOUS
  <2>1. ASSUME NEW c \in Calls, StartBus(c) \/ StopBus(c)
        PROVE  BusInv'
    BY <2>1, SubscriptionKeeps
  <2>2. ASSUME NEW k \in Turns, StartTurn(k)
        PROVE  BusInv'
    BY <2>2, StartTurnKeeps
  <2>3. ASSUME NEW k \in Turns, Published(k) \/ ToolReturns(k) \/ CancelBegins(k)
        PROVE  BusInv'
    BY <2>3, StageMoves
  <2>4. ASSUME NEW k \in Turns, PublishFails(k) \/ Timeout(k)
        PROVE  BusInv'
    BY <2>4, GivingUpKeeps
  <2>5. ASSUME NEW k \in Turns, Collect(k)
        PROVE  BusInv'
    BY <2>5, CollectKeeps
  <2>6. ASSUME NEW k \in Turns, CancelReturns(k)
        PROVE  BusInv'
    BY <2>6, CancelKeeps
  <2>7. ASSUME NEW k \in Turns, Deliver(k)
        PROVE  BusInv'
    BY <2>7, DeliverKeeps
  <2>8. ASSUME NEW k \in Turns, Lose(k)
        PROVE  BusInv'
    BY <2>8, LoseKeeps
  <2>9. ASSUME NEW k \in Turns, BackendSends(k)
        PROVE  BusInv'
    BY <2>9, BackendKeeps
  <2>10. ASSUME UNCHANGED vars
         PROVE  BusInv'
    <3>1. TypeOK'
      BY <2>10 DEF BusInv, TypeOK, vars
    <3>2. \A j \in Turns : Same(j)
      BY <2>10 DEF vars, Same
    <3>3. QED
      BY <3>1, <3>2, SameKeeps DEF BusInv
  <2>11. QED
    BY <2>1, <2>2, <2>3, <2>4, <2>5, <2>6, <2>7, <2>8, <2>9, <2>10 DEF Next, TurnStep
<1>3. QED
  BY <1>1, <1>2, PTL DEF Spec

\* Every variable of the bus, of its routers and of its turns keeps its type.
THEOREM BusTypeCorrect == Spec => []TypeOK
<1>1. BusInv => TypeOK
  BY DEF BusInv
<1>2. QED
  BY <1>1, BusInvariant, PTL

\* No entry of a router outlives its turn, and no running turn waits on a queue that
\* nobody will close (correlation.py register, close; agentic_bus_llm.py _collect_response).
THEOREM SlotAlwaysExact == Spec => []SlotExact
<1>1. BusInv => SlotExact
  <2> SUFFICES ASSUME BusInv, NEW k \in Turns
               PROVE  /\ k \in open => turn[k] \in Running /\ ~Contains(queue[k], Closed)
                      /\ turn[k] \in Running /\ k \notin open =>
                            queue[k] # <<>> /\ Last(queue[k]) = Closed
                               /\ ~Contains(Front(queue[k]), Closed)
    BY DEF SlotExact
  <2> DEFINE q == queue[k]
  <2>1. SlotInv(k) /\ q \in Seq(Messages \cup {Closed}) /\ Len(q) \in Nat
    BY TurnTypes DEF BusInv, TurnInv
  <2>2. k \in open => turn[k] \in Running /\ ~Contains(q, Closed)
    BY <2>1 DEF SlotInv, Contains
  <2>3. ASSUME turn[k] \in Running, k \notin open
        PROVE  q # <<>> /\ Last(q) = Closed /\ ~Contains(Front(q), Closed)
    <3>1. q # <<>> /\ Last(q) = Closed
      BY <2>1, <2>3 DEF SlotInv, Last
    <3>2. /\ Len(Front(q)) = Len(q) - 1
          /\ \A i \in 1..Len(q)-1 : Front(q)[i] = q[i]
      BY <2>1, <3>1 DEF Front
    <3>3. \A i \in 1..Len(q)-1 : q[i] # Closed
      BY <2>1 DEF SlotInv
    <3>4. QED
      BY <3>1, <3>2, <3>3 DEF Contains
  <2>4. QED
    BY <2>2, <2>3
<1>2. QED
  BY <1>1, BusInvariant, PTL

\* Text reaches the caller in the order of the answer, whatever the bus loses and
\* whenever the turn is cancelled (_collect_response, CorrelationRouter.deliver).
THEOREM TextAlwaysInOrder == Spec => []TextInOrder
<1>1. BusInv => TextInOrder
  BY DEF BusInv, TurnInv, OrderInv, TextInOrder
<1>2. QED
  BY <1>1, BusInvariant, PTL

\* A turn that ended with its answer and lost nothing on the way emitted all of it.
THEOREM AnswerAlwaysWhole == Spec => []AnswerWhole
<1>1. BusInv => AnswerWhole
  <2> SUFFICES ASSUME BusInv, NEW k \in Turns, turn[k] = "answered", k \notin lost
               PROVE  emitted[k] = [i \in 1..sent[k] |-> i]
    BY DEF AnswerWhole
  <2>1. emitted[k] \in Seq(1..MaxTexts) /\ Len(emitted[k]) = sent[k]
    BY TurnTypes DEF BusInv, TurnInv, WholeInv
  <2>2. \A i \in 1..Len(emitted[k]) : emitted[k][i] = i
    BY DEF BusInv, TurnInv, WholeInv
  <2>3. emitted[k] = [i \in 1..Len(emitted[k]) |-> emitted[k][i]]
    BY <2>1
  <2>4. QED
    BY <2>1, <2>2, <2>3
<1>2. QED
  BY <1>1, BusInvariant, PTL

-----------------------------------------------------------------------------
(* The refinement of AnswerStream.                                         *)

\* What the pipeline sees of a turn in each of its stages.
LEMMA StateFacts ==
    ASSUME NEW k \in Turns
    PROVE  /\ State[k] = StateOf(k)
           /\ turn[k] \in Running => StateOf(k) = "streaming"
           /\ turn[k] \in {"new", "answered"} => StateOf(k) = turn[k]
           /\ turn[k] \in {"cut", "error", "raised"} => StateOf(k) = "broken"
  BY DEF State, StateOf, Running

\* A step that moves one turn moves one stream.
LEMMA StateMoves ==
    ASSUME TypeOK, NEW k \in Turns, NEW stage, turn' = [turn EXCEPT ![k] = stage]
    PROVE  turn'[k] = stage /\ State' = [State EXCEPT ![k] = StateOf(k)']
<1>1. turn'[k] = stage /\ \A j \in Turns : j # k => turn'[j] = turn[j]
  BY DEF TypeOK
<1>2. \A j \in Turns : j # k => StateOf(j)' = StateOf(j)
  BY <1>1 DEF StateOf
<1> QED
  BY <1>1, <1>2 DEF State

\* Steps the pipeline cannot tell from no step.
LEMMA Unseen ==
    ASSUME TypeOK, NEW k \in Turns, UNCHANGED <<emitted, sent, answered, lost>>,
           \/ turn' = turn
           \/ \E stage \in Running : turn' = [turn EXCEPT ![k] = stage] /\ turn[k] \in Running
    PROVE  UNCHANGED Stream!vars
<1>1. CASE turn' = turn
  BY <1>1 DEF State, StateOf, Stream!vars
<1>2. CASE turn' # turn
  <2>1. PICK stage \in Running : turn' = [turn EXCEPT ![k] = stage] /\ turn[k] \in Running
    BY <1>2
  <2>2. StateOf(k)' = "streaming" /\ State[k] = "streaming"
    BY <2>1, StateMoves, StateFacts DEF StateOf
  <2>3. State' = State
    BY <2>1, <2>2, StateMoves DEF State
  <2> QED
    BY <2>3 DEF Stream!vars
<1> QED
  BY <1>1, <1>2

\* A turn that is given up, or cut, is a stream that breaks.
LEMMA LeavingBreaks ==
    ASSUME TypeOK, NEW k \in Turns, turn[k] \in Running,
           NEW outcome \in {"cut", "error", "raised"}, Leave(k, outcome),
           UNCHANGED <<emitted, sent, answered, lost>>
    PROVE  Stream!Break(k)
<1>1. /\ turn'[k] = outcome
      /\ State' = [State EXCEPT ![k] = StateOf(k)']
  BY StateMoves DEF Leave
<1>2. StateOf(k)' = "broken" /\ State[k] = "streaming"
  BY <1>1, StateFacts DEF StateOf, Running
<1> QED
  BY <1>1, <1>2 DEF Stream!Break

\* The text that a turn emits is one that its stream may hear.
LEMMA TextHeard ==
    ASSUME NEW k \in Turns, TypeOK, TurnInv(k), turn[k] \in Running,
           queue[k] # <<>>, HasText(queue[k][1]), Emit(k, queue[k][1])
    PROVE  Stream!HearsNext(k, queue[k][1].n)
<1> DEFINE n == queue[k][1].n
           e == emitted[k]
<1>1. /\ 1 \in 1..Len(queue[k]) /\ n \in Nat /\ Len(e) \in Nat /\ sent[k] \in Nat
  BY TurnTypes, TailFacts
<1>2. n > 0 /\ n <= sent[k]
  BY <1>1 DEF TurnInv, Numbered, OrderInv
<1>3. \A i \in 1..Len(e) : e[i] < n
  BY <1>1, <1>2 DEF TurnInv, OrderInv
<1>4. k \notin lost => n = Len(e) + 1
  BY <1>2, NextText
<1>5. emitted' = [emitted EXCEPT ![k] = Append(@, n)]
  BY DEF Emit
<1> QED
  BY <1>1, <1>2, <1>3, <1>4, <1>5 DEF Stream!HearsNext

\* What _collect_response makes of a message is a step of the stream, or none.
LEMMA CollectSeen ==
    ASSUME BusInv, NEW k \in Turns, Collect(k)
    PROVE  Stream!Hear(k) \/ Stream!Finish(k) \/ Stream!Break(k) \/ UNCHANGED Stream!vars
<1> DEFINE q == queue[k]
           m == q[1]
<1>1. /\ TypeOK /\ TurnInv(k) /\ turn[k] \in Running /\ q # <<>>
      /\ UNCHANGED <<sent, answered, lost>>
  BY DEF BusInv, Collect, Running, backend
<1>2. /\ Head(q) = m /\ 1 \in 1..Len(q) /\ m \in Messages \cup {Closed} /\ m.n \in Nat
  BY <1>1, TurnTypes, TailFacts
<1>3. State[k] = "streaming"
  BY <1>1, StateFacts
<1>4. CASE m.type = "chunk"
  <2>1. Emit(k, m) /\ UNCHANGED turn
    BY <1>2, <1>4 DEF Collect, Closed, Msg
  <2>2. Stream!HearsNext(k, m.n)
    BY <1>1, <1>4, <2>1, TextHeard DEF HasText
  <2>3. UNCHANGED State
    BY <2>1 DEF State, StateOf
  <2> QED
    BY <1>1, <1>3, <2>2, <2>3 DEF Stream!Hear, Stream!HearsNext
<1>5. CASE m.type = "tool"
  <2>1. turn' = [turn EXCEPT ![k] = "tool"] /\ UNCHANGED emitted
    BY <1>2, <1>5 DEF Collect, Closed, Msg
  <2> QED
    BY <1>1, <2>1, Unseen DEF Running
<1>6. CASE m.type \in {"final", "end"}
  <2>1. /\ Leave(k, "answered")
        /\ IF m.type = "final" THEN Emit(k, m) ELSE UNCHANGED emitted
    BY <1>2, <1>6 DEF Collect, Closed, Msg
  <2>2. k \in answered /\ (m.type = "final" => m.n = sent[k])
    BY <1>1, <1>2, <1>6 DEF TurnInv, TerminalInv, Terminal
  <2>3. UNCHANGED emitted \/ Stream!HearsNext(k, sent[k])
    BY <1>1, <2>1, <2>2, TextHeard DEF HasText
  <2>4. turn'[k] = "answered" /\ State' = [State EXCEPT ![k] = "answered"]
    <3>1. turn'[k] = "answered" /\ State' = [State EXCEPT ![k] = StateOf(k)']
      BY <1>1, <2>1, StateMoves DEF Leave
    <3>2. StateOf(k)' = "answered"
      BY <3>1 DEF StateOf, Running
    <3> QED
      BY <3>1, <3>2
  <2>5. k \notin lost => Len(emitted'[k]) = sent[k]
    BY <1>1, <2>4, CollectKeeps DEF BusInv, TurnInv, WholeInv
  <2> QED
    BY <1>1, <1>3, <2>2, <2>3, <2>4, <2>5 DEF Stream!Finish
<1>7. CASE m.type \in {"error", "closed"}
  <2>1. PICK outcome \in {"error", "cut"} : Leave(k, outcome) /\ UNCHANGED emitted
    BY <1>2, <1>7 DEF Collect, Closed, Msg
  <2> QED
    BY <1>1, <2>1, LeavingBreaks
<1>8. m.type \in {"chunk", "tool", "final", "end", "error", "closed"}
  BY <1>2 DEF Messages, Closed, Msg
<1> QED
  BY <1>4, <1>5, <1>6, <1>7, <1>8

\* What the backend sends is said, wherever it will end up.
LEMMA BackendSays ==
    ASSUME BusInv, NEW k \in Turns, BackendSends(k)
    PROVE  Stream!Say(k)
<1>1. TypeOK /\ turn[k] # "new" /\ k \notin answered /\ UNCHANGED <<turn, emitted, lost>>
  BY DEF BackendSends, BusInv
<1>2. /\ sent' \in {sent, [sent EXCEPT ![k] = @ + 1]}
      /\ answered' \in {answered, answered \cup {k}}
  BY DEF BackendSends
<1>3. State[k] # "new" /\ UNCHANGED State
  BY <1>1 DEF State, StateOf, Running
<1> QED
  BY <1>1, <1>2, <1>3 DEF Stream!Say

\* Every step of service, router, bus and backend is one of the stream, or none.
LEMMA StreamStep == BusInv /\ [Next]_vars => [Stream!Next]_(Stream!vars)
<1> SUFFICES ASSUME BusInv, [Next]_vars PROVE [Stream!Next]_(Stream!vars)
  OBVIOUS
<1> USE DEF BusInv, backend
<1>1. CASE \E c \in Calls : StartBus(c) \/ StopBus(c)
  BY <1>1 DEF StartBus, StopBus, Stream!vars, State, StateOf
<1>2. ASSUME NEW k \in Turns, StartTurn(k)
      PROVE  Stream!Begin(k)
  <2>1. State' = [State EXCEPT ![k] = StateOf(k)'] /\ turn'[k] = "publish"
    BY <1>2, StateMoves DEF StartTurn
  <2>2. StateOf(k)' = "streaming" /\ State[k] = "new"
    BY <1>2, <2>1, StateFacts DEF StartTurn, StateOf, Running
  <2> QED
    BY <1>2, <2>1, <2>2 DEF StartTurn, Stream!Begin
<1>3. ASSUME NEW k \in Turns, Published(k) \/ ToolReturns(k) \/ CancelBegins(k) \/ CancelReturns(k)
      PROVE  UNCHANGED Stream!vars
  <2>1. /\ UNCHANGED <<emitted, sent, answered, lost>>
        /\ \/ turn' = turn
           \/ turn' = [turn EXCEPT ![k] = "collect"] /\ turn[k] \in Running
    BY <1>3 DEF Published, ToolReturns, CancelBegins, CancelReturns, Running
  <2> QED
    BY <2>1, Unseen DEF Running
<1>4. ASSUME NEW k \in Turns, PublishFails(k) \/ Timeout(k)
      PROVE  Stream!Break(k)
  BY <1>4, LeavingBreaks DEF PublishFails, Timeout, Running
<1>5. ASSUME NEW k \in Turns, Deliver(k) \/ Lose(k)
      PROVE  Stream!LosePart(k) \/ UNCHANGED Stream!vars
  BY <1>5 DEF Deliver, Lose, Stream!LosePart, Stream!vars, State, StateOf
<1>6. CASE UNCHANGED vars
  BY <1>6 DEF vars, Stream!vars, State, StateOf
<1> QED
  BY <1>1, <1>2, <1>3, <1>4, <1>5, <1>6, CollectSeen, BackendSays
     DEF Next, TurnStep, Stream!Next

\* To the pipeline, a turn over the bus is a stream of its answer (AnswerStream): nothing
\* out of order, nothing after the end, nothing missing from a clean end without a loss.
THEOREM StreamImplemented == Spec => ImplementsStream
<1>1. Init => Stream!Init
  BY DEF Init, Stream!Init, State, StateOf, Running
<1>2. BusInv /\ [Next]_vars => [Stream!Next]_(Stream!vars)
  BY StreamStep
<1> QED
  BY <1>1, <1>2, BusInvariant, PTL DEF Spec, ImplementsStream, Stream!Spec

-----------------------------------------------------------------------------
(* What a cancel does promise                                              *)

\* A cancel is of a turn that began, and once publish_cancel has returned the router does
\* not know the turn.
CancelInv ==
    \A k \in Turns : /\ cancel[k] # "idle" => turn[k] # "new"
                     /\ cancel[k] = "done" => k \notin open

\* Once publish_cancel has returned nothing more is queued for the turn: what it may still
\* emit was delivered before, message by message, up to the sentinel.
CancelledTurnDrains ==
    [][\A k \in Turns : cancel[k] = "done" =>
          \/ queue'[k] \in {queue[k], <<>>}
          \/ queue[k] # <<>> /\ queue'[k] = Tail(queue[k])]_vars

\* Each turn's step, for the turn itself and for the others.
LEMMA CancelStep == BusInv /\ CancelInv /\ [Next]_vars => CancelInv'
<1> SUFFICES ASSUME BusInv, CancelInv, [Next]_vars PROVE CancelInv'
  OBVIOUS
<1> USE DEF CancelInv
<1>t. TypeOK
  BY DEF BusInv
<1>1. ASSUME NEW c \in Calls, StartBus(c) \/ StopBus(c) PROVE CancelInv'
  BY <1>1 DEF StartBus, StopBus
<1>2. ASSUME NEW k \in Turns, StartTurn(k) PROVE CancelInv'
  BY <1>t, <1>2 DEF StartTurn, TypeOK
<1>3. ASSUME NEW k \in Turns, Published(k) \/ ToolReturns(k) PROVE CancelInv'
  BY <1>t, <1>3 DEF Published, ToolReturns, TypeOK
<1>4. ASSUME NEW k \in Turns, PublishFails(k) \/ Timeout(k) PROVE CancelInv'
  BY <1>t, <1>4 DEF PublishFails, Timeout, Leave, TypeOK
<1>5. ASSUME NEW k \in Turns, Collect(k) PROVE CancelInv'
  BY <1>t, <1>5 DEF Collect, Leave, TypeOK
<1>6. ASSUME NEW k \in Turns, CancelBegins(k) PROVE CancelInv'
  BY <1>t, <1>6 DEF CancelBegins, Running, TypeOK
<1>7. ASSUME NEW k \in Turns, CancelReturns(k) PROVE CancelInv'
  BY <1>t, <1>7 DEF CancelReturns, Close, TypeOK
<1>8. ASSUME NEW k \in Turns, Deliver(k) \/ Lose(k) \/ BackendSends(k) PROVE CancelInv'
  BY <1>8 DEF Deliver, Lose, BackendSends
<1>9. CASE UNCHANGED vars
  BY <1>9 DEF vars
<1> QED
  BY <1>1, <1>2, <1>3, <1>4, <1>5, <1>6, <1>7, <1>8, <1>9 DEF Next, TurnStep

\* The text of a cancelled turn that the caller still hears was there when the cancel was.
THEOREM CancelledTurnAlwaysDrains == Spec => CancelledTurnDrains
<1> DEFINE Drains == \A k \in Turns : cancel[k] = "done" =>
                        \/ queue'[k] \in {queue[k], <<>>}
                        \/ queue[k] # <<>> /\ queue'[k] = Tail(queue[k])
<1>1. Init => CancelInv
  BY DEF Init, CancelInv
<1>2. BusInv /\ CancelInv /\ [Next]_vars => [Drains]_vars
  <2> SUFFICES ASSUME BusInv, CancelInv, Next, NEW k \in Turns, cancel[k] = "done"
               PROVE  \/ queue'[k] \in {queue[k], <<>>}
                      \/ queue[k] # <<>> /\ queue'[k] = Tail(queue[k])
    OBVIOUS
  <2>t. TypeOK /\ k \notin open
    BY DEF BusInv, CancelInv
  <2>q. k \in DOMAIN queue
    BY <2>t DEF TypeOK
  <2> HIDE DEF Turns
  <2>1. ASSUME NEW c \in Calls, StartBus(c) \/ StopBus(c)
        PROVE  queue'[k] = queue[k]
    BY <2>1 DEF StartBus, StopBus
  <2>2. ASSUME NEW j \in Turns, \/ StartTurn(j) \/ Published(j) \/ ToolReturns(j)
                                \/ CancelBegins(j) \/ Lose(j) \/ BackendSends(j)
        PROVE  queue'[k] = queue[k]
    BY <2>2 DEF StartTurn, Published, ToolReturns, CancelBegins, Lose, BackendSends
  <2>3. ASSUME NEW j \in Turns, PublishFails(j) \/ Timeout(j)
        PROVE  queue'[k] \in {queue[k], <<>>}
    BY <2>q, <2>3 DEF PublishFails, Timeout, Leave
  <2>4. ASSUME NEW j \in Turns, Collect(j)
        PROVE  \/ queue'[k] \in {queue[k], <<>>}
               \/ queue[k] # <<>> /\ queue'[k] = Tail(queue[k])
    BY <2>q, <2>4 DEF Collect, Leave
  <2>5. ASSUME NEW j \in Turns, CancelReturns(j) PROVE queue'[k] = queue[k]
    BY <2>t, <2>q, <2>5 DEF CancelReturns, Close
  <2>6. ASSUME NEW j \in Turns, Deliver(j) PROVE queue'[k] = queue[k]
    BY <2>t, <2>q, <2>6 DEF Deliver, Receive
  <2> QED
    BY <2>1, <2>2, <2>3, <2>4, <2>5, <2>6 DEF Next, TurnStep
<1> QED
  BY <1>1, <1>2, CancelStep, BusInvariant, PTL DEF Spec, CancelledTurnDrains

=============================================================================
