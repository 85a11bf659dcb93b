------------------------ MODULE DurableStreamProofs ------------------------
(***************************************************************************)
(* Theorems about the durable output stream, for every length of output,   *)
(* set of workers, number of deaths and number of restarts.                *)
(*                                                                         *)
(* The two ACKs are watermarks: a number whose whole prefix the client has *)
(* held.  The inductive invariant says so of every number in flight: the   *)
(* watermark a worker has read, the seq it sends next, the ACK it is about *)
(* to record, as long as the client has not restarted since the worker was *)
(* started.  What makes it an invariant is that receipts only grow between *)
(* restarts; what it needs of Ack is that there is a longest prefix.       *)
(***************************************************************************)
EXTENDS DurableStream, WellFoundedInduction, TLAPS

\* The client holds every token up to n.
Holds(n) == 1 .. n \subseteq recv

\* The worker has been started since the client last lost its receipts.
Current(k) == w[k].pc # "idle" /\ w[k].born = restarts
WorkerInv(k) ==
    /\ w[k].born <= restarts
    /\ Current(k) => /\ Holds(w[k].c0) /\ Holds(w[k].got)
                     /\ w[k].pc # "resume" => Holds(w[k].next - 1)

StreamInv ==
    /\ TypeOK
    /\ \A k \in Workers : WorkerInv(k)
    /\ restarts = 0 => Holds(serverAck)
-----------------------------------------------------------------------------
(***************************************************************************)
(* The longest prefix, and the smaller and the larger of two numbers.      *)
(***************************************************************************)
\* A set of naturals that is not empty has a least element.
LEMMA LeastNat ==
    ASSUME NEW S, S \subseteq Nat, S # {} PROVE \E x \in S : \A y \in S : x <= y
<1>1. \E x \in S : \A y \in S : ~ (<<y, x>> \in OpToRel(<, Nat))
  BY NatLessThanWellFounded, WFMin
<1>2. PICK x \in S : \A y \in S : ~ (<<y, x>> \in OpToRel(<, Nat))
  BY <1>1
<1>3. \A y \in S : x \in Nat /\ y \in Nat /\ ~ (y < x)
  BY <1>2 DEF OpToRel
<1>4. \A y \in S : x <= y
  BY <1>3
<1> QED BY <1>4

\* Ack is a prefix the client holds, and none it holds is longer.
LEMMA AckIsLongest ==
    /\ Ack \in 0 .. N /\ Holds(Ack)
    /\ \A n \in 0 .. N : Holds(n) => n <= Ack
<1> DEFINE P == {n \in 0 .. N : 1 .. n \subseteq recv}
           Short == {N - n : n \in P}
<1>1. N \in Nat
  BY DurableStreamAssumption
<1>2. Short \subseteq Nat /\ 0 \in P /\ N - 0 \in Short
  BY <1>1
<1>3. PICK s \in Short : \A t \in Short : s <= t
  BY <1>2, LeastNat
<1>4. PICK m \in P : s = N - m
  BY <1>3
<1>5. ASSUME NEW n \in P PROVE n <= m
  <2>1. N - m <= N - n
    BY <1>3, <1>4
  <2> QED BY <1>1, <2>1
<1>6. Ack \in P /\ \A n \in P : Ack >= n
  BY <1>1, <1>5 DEF Ack, Max
<1> QED BY <1>1, <1>6 DEF Holds

LEMMA MinOfTwo ==
    ASSUME NEW a \in Nat, NEW b \in Nat
    PROVE  Min({a, b}) \in {a, b} /\ Min({a, b}) <= a /\ Min({a, b}) <= b
<1>1. \E x \in {a, b} : \A y \in {a, b} : x =< y
  OBVIOUS
<1> QED BY <1>1 DEF Min

LEMMA MaxOfTwo ==
    ASSUME NEW a \in Nat, NEW b \in Nat
    PROVE  Max({a, b}) \in {a, b} /\ Max({a, b}) >= a /\ Max({a, b}) >= b
<1>1. \E x \in {a, b} : \A y \in {a, b} : x >= y
  OBVIOUS
<1> QED BY <1>1 DEF Max
-----------------------------------------------------------------------------
(***************************************************************************)
(* The invariant is inductive.                                             *)
(***************************************************************************)
LEMMA InitStreamInv == Init => StreamInv
<1> SUFFICES ASSUME Init PROVE StreamInv
  OBVIOUS
<1>1. Idle \in Local /\ Idle.pc = "idle" /\ Idle.born = 0
  BY DurableStreamAssumption DEF Idle, Local
<1>2. \A k \in Workers : w[k] = Idle
  BY DEF Init
<1>3. TypeOK
  BY <1>1, DurableStreamAssumption DEF Init, TypeOK
<1>4. \A k \in Workers : WorkerInv(k)
  BY <1>1, <1>2 DEF Init, WorkerInv, Current
<1> QED BY <1>3, <1>4 DEF Init, StreamInv, Holds

\* One worker moves, and the client holds at least what it held.
LEMMA StepStreamInv ==
    ASSUME StreamInv, NEW k \in Workers, NEW x \in Local,
           w' = [w EXCEPT ![k] = x], UNCHANGED <<log, restarts>>,
           recv \subseteq recv', recv' \subseteq Seqs,
           deaths' \in 0 .. MaxDeaths, serverAck' \in 0 .. N,
           x.born <= restarts,
           restarts = 0 => 1 .. serverAck' \subseteq recv',
           (x.pc # "idle" /\ x.born = restarts) =>
               /\ 1 .. x.c0 \subseteq recv' /\ 1 .. x.got \subseteq recv'
               /\ x.pc # "resume" => 1 .. x.next - 1 \subseteq recv'
    PROVE  StreamInv'
<1>1. /\ w \in [Workers -> Local] /\ w' \in [Workers -> Local] /\ w'[k] = x
      /\ \A v \in Workers : v # k => w'[v] = w[v]
  BY DEF StreamInv, TypeOK
<1>2. TypeOK'
  BY <1>1 DEF StreamInv, TypeOK, Seqs
<1>3. ASSUME NEW v \in Workers PROVE WorkerInv(v)'
  <2>1. CASE v = k
    BY <1>1, <2>1 DEF WorkerInv, Current, Holds
  <2>2. CASE v # k
    <3>1. WorkerInv(v) /\ w'[v] = w[v]
      BY <1>1, <2>2 DEF StreamInv
    <3> QED BY <3>1 DEF WorkerInv, Current, Holds
  <2> QED BY <2>1, <2>2
<1> QED BY <1>2, <1>3 DEF StreamInv, Holds

LEMMA StartStreamInv ==
    ASSUME StreamInv, NEW k \in Workers, NEW drop \in BOOLEAN, Start(k, drop) PROVE StreamInv'
<1> DEFINE x == [Idle EXCEPT !.pc = "resume", !.c0 = Ack, !.drop = drop, !.born = restarts]
<1>1. restarts \in Nat /\ N \in Nat
  BY DurableStreamAssumption DEF StreamInv, TypeOK
<1>2. Idle \in Local /\ Idle.got = 0
  BY DurableStreamAssumption DEF Idle, Local
<1>3. x \in Local
  BY <1>1, <1>2, AckIsLongest DEF Local
<1>4. x.pc = "resume" /\ x.c0 = Ack /\ x.got = 0 /\ x.born = restarts
  BY <1>2 DEF Local
<1>5. 1 .. x.c0 \subseteq recv /\ 1 .. x.got \subseteq recv
  BY <1>4, AckIsLongest DEF Holds
<1>6. w' = [w EXCEPT ![k] = x] /\ UNCHANGED <<log, serverAck, recv, deaths, restarts>>
  BY DEF Start
<1>7. /\ recv' \subseteq Seqs /\ deaths' \in 0 .. MaxDeaths /\ serverAck' \in 0 .. N
      /\ restarts = 0 => 1 .. serverAck' \subseteq recv'
  BY <1>6 DEF StreamInv, TypeOK, Holds
<1>8. recv \subseteq recv' /\ x.born <= restarts /\ restarts' = restarts /\ log' = log
  BY <1>1, <1>4, <1>6
<1> HIDE DEF x
<1> QED BY <1>3, <1>4, <1>5, <1>6, <1>7, <1>8, StepStreamInv

LEMMA DieStreamInv ==
    ASSUME StreamInv, NEW k \in Workers, Die(k) \/ Exit(k) PROVE StreamInv'
<1>1. Idle \in Local /\ Idle.pc = "idle" /\ Idle.born = 0
  BY DurableStreamAssumption DEF Idle, Local
<1>2. deaths' \in 0 .. MaxDeaths
  BY DurableStreamAssumption DEF Die, Exit, StreamInv, TypeOK
<1>3. restarts >= 0
  BY DurableStreamAssumption DEF StreamInv, TypeOK
<1> QED BY <1>1, <1>2, <1>3, StepStreamInv DEF Die, Exit, StreamInv, TypeOK, Holds

LEMMA ResumeStreamInv ==
    ASSUME StreamInv, NEW k \in Workers, Resume(k) PROVE StreamInv'
<1> DEFINE n == Min({serverAck, w[k].c0}) + 1
           x == [w[k] EXCEPT !.pc = "send", !.next = n]
<1>1. w[k] \in Local /\ serverAck \in 0 .. N /\ N \in Nat /\ WorkerInv(k) /\ w[k].pc = "resume"
  BY DurableStreamAssumption DEF StreamInv, TypeOK, Resume, At
<1>2. w[k].c0 \in 0 .. N /\ w[k].c0 \in Nat /\ serverAck \in Nat
  BY <1>1 DEF Local
<1>3. n - 1 = Min({serverAck, w[k].c0}) /\ n \in 1 .. N + 1 /\ n - 1 <= w[k].c0
  BY <1>1, <1>2, MinOfTwo
<1>4. /\ x \in Local /\ x.pc = "send" /\ x.next = n
      /\ x.c0 = w[k].c0 /\ x.got = w[k].got /\ x.born = w[k].born
  <2> HIDE DEF n
  <2> QED BY <1>1, <1>3 DEF Local
<1>5. x.born <= restarts
  BY <1>1, <1>4 DEF WorkerInv
<1>6. ASSUME x.born = restarts
      PROVE  1 .. x.c0 \subseteq recv /\ 1 .. x.got \subseteq recv /\ 1 .. x.next - 1 \subseteq recv
  <2>1. 1 .. w[k].c0 \subseteq recv /\ 1 .. w[k].got \subseteq recv
    BY <1>1, <1>4, <1>6 DEF WorkerInv, Current, Holds
  <2>2. 1 .. n - 1 \subseteq 1 .. w[k].c0
    <3> HIDE DEF n
    <3> QED BY <1>2, <1>3
  <2> QED BY <1>4, <2>1, <2>2
<1>7. w' = [w EXCEPT ![k] = x] /\ UNCHANGED <<log, serverAck, recv, deaths, restarts>>
  <2> HIDE DEF n
  <2> QED BY <1>1 DEF Resume, n, StreamInv, TypeOK
<1>8. /\ recv' \subseteq Seqs /\ deaths' \in 0 .. MaxDeaths /\ serverAck' \in 0 .. N
      /\ restarts = 0 => 1 .. serverAck' \subseteq recv'
  BY <1>7 DEF StreamInv, TypeOK, Holds
<1> HIDE DEF x
<1> QED BY <1>4, <1>5, <1>6, <1>7, <1>8, StepStreamInv

\* The token after a prefix that is held makes the prefix one longer.
LEMMA DeliverStreamInv ==
    ASSUME StreamInv, NEW k \in Workers, Deliver(k) PROVE StreamInv'
<1> DEFINE n == w[k].next
           x == [w[k] EXCEPT !.next = n + 1, !.pc = IF w[k].drop THEN "send" ELSE "ack"]
<1>1. w[k] \in Local /\ N \in Nat /\ WorkerInv(k) /\ w[k].pc = "send"
  BY DurableStreamAssumption DEF StreamInv, TypeOK, Deliver, At
<1>2. n \in 1 .. N + 1 /\ n \in Seqs /\ n + 1 \in 1 .. N + 1 /\ (n + 1) - 1 = n
  <2>1. n \in 1 .. N + 1
    BY <1>1 DEF Local
  <2>2. n \in Seqs
    BY DEF Deliver, StreamInv, TypeOK
  <2> QED BY <1>1, <2>1, <2>2 DEF Seqs
<1>3. /\ x \in Local /\ x.pc \in {"send", "ack"} /\ x.next = n + 1
      /\ x.c0 = w[k].c0 /\ x.got = w[k].got /\ x.born = w[k].born
  <2> HIDE DEF n
  <2>1. (IF w[k].drop THEN "send" ELSE "ack") \in {"send", "ack"}
    OBVIOUS
  <2> QED BY <1>1, <1>2, <2>1 DEF Local
<1>4. /\ recv' = recv \cup {n} /\ w' = [w EXCEPT ![k] = x]
      /\ UNCHANGED <<log, serverAck, deaths, restarts>>
  BY <1>1 DEF Deliver, StreamInv, TypeOK
<1>5. x.born <= restarts
  BY <1>1, <1>3 DEF WorkerInv
<1>6. ASSUME x.born = restarts
      PROVE  1 .. x.c0 \subseteq recv' /\ 1 .. x.got \subseteq recv' /\ 1 .. x.next - 1 \subseteq recv'
  <2>1. 1 .. w[k].c0 \subseteq recv /\ 1 .. w[k].got \subseteq recv /\ 1 .. n - 1 \subseteq recv
    BY <1>1, <1>3, <1>6 DEF WorkerInv, Current, Holds
  <2>2. 1 .. n \subseteq (1 .. n - 1) \cup {n}
    BY <1>2
  <2> QED BY <1>2, <1>3, <1>4, <2>1, <2>2
<1>7. /\ recv \subseteq recv' /\ recv' \subseteq Seqs /\ deaths' \in 0 .. MaxDeaths /\ serverAck' \in 0 .. N
      /\ restarts = 0 => 1 .. serverAck' \subseteq recv'
  BY <1>2, <1>4 DEF StreamInv, TypeOK, Holds
<1> HIDE DEF x
<1> QED BY <1>3, <1>4, <1>5, <1>6, <1>7, StepStreamInv

LEMMA ReadAckStreamInv ==
    ASSUME StreamInv, NEW k \in Workers, ReadAck(k) PROVE StreamInv'
<1> DEFINE x == [w[k] EXCEPT !.pc = "record", !.got = Ack]
<1>1. w[k] \in Local /\ WorkerInv(k) /\ w[k].pc = "ack"
  BY DEF StreamInv, TypeOK, ReadAck, At
<1>2. /\ x \in Local /\ x.pc = "record" /\ x.got = Ack
      /\ x.c0 = w[k].c0 /\ x.next = w[k].next /\ x.born = w[k].born
  BY <1>1, AckIsLongest DEF Local
<1>3. x.born <= restarts
  BY <1>1, <1>2 DEF WorkerInv
<1>4. ASSUME x.born = restarts
      PROVE  1 .. x.c0 \subseteq recv /\ 1 .. x.got \subseteq recv /\ 1 .. x.next - 1 \subseteq recv
  BY <1>1, <1>2, <1>4, AckIsLongest DEF WorkerInv, Current, Holds
<1>5. w' = [w EXCEPT ![k] = x] /\ UNCHANGED <<log, serverAck, recv, deaths, restarts>>
  BY <1>1 DEF ReadAck, StreamInv, TypeOK
<1>6. /\ recv' \subseteq Seqs /\ deaths' \in 0 .. MaxDeaths /\ serverAck' \in 0 .. N
      /\ restarts = 0 => 1 .. serverAck' \subseteq recv'
  BY <1>5 DEF StreamInv, TypeOK, Holds
<1> HIDE DEF x
<1> QED BY <1>2, <1>3, <1>4, <1>5, <1>6, StepStreamInv

LEMMA RecordAckStreamInv ==
    ASSUME StreamInv, NEW k \in Workers, RecordAck(k) PROVE StreamInv'
<1> DEFINE x == [w[k] EXCEPT !.pc = "send"]
<1>1. w[k] \in Local /\ WorkerInv(k) /\ w[k].pc = "record" /\ serverAck \in 0 .. N /\ N \in Nat
  BY DurableStreamAssumption DEF StreamInv, TypeOK, RecordAck, At
<1>2. /\ x \in Local /\ x.pc = "send" /\ x.got = w[k].got
      /\ x.c0 = w[k].c0 /\ x.next = w[k].next /\ x.born = w[k].born
  BY <1>1 DEF Local
<1>3. x.born <= restarts
  BY <1>1, <1>2 DEF WorkerInv
<1>4. ASSUME x.born = restarts
      PROVE  1 .. x.c0 \subseteq recv /\ 1 .. x.got \subseteq recv /\ 1 .. x.next - 1 \subseteq recv
  BY <1>1, <1>2, <1>4 DEF WorkerInv, Current, Holds
<1>5. w' = [w EXCEPT ![k] = x] /\ UNCHANGED <<log, recv, deaths, restarts>>
  BY <1>1 DEF RecordAck, StreamInv, TypeOK
<1>6. serverAck' \in {serverAck, w[k].got} /\ serverAck' \in 0 .. N
  <2>1. w[k].got \in 0 .. N
    BY <1>1 DEF Local
  <2> QED BY <1>1, <2>1, MaxOfTwo DEF RecordAck
<1>7. ASSUME restarts = 0 PROVE 1 .. serverAck' \subseteq recv
  <2>1. Holds(serverAck) /\ w[k].born \in Nat
    BY <1>1, <1>7 DEF StreamInv, Local
  <2>2. Current(k) /\ Holds(w[k].got)
    BY <1>1, <1>7, <2>1 DEF WorkerInv, Current
  <2> QED BY <1>6, <2>1, <2>2 DEF Holds
<1>8. recv' \subseteq Seqs /\ deaths' \in 0 .. MaxDeaths
  BY <1>5 DEF StreamInv, TypeOK
<1> HIDE DEF x
<1> QED BY <1>2, <1>3, <1>4, <1>5, <1>6, <1>7, <1>8, StepStreamInv

\* The receipts are gone, and with them what the workers knew of them.
LEMMA RestartStreamInv == ASSUME StreamInv, Restart PROVE StreamInv'
<1>1. restarts \in Nat /\ restarts' = restarts + 1 /\ restarts' \in 0 .. MaxRestarts /\ w' = w
  BY DurableStreamAssumption DEF Restart, StreamInv, TypeOK
<1>2. TypeOK'
  BY <1>1 DEF Restart, StreamInv, TypeOK, Seqs
<1>3. ASSUME NEW k \in Workers PROVE WorkerInv(k)'
  <2>1. w[k].born \in Nat /\ w[k].born <= restarts
    BY DEF StreamInv, TypeOK, Local, WorkerInv
  <2> QED BY <1>1, <2>1 DEF WorkerInv, Current
<1> QED BY <1>1, <1>2, <1>3 DEF StreamInv

LEMMA NextStreamInv == ASSUME StreamInv, [Next]_vars PROVE StreamInv'
<1>1. CASE CommitOutput \/ UNCHANGED vars
  <2>1. UNCHANGED <<serverAck, recv, deaths, restarts, w>> /\ log' \in {{}, Seqs}
    BY <1>1 DEF CommitOutput, vars, StreamInv, TypeOK
  <2> QED BY <2>1 DEF StreamInv, TypeOK, WorkerInv, Current, Holds, Seqs
<1>2. CASE Restart
  BY <1>2, RestartStreamInv
<1>3. ASSUME NEW k \in Workers, Begin(k) \/ Stream(k) \/ Die(k) PROVE StreamInv'
  BY <1>3, StartStreamInv, ResumeStreamInv, DeliverStreamInv, ReadAckStreamInv, RecordAckStreamInv,
     DieStreamInv DEF Begin, Stream
<1> QED BY <1>1, <1>2, <1>3 DEF Next

LEMMA StreamInvAlways == Spec => []StreamInv
BY InitStreamInv, NextStreamInv, PTL DEF Spec
-----------------------------------------------------------------------------
(***************************************************************************)
(* What the run checks.                                                    *)
(***************************************************************************)
\* The watermarks, seqs and receipts stay within the output.
THEOREM StreamTypes == Spec => []TypeOK
<1>1. StreamInv => TypeOK
  BY DEF StreamInv
<1> QED BY <1>1, StreamInvAlways, PTL

\* A worker that has sent the last token leaves a client that lacks none,
\* whatever ACKs were lost and whoever died before it.
THEOREM NoTokenSkipped == Spec => []FullPass
<1>1. ASSUME StreamInv, NEW k \in Workers, At(k, "send"), w[k].next > N, w[k].born = restarts
      PROVE  Ack = N
  <2>1. N \in Nat /\ w[k].next \in 1 .. N + 1 /\ WorkerInv(k)
    BY <1>1, DurableStreamAssumption DEF StreamInv, TypeOK, Local
  <2>2. w[k].next - 1 = N
    BY <1>1, <2>1
  <2>3. Holds(N)
    BY <1>1, <2>1, <2>2 DEF WorkerInv, Current, At
  <2> QED BY <2>1, <2>3, AckIsLongest
<1>2. StreamInv => FullPass
  BY <1>1 DEF FullPass
<1> QED BY <1>2, StreamInvAlways, PTL

\* Until the client loses receipts, the server's ACK is one it really gave.
THEOREM AckBehindClient == Spec => []AckNotAhead
<1>1. StreamInv => AckNotAhead
  BY AckIsLongest DEF StreamInv, TypeOK, AckNotAhead
<1> QED BY <1>1, StreamInvAlways, PTL
=============================================================================
