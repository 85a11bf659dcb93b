---------------------------- MODULE GatewayProofs ----------------------------
(***************************************************************************)
(* Theorems about Gateway, for any number of actions, args and calls.      *)
(***************************************************************************)
EXTENDS Gateway, TLAPS

\* The row of action k is in this state.
Is(k, status) == row[k] # None /\ row[k].status = status
\* The call in progress is for action k and stands at one of these statements.
InCall(k, pcs) == g.key = k /\ g.pc \in pcs

\* What the call in progress has established at each statement.
CallInv ==
    /\ g.pc # "idle" => g.key \in Keys /\ g.fp \in Args /\ calls \in 1 .. MaxCalls
    /\ g.pc = "tx" => Class = "transactional" /\ row[g.key] = None
    /\ g.pc = "intent" => \/ Class = "irreversible" /\ row[g.key] = None
                          \/ Class = "compensatable" /\ (row[g.key] = None \/ Seen("prepared"))
    /\ g.pc = "start" => Class = "compensatable" /\ Seen("prepared")
    /\ g.pc \in {"effect", "await", "record"} =>
          \/ Class \in {"pure", "overlay", "idempotent"} /\ row[g.key] = None
          \/ Class = "compensatable" /\ Seen("effect_started") /\ g.key \notin undone
          \/ Class = "irreversible" /\ Seen("prepared")
    /\ g.pc = "await" => Class \in Remote
    /\ g.pc = "record" =>
          /\ Class # "pure" => ran[g.key] = 1
          /\ Class \in {"compensatable", "irreversible"} => ranWith[g.key] = g.fp
    /\ g.pc = "undone" => Class = "compensatable" /\ Is(g.key, "effect_started") /\ g.key \in undone
    /\ g.pc = "done" => Is(g.key, "committed")

\* What the row of an action says about its effect, by class.
KeyInv(k) ==
    /\ ran[k] \in {0, 1}
    /\ klass[k] = "pure" => ran[k] = 0
    /\ klass[k] \in {"pure", "idempotent", "overlay", "transactional"} =>
          row[k] = None \/ Is(k, "committed")
    /\ klass[k] = "irreversible" => row[k] = None \/ Is(k, "prepared") \/ Is(k, "committed")
    /\ Is(k, "committed") /\ klass[k] # "pure" => ran[k] = 1
    /\ Is(k, "committed") /\ klass[k] \in {"transactional", "compensatable", "irreversible"} =>
          row[k].fp = ranWith[k]
    /\ k \in undone => klass[k] = "compensatable" /\ (Is(k, "effect_started") \/ Is(k, "compensated"))
    /\ Is(k, "compensated") => k \in undone
    /\ klass[k] = "transactional" /\ row[k] = None => ran[k] = 0
    /\ klass[k] = "compensatable" /\ (row[k] = None \/ Is(k, "prepared") \/ InCall(k, {"effect"}))
          => ran[k] = 0
    /\ klass[k] = "irreversible" /\ (row[k] = None \/ InCall(k, {"intent", "effect"}))
          => ran[k] = 0 /\ \A r \in wire : r.key # k
KeysInv == \A k \in Keys : KeyInv(k)

\* An IRREVERSIBLE request is sent once, and is on the wire or served.
WireInv ==
    /\ \A r \in wire : klass[r.key] \in Remote /\ (klass[r.key] = "irreversible" => ran[r.key] = 0)
    /\ \A r, s \in wire : r.key = s.key /\ klass[r.key] = "irreversible" => r = s
    /\ \A r \in replied : ran[r.key] = 1 /\ (klass[r.key] = "irreversible" => ranWith[r.key] = r.fp)

\* An answer stands for a state of the row that no later call leaves.
ToldInv == \A a \in answers :
    /\ a.status \in {"committed", "dedup_hit"} => Is(a.key, "committed")
    /\ a.status = "compensated" => Is(a.key, "compensated")
    /\ a.status = "uncertain" => klass[a.key] = "irreversible" /\ Is(a.key, "prepared")
                                   /\ ~InCall(a.key, {"effect", "await", "record"})

GwInv == TypeOK /\ CallInv /\ KeysInv /\ WireInv /\ ToldInv

LEMMA CallFields ==
    ASSUME TypeOK
    PROVE  /\ g.pc \in {"idle", "seen", "tx", "intent", "start", "effect", "await", "record",
                        "undone", "done"}
           /\ g.key \in Keys \cup {None} /\ g.fp \in Args \cup {None}
BY DEF TypeOK, CallState

LEMMA GotoFields ==
    ASSUME TypeOK, NEW pc \in {"idle", "seen", "tx", "intent", "start", "effect", "await", "record",
                               "undone", "done"}, Goto(pc)
    PROVE  g' \in CallState /\ g'.pc = pc /\ g'.key = g.key /\ g'.fp = g.fp
BY DEF TypeOK, CallState, Goto

LEMMA IdleFields == Idle \in CallState /\ Idle.pc = "idle"
BY DEF Idle, CallState

\* _record: the row of the call's action gets the status and keeps its fingerprint.
LEMMA RecordFields ==
    ASSUME TypeOK, g.key \in Keys, g.fp \in Args,
           NEW status \in {"prepared", "effect_started", "committed", "compensated"}, Record(status)
    PROVE  /\ row' \in [Keys -> Row \cup {None}]
           /\ row'[g.key] # None /\ row'[g.key].status = status
           /\ row'[g.key].fp = IF row[g.key] = None THEN g.fp ELSE row[g.key].fp
           /\ \A k \in Keys : k # g.key => row'[k] = row[k]
<1> DEFINE new == IF row[g.key] = None THEN [status |-> status, fp |-> g.fp]
                  ELSE [row[g.key] EXCEPT !.status = status]
<1>1. row' = [row EXCEPT ![g.key] = new]
  BY DEF Record
<1>2. row[g.key] \in Row \cup {None}
  BY DEF TypeOK
<1>3. new \in Row /\ new.status = status
      /\ new.fp = IF row[g.key] = None THEN g.fp ELSE row[g.key].fp
  BY <1>2 DEF Row
<1> HIDE DEF new
<1>4. new # None
  BY <1>3, GatewayAssumption DEF GatewayAssumption
<1> QED BY <1>1, <1>3, <1>4 DEF TypeOK

LEMMA HappensFields ==
    ASSUME TypeOK, NEW k \in Keys, NEW f \in Args, Happens(k, f)
    PROVE  /\ ran' \in [Keys -> Nat] /\ ranWith' \in [Keys -> Args \cup {None}]
           /\ ran'[k] = ran[k] + 1 /\ ranWith'[k] = f
           /\ \A j \in Keys : j # k => ran'[j] = ran[j] /\ ranWith'[j] = ranWith[j]
BY DEF TypeOK, Happens

\* Every answer is about one of the actions.
LEMMA AnswerFields ==
    ASSUME TypeOK, NEW a \in answers
    PROVE  a.key \in Keys /\ a.status \in {"committed", "dedup_hit", "compensated", "uncertain"}
BY DEF TypeOK, Answer

LEMMA RequestFields ==
    ASSUME TypeOK, NEW r \in wire \cup replied
    PROVE  r.key \in Keys /\ r.fp \in Args
BY DEF TypeOK, Request

LEMMA InitGwInv == GwInit => GwInv
<1> SUFFICES ASSUME GwInit PROVE GwInv
  OBVIOUS
<1>1. TypeOK
  BY IdleFields, GatewayAssumption DEF GwInit, TypeOK, GatewayAssumption
<1>2. CallInv
  BY IdleFields DEF GwInit, CallInv
<1>3. KeysInv
  BY DEF GwInit, KeysInv, KeyInv, Is
<1> QED BY <1>1, <1>2, <1>3 DEF GwInit, GwInv, WireInv, ToldInv

-----------------------------------------------------------------------------
(* Steps that change no row and no effect.                                 *)

\* The end of a call, with or without an answer that the row backs.
LEMMA EndGwInv ==
    ASSUME GwInv, g' = Idle, UNCHANGED <<klass, row, world, calls>>, answers' \subseteq Answer, ToldInv'
    PROVE  GwInv'
<1>1. TypeOK'
  BY IdleFields DEF GwInv, TypeOK, world
<1>2. CallInv'
  BY IdleFields DEF CallInv
<1>3. KeysInv'
  BY IdleFields DEF GwInv, KeysInv, KeyInv, Is, InCall, world
<1>4. WireInv'
  BY IdleFields DEF GwInv, WireInv, InCall, world
<1> QED BY <1>1, <1>2, <1>3, <1>4 DEF GwInv

LEMMA SilentEndGwInv ==
    ASSUME GwInv, g' = Idle, UNCHANGED <<klass, row, world, calls, answers>>
    PROVE  GwInv'
<1>1. answers' \subseteq Answer /\ ToldInv'
  BY IdleFields DEF GwInv, TypeOK, ToldInv, Is, InCall
<1> QED BY <1>1, EndGwInv

LEMMA AnswerGwInv ==
    ASSUME GwInv, g.pc # "idle", NEW status \in {"committed", "dedup_hit", "compensated", "uncertain"},
           Return(status), UNCHANGED <<klass, row, world, calls>>,
           status \in {"committed", "dedup_hit"} => Is(g.key, "committed"),
           status = "compensated" => Is(g.key, "compensated"),
           status = "uncertain" => Class = "irreversible" /\ Is(g.key, "prepared")
    PROVE  GwInv'
<1>1. g' = Idle /\ answers' = answers \cup {[key |-> g.key, status |-> status, fp |-> g.fp]}
  BY DEF Return
<1>2. g.key \in Keys /\ g.fp \in Args
  BY DEF GwInv, CallInv
<1>3. answers' \subseteq Answer
  BY <1>1, <1>2 DEF GwInv, TypeOK, Answer
<1>4. ToldInv'
  <2> SUFFICES ASSUME NEW a \in answers'
               PROVE  /\ a.status \in {"committed", "dedup_hit"} => Is(a.key, "committed")
                      /\ a.status = "compensated" => Is(a.key, "compensated")
                      /\ a.status = "uncertain" => klass[a.key] = "irreversible" /\ Is(a.key, "prepared")
    BY <1>1, IdleFields DEF ToldInv, Is, InCall
  <2>1. CASE a \in answers
    BY <2>1 DEF GwInv, ToldInv
  <2>2. CASE a = [key |-> g.key, status |-> status, fp |-> g.fp]
    BY <2>2 DEF Class
  <2> QED BY <1>1, <2>1, <2>2
<1> QED BY <1>1, <1>3, <1>4, EndGwInv

LEMMA CallGwInv == ASSUME GwInv, NEW k \in Keys, NEW f \in Args, Call(k, f) PROVE GwInv'
<1>1. g' \in CallState /\ g'.pc = "seen" /\ g'.key = k /\ g'.fp = f
  BY DEF Call, CallState
<1>2. calls' \in 1 .. MaxCalls
  BY GatewayAssumption DEF Call, GwInv, TypeOK, GatewayAssumption
<1>3. TypeOK'
  BY <1>1, <1>2 DEF Call, GwInv, TypeOK, world
<1>4. CallInv'
  BY <1>1, <1>2 DEF CallInv
<1>5. KeysInv'
  BY <1>1 DEF Call, GwInv, KeysInv, KeyInv, Is, InCall, world
<1>6. WireInv' /\ ToldInv'
  BY <1>1 DEF Call, GwInv, WireInv, ToldInv, Is, InCall, world
<1> QED BY <1>3, <1>4, <1>5, <1>6 DEF GwInv

\* What the look at the row has shown, by class.
LEMMA ProceedGwInv == ASSUME GwInv, Proceed PROVE GwInv'
<1>1. PICK pc \in {"tx", "intent", "effect"} :
          /\ Goto(pc)
          /\ pc = "tx" => Class = "transactional"
          /\ pc = "intent" => Class \in {"compensatable", "irreversible"}
          /\ pc = "effect" => Class \notin {"transactional", "compensatable", "irreversible"}
  BY DEF Proceed
<1>2. g' \in CallState /\ g'.pc = pc /\ g'.key = g.key /\ g'.fp = g.fp
  BY <1>1, GotoFields DEF GwInv
<1>3. g.pc = "seen" /\ g.key \in Keys /\ Class \in Classes
  BY DEF Proceed, At, GwInv, CallInv, TypeOK, Class
<1>4. row[g.key] = None \/ (Class = "compensatable" /\ Seen("prepared"))
  BY DEF Proceed
<1>5. TypeOK'
  BY <1>2 DEF Proceed, GwInv, TypeOK, world
<1>6. CallInv'
  BY <1>1, <1>2, <1>3, <1>4 DEF Proceed, GwInv, CallInv, Class, Classes, Seen, world
<1>7. KeysInv'
  <2> SUFFICES ASSUME NEW k \in Keys PROVE KeyInv(k)'
    BY DEF KeysInv
  <2>1. KeyInv(k)
    BY DEF GwInv, KeysInv
  <2> QED BY <1>1, <1>2, <1>3, <1>4, <2>1 DEF Proceed, KeyInv, Is, InCall, Class, Seen, world
<1>8. WireInv'
  BY <1>1, <1>2 DEF Proceed, GwInv, WireInv, InCall, world
<1>9. ToldInv'
  BY <1>1, <1>2, <1>3, <1>4 DEF Proceed, GwInv, ToldInv, Is, InCall, Class, Seen, world
<1> QED BY <1>5, <1>6, <1>7, <1>8, <1>9 DEF GwInv
-----------------------------------------------------------------------------
(* Steps that write the row or run the effect.                             *)

\* An action whose row and effect the step leaves alone, and that the call
\* does not bring to a statement before its effect.
LEMMA OtherKey ==
    ASSUME GwInv, NEW k \in Keys, klass' = klass,
           row'[k] = row[k], ran'[k] = ran[k], ranWith'[k] = ranWith[k],
           k \in undone' <=> k \in undone,
           \A r \in wire' : r.key = k => r \in wire,
           g'.key # k \/ g'.pc \notin {"intent", "effect"}
    PROVE  KeyInv(k)'
<1>1. KeyInv(k)
  BY DEF GwInv, KeysInv
<1>2. Is(k, "committed")' = Is(k, "committed") /\ Is(k, "prepared")' = Is(k, "prepared")
      /\ Is(k, "effect_started")' = Is(k, "effect_started")
      /\ Is(k, "compensated")' = Is(k, "compensated")
  BY DEF Is
<1>3. ~InCall(k, {"effect"})' /\ ~InCall(k, {"intent", "effect"})'
  BY DEF InCall
<1> QED BY <1>1, <1>2, <1>3 DEF KeyInv

\* The answers given about an action stand while its row does.
LEMMA ToldKept ==
    ASSUME GwInv, klass' = klass, answers' = answers, g'.key = g.key,
           \A k \in Keys : k # g.key => row'[k] = row[k],
           \A a \in answers : a.key = g.key =>
              /\ a.status # "uncertain"
              /\ a.status \in {"committed", "dedup_hit"} => Is(g.key, "committed")'
              /\ a.status = "compensated" => Is(g.key, "compensated")'
    PROVE  ToldInv'
<1> SUFFICES ASSUME NEW a \in answers
             PROVE  /\ a.status \in {"committed", "dedup_hit"} => Is(a.key, "committed")'
                    /\ a.status = "compensated" => Is(a.key, "compensated")'
                    /\ a.status = "uncertain" => klass[a.key] = "irreversible" /\ Is(a.key, "prepared")'
                                                   /\ ~InCall(a.key, {"effect", "await", "record"})'
  BY DEF ToldInv, Is, InCall
<1>1. a.key \in Keys
  BY AnswerFields DEF GwInv
<1>2. CASE a.key = g.key
  BY <1>2
<1>3. CASE a.key # g.key
  BY <1>1, <1>3 DEF GwInv, ToldInv, Is, InCall
<1> QED BY <1>2, <1>3

\* No call has been answered about an action without a row.
LEMMA NoRowNotTold ==
    ASSUME GwInv, NEW a \in answers PROVE row[a.key] # None
BY AnswerFields DEF GwInv, ToldInv, Is

LEMMA TransactGwInv == ASSUME GwInv, Transact PROVE GwInv'
<1>1. g.pc = "tx" /\ g.key \in Keys /\ g.fp \in Args /\ Class = "transactional" /\ row[g.key] = None
  BY DEF Transact, At, GwInv, CallInv
<1>2. g' \in CallState /\ g'.pc = "done" /\ g'.key = g.key /\ g'.fp = g.fp
  BY GotoFields DEF Transact, GwInv
<1>3. /\ row' \in [Keys -> Row \cup {None}]
      /\ row'[g.key] # None /\ row'[g.key].status = "committed" /\ row'[g.key].fp = g.fp
      /\ \A k \in Keys : k # g.key => row'[k] = row[k]
  BY <1>1, RecordFields DEF Transact, GwInv
<1>4. /\ ran' \in [Keys -> Nat] /\ ranWith' \in [Keys -> Args \cup {None}]
      /\ ran'[g.key] = ran[g.key] + 1 /\ ranWith'[g.key] = g.fp
      /\ \A j \in Keys : j # g.key => ran'[j] = ran[j] /\ ranWith'[j] = ranWith[j]
  BY <1>1, HappensFields DEF Transact, GwInv
<1>5. UNCHANGED <<klass, undone, wire, replied, calls, answers>>
  BY DEF Transact
<1>6. KeyInv(g.key) /\ ran[g.key] = 0 /\ klass[g.key] = "transactional"
  BY <1>1 DEF GwInv, KeysInv, KeyInv, Class
<1>7. TypeOK'
  BY <1>2, <1>3, <1>4, <1>5 DEF GwInv, TypeOK
<1>8. CallInv'
  BY <1>1, <1>2, <1>3, <1>5 DEF GwInv, CallInv, Is
<1>9. KeysInv'
  <2>1. ASSUME NEW k \in Keys, k # g.key PROVE KeyInv(k)'
    BY <1>2, <1>3, <1>4, <1>5, <2>1, OtherKey
  <2>2. KeyInv(g.key)'
    BY <1>2, <1>3, <1>4, <1>5, <1>6 DEF KeyInv, Is, InCall
  <2> QED BY <1>2, <2>1, <2>2 DEF KeysInv
<1>10. WireInv'
  <2>1. \A r \in wire \cup replied : r.key \in Keys /\ r.key # g.key
    BY <1>1, <1>6, RequestFields DEF GwInv, WireInv, Remote
  <2> QED BY <1>4, <1>5, <2>1 DEF GwInv, WireInv
<1>11. ToldInv'
  BY <1>1, <1>2, <1>3, <1>5, NoRowNotTold, ToldKept
<1> QED BY <1>7, <1>8, <1>9, <1>10, <1>11 DEF GwInv

LEMMA IntendGwInv == ASSUME GwInv, Intend PROVE GwInv'
<1>1. g.pc = "intent" /\ g.key \in Keys /\ g.fp \in Args
      /\ \/ Class = "irreversible" /\ row[g.key] = None
         \/ Class = "compensatable" /\ (row[g.key] = None \/ Seen("prepared"))
  BY DEF Intend, At, GwInv, CallInv
<1>2. PICK pc \in {"start", "effect"} :
          Goto(pc) /\ pc = IF Class = "compensatable" THEN "start" ELSE "effect"
  BY DEF Intend
<1>3. g' \in CallState /\ g'.pc = pc /\ g'.key = g.key /\ g'.fp = g.fp
  BY <1>2, GotoFields DEF GwInv
<1>4. /\ row' \in [Keys -> Row \cup {None}]
      /\ row'[g.key] # None /\ row'[g.key].status = "prepared"
      /\ row'[g.key].fp = IF row[g.key] = None THEN g.fp ELSE row[g.key].fp
      /\ \A k \in Keys : k # g.key => row'[k] = row[k]
  BY <1>1, RecordFields DEF Intend, GwInv
<1>5. UNCHANGED <<klass, ran, ranWith, undone, wire, replied, calls, answers>>
  BY DEF Intend, world
<1>6. row'[g.key].fp = g.fp
  BY <1>1, <1>4 DEF Seen
<1>7. KeyInv(g.key)
  BY <1>1 DEF GwInv, KeysInv
<1>8. TypeOK'
  BY <1>3, <1>4, <1>5 DEF GwInv, TypeOK
<1>9. CallInv'
  BY <1>1, <1>2, <1>3, <1>4, <1>5, <1>6 DEF GwInv, CallInv, Class, Seen
<1>10. KeysInv'
  <2>1. ASSUME NEW k \in Keys, k # g.key PROVE KeyInv(k)'
    BY <1>3, <1>4, <1>5, <2>1, OtherKey
  <2>2. KeyInv(g.key)'
    BY <1>1, <1>2, <1>3, <1>4, <1>5, <1>7 DEF KeyInv, Is, InCall, Class, Seen
  <2> QED BY <1>3, <2>1, <2>2 DEF KeysInv
<1>11. WireInv'
  BY <1>5 DEF GwInv, WireInv
<1>12. ToldInv'
  <2>1. \A a \in answers : a.key = g.key => FALSE
    <3> SUFFICES ASSUME NEW a \in answers, a.key = g.key PROVE FALSE
      OBVIOUS
    <3>1. row[g.key] # None /\ Class = "compensatable" /\ row[g.key].status = "prepared"
      BY <1>1, NoRowNotTold DEF Seen
    <3> QED BY <3>1, AnswerFields DEF GwInv, ToldInv, Is, Class
  <2> QED BY <1>3, <1>4, <1>5, <2>1, ToldKept
<1> QED BY <1>8, <1>9, <1>10, <1>11, <1>12 DEF GwInv

LEMMA StartGwInv == ASSUME GwInv, Start PROVE GwInv'
<1>1. g.pc = "start" /\ g.key \in Keys /\ g.fp \in Args /\ Class = "compensatable" /\ Seen("prepared")
  BY DEF Start, At, GwInv, CallInv
<1>2. g' \in CallState /\ g'.pc = "effect" /\ g'.key = g.key /\ g'.fp = g.fp
  BY GotoFields DEF Start, GwInv
<1>3. /\ row' \in [Keys -> Row \cup {None}]
      /\ row'[g.key] # None /\ row'[g.key].status = "effect_started" /\ row'[g.key].fp = g.fp
      /\ \A k \in Keys : k # g.key => row'[k] = row[k]
  BY <1>1, RecordFields DEF Start, GwInv, Seen
<1>4. UNCHANGED <<klass, ran, ranWith, undone, wire, replied, calls, answers>>
  BY DEF Start, world
<1>5. KeyInv(g.key) /\ ran[g.key] = 0 /\ g.key \notin undone
  BY <1>1 DEF GwInv, KeysInv, KeyInv, Class, Seen, Is
<1>6. TypeOK'
  BY <1>2, <1>3, <1>4 DEF GwInv, TypeOK
<1>7. CallInv'
  BY <1>1, <1>2, <1>3, <1>4, <1>5 DEF GwInv, CallInv, Class, Seen
<1>8. KeysInv'
  <2>1. ASSUME NEW k \in Keys, k # g.key PROVE KeyInv(k)'
    BY <1>2, <1>3, <1>4, <2>1, OtherKey
  <2>2. KeyInv(g.key)'
    BY <1>1, <1>2, <1>3, <1>4, <1>5 DEF KeyInv, Is, InCall, Class
  <2> QED BY <1>2, <2>1, <2>2 DEF KeysInv
<1>9. WireInv'
  BY <1>4 DEF GwInv, WireInv
<1>10. ToldInv'
  <2>1. \A a \in answers : a.key # g.key
    BY <1>1, AnswerFields DEF GwInv, ToldInv, Is, Class, Seen
  <2> QED BY <1>2, <1>3, <1>4, <2>1, ToldKept
<1> QED BY <1>6, <1>7, <1>8, <1>9, <1>10 DEF GwInv

\* The row stays, and so does what the answers say of it.
LEMMA ToldSame ==
    ASSUME GwInv, UNCHANGED <<klass, row, answers>>,
           \A k \in Keys : InCall(k, {"effect", "await", "record"})'
                              => InCall(k, {"effect", "await", "record"})
    PROVE  ToldInv'
BY AnswerFields DEF GwInv, ToldInv, Is

\* PURE and OVERLAY, in the process itself; COMPENSATABLE, whose intent is there.
LEMMA LocalEffectGwInv == ASSUME GwInv, Read \/ Publish \/ Act PROVE GwInv'
<1>1. /\ g.pc = "effect" /\ g.key \in Keys /\ g.fp \in Args
      /\ \/ Class \in {"pure", "overlay"} /\ row[g.key] = None
         \/ Class = "compensatable" /\ Seen("effect_started") /\ g.key \notin undone
  BY DEF Read, Publish, Act, At, GwInv, CallInv
<1>2. g' \in CallState /\ g'.pc = "record" /\ g'.key = g.key /\ g'.fp = g.fp
  BY GotoFields DEF Read, Publish, Act, GwInv
<1>3. UNCHANGED <<klass, row, undone, wire, replied, calls, answers>>
  BY DEF Read, Publish, Act, world
<1>4. KeyInv(g.key) /\ ran[g.key] \in {0, 1}
  BY <1>1 DEF GwInv, KeysInv, KeyInv
<1>5. /\ ran' \in [Keys -> Nat] /\ ranWith' \in [Keys -> Args \cup {None}]
      /\ \A j \in Keys : j # g.key => ran'[j] = ran[j] /\ ranWith'[j] = ranWith[j]
      /\ Class = "pure" => ran'[g.key] = ran[g.key] /\ ranWith'[g.key] = ranWith[g.key]
      /\ Class # "pure" => ran'[g.key] = 1
      /\ Class = "compensatable" => ranWith'[g.key] = g.fp
  <2>1. CASE Read
    BY <2>1 DEF Read, world, GwInv, TypeOK
  <2>2. CASE Publish
    <3>1. CASE ran[g.key] > 0
      BY <1>4, <2>2, <3>1 DEF Publish, GwInv, TypeOK
    <3>2. CASE ~(ran[g.key] > 0)
      <4>1. Happens(g.key, g.fp) /\ Class = "overlay" /\ ran[g.key] = 0
        BY <1>4, <2>2, <3>2 DEF Publish
      <4> QED BY <1>1, <4>1, HappensFields DEF GwInv
    <3> QED BY <3>1, <3>2
  <2>3. CASE Act
    <3>1. Happens(g.key, g.fp) /\ Class = "compensatable"
      BY <2>3 DEF Act
    <3>2. ran[g.key] = 0
      BY <1>1, <1>4, <3>1 DEF KeyInv, InCall, Class
    <3> QED BY <1>1, <3>1, <3>2, HappensFields DEF GwInv
  <2> QED BY <2>1, <2>2, <2>3
<1>6. TypeOK'
  BY <1>2, <1>3, <1>5 DEF GwInv, TypeOK
<1>7. CallInv'
  BY <1>1, <1>2, <1>3, <1>5 DEF GwInv, CallInv, Class, Seen
<1>8. KeysInv'
  <2>1. ASSUME NEW k \in Keys, k # g.key PROVE KeyInv(k)'
    BY <1>2, <1>3, <1>5, <2>1, OtherKey
  <2>2. KeyInv(g.key)'
    BY <1>1, <1>2, <1>3, <1>4, <1>5 DEF KeyInv, Is, InCall, Class, Seen
  <2> QED BY <1>2, <2>1, <2>2 DEF KeysInv
<1>9. WireInv'
  <2>1. \A r \in wire \cup replied : r.key \in Keys
    BY RequestFields DEF GwInv
  <2>2. \A r \in wire : klass[r.key] \in Remote
    BY DEF GwInv, WireInv
  <2>3. \A r \in wire : r.key # g.key
    BY <1>1, <2>2 DEF Class, Remote
  <2>4. \A r \in replied : r.key = g.key => ran'[r.key] = 1 /\ klass[r.key] # "irreversible"
    BY <1>1, <1>5 DEF GwInv, WireInv, Class
  <2> QED BY <1>3, <1>5, <2>1, <2>3, <2>4 DEF GwInv, WireInv
<1>10. ToldInv'
  BY <1>1, <1>2, <1>3, ToldSame DEF InCall
<1> QED BY <1>6, <1>7, <1>8, <1>9, <1>10 DEF GwInv

LEMMA SendGwInv == ASSUME GwInv, Send PROVE GwInv'
<1>1. /\ g.pc = "effect" /\ g.key \in Keys /\ g.fp \in Args /\ calls \in 1 .. MaxCalls
      /\ \/ Class = "idempotent" /\ row[g.key] = None
         \/ Class = "irreversible" /\ Seen("prepared")
  BY DEF Send, At, GwInv, CallInv, Remote
<1>2. g' \in CallState /\ g'.pc = "await" /\ g'.key = g.key /\ g'.fp = g.fp
  BY GotoFields DEF Send, GwInv
<1>3. /\ wire' = wire \cup {Sent} /\ Sent.key = g.key /\ Sent.fp = g.fp /\ Sent \in Request
      /\ UNCHANGED <<klass, row, ran, ranWith, undone, replied, calls, answers>>
  BY <1>1 DEF Send, Sent, Request
<1>4. KeyInv(g.key)
  BY <1>1 DEF GwInv, KeysInv
<1>5. Class = "irreversible" => ran[g.key] = 0 /\ \A r \in wire : r.key # g.key
  BY <1>1, <1>4 DEF KeyInv, InCall, Class
<1>6. TypeOK'
  BY <1>2, <1>3 DEF GwInv, TypeOK
<1>7. CallInv'
  BY <1>1, <1>2, <1>3 DEF GwInv, CallInv, Class, Seen, Remote
<1>8. KeysInv'
  <2>1. ASSUME NEW k \in Keys, k # g.key PROVE KeyInv(k)'
    BY <1>2, <1>3, <2>1, OtherKey
  <2>2. KeyInv(g.key)'
    BY <1>1, <1>2, <1>3, <1>4 DEF KeyInv, Is, InCall, Class, Seen
  <2> QED BY <1>2, <2>1, <2>2 DEF KeysInv
<1>9. WireInv'
  BY <1>1, <1>3, <1>5 DEF GwInv, WireInv, Class, Remote
<1>10. ToldInv'
  BY <1>1, <1>2, <1>3, ToldSame DEF InCall
<1> QED BY <1>6, <1>7, <1>8, <1>9, <1>10 DEF GwInv

\* The service answers a request, of this call or of one whose sender is gone.
LEMMA ServeGwInv == ASSUME GwInv, NEW r \in wire, Serve(r) PROVE GwInv'
<1>1. /\ wire' = wire \ {r} /\ replied' = replied \cup {r}
      /\ UNCHANGED <<klass, row, undone, calls, g, answers>>
  BY DEF Serve
<1>2. /\ r.key \in Keys /\ r.fp \in Args /\ klass[r.key] \in {"idempotent", "irreversible"}
      /\ klass[r.key] = "irreversible" => ran[r.key] = 0
  BY RequestFields DEF GwInv, WireInv, Remote
<1>3. KeyInv(r.key) /\ ran[r.key] \in {0, 1}
  BY <1>2 DEF GwInv, KeysInv, KeyInv
<1>4. /\ ran' \in [Keys -> Nat] /\ ranWith' \in [Keys -> Args \cup {None}]
      /\ \A j \in Keys : j # r.key => ran'[j] = ran[j] /\ ranWith'[j] = ranWith[j]
      /\ ran'[r.key] = 1 /\ (klass[r.key] = "irreversible" => ranWith'[r.key] = r.fp)
  <2>1. CASE klass[r.key] = "idempotent" /\ ran[r.key] > 0
    BY <1>2, <1>3, <2>1 DEF Serve, GwInv, TypeOK
  <2>2. CASE ~(klass[r.key] = "idempotent" /\ ran[r.key] > 0)
    <3>1. Happens(r.key, r.fp) /\ ran[r.key] = 0
      BY <1>2, <1>3, <2>2 DEF Serve
    <3> QED BY <1>2, <3>1, HappensFields DEF GwInv
  <2> QED BY <2>1, <2>2
<1>5. klass[r.key] = "irreversible" =>
          /\ row[r.key] # None /\ ~Is(r.key, "committed")
          /\ ~InCall(r.key, {"intent", "effect", "record"})
  <2> SUFFICES ASSUME klass[r.key] = "irreversible"
               PROVE  /\ row[r.key] # None /\ ~Is(r.key, "committed")
                      /\ ~InCall(r.key, {"intent", "effect", "record"})
    OBVIOUS
  <2>1. row[r.key] # None /\ ~Is(r.key, "committed") /\ ~InCall(r.key, {"intent", "effect"})
    BY <1>2, <1>3 DEF KeyInv
  <2>2. ~InCall(r.key, {"record"})
    BY <1>2 DEF GwInv, CallInv, InCall, Class
  <2> QED BY <2>1, <2>2 DEF InCall
<1>6. TypeOK'
  BY <1>1, <1>4 DEF GwInv, TypeOK
<1>7. CallInv'
  <2>1. g.pc = "record" => /\ Class # "pure" => ran'[g.key] = 1
                           /\ Class \in {"compensatable", "irreversible"} => ranWith'[g.key] = g.fp
    <3>1. CASE g.key = r.key
      BY <1>2, <1>4, <1>5, <3>1 DEF InCall, Class
    <3>2. CASE g.key # r.key
      BY <1>4, <3>2 DEF GwInv, CallInv
    <3> QED BY <3>1, <3>2
  <2> QED BY <1>1, <2>1 DEF GwInv, CallInv, Class, Seen, Is
<1>8. KeysInv'
  <2>1. ASSUME NEW k \in Keys, k # r.key PROVE KeyInv(k)'
    <3>1. KeyInv(k)
      BY DEF GwInv, KeysInv
    <3> QED BY <1>1, <1>4, <2>1, <3>1 DEF KeyInv, Is, InCall
  <2>2. KeyInv(r.key)'
    BY <1>1, <1>2, <1>3, <1>4, <1>5 DEF KeyInv, Is, InCall
  <2> QED BY <2>1, <2>2 DEF KeysInv
<1>9. WireInv'
  <2>1. \A s \in wire \cup replied : s.key \in Keys
    BY RequestFields DEF GwInv
  <2>2. \A s \in wire \ {r} : klass[s.key] \in Remote /\ (klass[s.key] = "irreversible" => ran'[s.key] = 0)
    BY <1>2, <1>4, <2>1 DEF GwInv, WireInv
  <2>3. \A s \in replied : s.key = r.key => klass[s.key] # "irreversible" /\ ran'[s.key] = 1
    BY <1>2, <1>4 DEF GwInv, WireInv
  <2>4. \A s \in replied \cup {r} : ran'[s.key] = 1 /\ (klass[s.key] = "irreversible" => ranWith'[s.key] = s.fp)
    BY <1>4, <2>1, <2>3 DEF GwInv, WireInv
  <2> QED BY <1>1, <2>2, <2>4 DEF GwInv, WireInv
<1>10. ToldInv'
  BY <1>1, ToldSame DEF InCall
<1> QED BY <1>6, <1>7, <1>8, <1>9, <1>10 DEF GwInv

LEMMA ReplyGwInv == ASSUME GwInv, Reply PROVE GwInv'
<1>1. /\ g.pc = "await" /\ g.key \in Keys /\ g.fp \in Args /\ Class \in Remote
      /\ \/ Class = "idempotent" /\ row[g.key] = None
         \/ Class = "irreversible" /\ Seen("prepared")
  BY DEF Reply, At, GwInv, CallInv, Remote
<1>2. g' \in CallState /\ g'.pc = "record" /\ g'.key = g.key /\ g'.fp = g.fp
  BY GotoFields DEF Reply, GwInv
<1>3. UNCHANGED <<klass, row, ran, ranWith, undone, wire, replied, calls, answers>>
  BY DEF Reply, world
<1>4. ran[g.key] = 1 /\ (Class = "irreversible" => ranWith[g.key] = g.fp)
  <2>1. Sent \in replied /\ Sent.key = g.key /\ Sent.fp = g.fp
    BY DEF Reply, Sent
  <2> HIDE DEF Sent
  <2> QED BY <2>1 DEF GwInv, WireInv, Class
<1>5. TypeOK'
  BY <1>2, <1>3 DEF GwInv, TypeOK
<1>6. CallInv'
  BY <1>1, <1>2, <1>3, <1>4 DEF GwInv, CallInv, Class, Seen, Remote
<1>7. KeysInv'
  <2> SUFFICES ASSUME NEW k \in Keys PROVE KeyInv(k)'
    BY DEF KeysInv
  <2> QED BY <1>2, <1>3, OtherKey
<1>8. WireInv'
  BY <1>3 DEF GwInv, WireInv
<1>9. ToldInv'
  BY <1>1, <1>2, <1>3, ToldSame DEF InCall
<1> QED BY <1>5, <1>6, <1>7, <1>8, <1>9 DEF GwInv

LEMMA CommitGwInv == ASSUME GwInv, Commit PROVE GwInv'
<1>1. /\ g.pc = "record" /\ g.key \in Keys /\ g.fp \in Args
      /\ \/ Class \in {"pure", "overlay", "idempotent"} /\ row[g.key] = None
         \/ Class = "compensatable" /\ Seen("effect_started") /\ g.key \notin undone
         \/ Class = "irreversible" /\ Seen("prepared")
      /\ Class # "pure" => ran[g.key] = 1
      /\ Class \in {"compensatable", "irreversible"} => ranWith[g.key] = g.fp
  BY DEF Commit, At, GwInv, CallInv
<1>2. g' \in CallState /\ g'.pc = "done" /\ g'.key = g.key /\ g'.fp = g.fp
  BY GotoFields DEF Commit, GwInv
<1>3. /\ row' \in [Keys -> Row \cup {None}]
      /\ row'[g.key] # None /\ row'[g.key].status = "committed" /\ row'[g.key].fp = g.fp
      /\ \A k \in Keys : k # g.key => row'[k] = row[k]
  BY <1>1, RecordFields DEF Commit, GwInv, Seen
<1>4. UNCHANGED <<klass, ran, ranWith, undone, wire, replied, calls, answers>>
  BY DEF Commit, world
<1>5. KeyInv(g.key) /\ g.key \notin undone
  BY <1>1 DEF GwInv, KeysInv, KeyInv, Class
<1>6. TypeOK'
  BY <1>2, <1>3, <1>4 DEF GwInv, TypeOK
<1>7. CallInv'
  BY <1>1, <1>2, <1>3, <1>4 DEF GwInv, CallInv, Is
<1>8. KeysInv'
  <2>1. ASSUME NEW k \in Keys, k # g.key PROVE KeyInv(k)'
    BY <1>2, <1>3, <1>4, <2>1, OtherKey
  <2>2. KeyInv(g.key)'
    BY <1>1, <1>2, <1>3, <1>4, <1>5 DEF KeyInv, Is, InCall, Class
  <2> QED BY <1>2, <2>1, <2>2 DEF KeysInv
<1>9. WireInv'
  BY <1>4 DEF GwInv, WireInv
<1>10. ToldInv'
  <2>1. \A a \in answers : a.key # g.key
    BY <1>1, AnswerFields, NoRowNotTold DEF GwInv, ToldInv, Is, Class, Seen, InCall
  <2> QED BY <1>2, <1>3, <1>4, <2>1, ToldKept
<1> QED BY <1>6, <1>7, <1>8, <1>9, <1>10 DEF GwInv

LEMMA CompensateGwInv == ASSUME GwInv, Compensate PROVE GwInv'
<1>1. g.pc = "seen" /\ g.key \in Keys /\ g.fp \in Args /\ Class = "compensatable" /\ Seen("effect_started")
  BY DEF Compensate, At, GwInv, CallInv
<1>2. g' \in CallState /\ g'.pc = "undone" /\ g'.key = g.key /\ g'.fp = g.fp
  BY GotoFields DEF Compensate, GwInv
<1>3. undone' = undone \cup {g.key} /\ UNCHANGED <<klass, row, ran, ranWith, wire, replied, calls, answers>>
  BY DEF Compensate
<1>4. KeyInv(g.key)
  BY <1>1 DEF GwInv, KeysInv
<1>5. TypeOK'
  BY <1>1, <1>2, <1>3 DEF GwInv, TypeOK
<1>6. CallInv'
  BY <1>1, <1>2, <1>3 DEF GwInv, CallInv, Class, Seen, Is
<1>7. KeysInv'
  <2>1. ASSUME NEW k \in Keys, k # g.key PROVE KeyInv(k)'
    BY <1>2, <1>3, <2>1, OtherKey
  <2>2. KeyInv(g.key)'
    BY <1>1, <1>2, <1>3, <1>4 DEF KeyInv, Is, InCall, Class, Seen
  <2> QED BY <1>2, <2>1, <2>2 DEF KeysInv
<1>8. WireInv'
  BY <1>3 DEF GwInv, WireInv
<1>9. ToldInv'
  BY <1>2, <1>3, ToldSame DEF InCall
<1> QED BY <1>5, <1>6, <1>7, <1>8, <1>9 DEF GwInv

LEMMA RecordCompensatedGwInv == ASSUME GwInv, RecordCompensated PROVE GwInv'
<1>1. /\ g.pc = "undone" /\ g.key \in Keys /\ g.fp \in Args
      /\ Class = "compensatable" /\ Is(g.key, "effect_started") /\ g.key \in undone
  BY DEF RecordCompensated, At, GwInv, CallInv
<1>2. /\ row' \in [Keys -> Row \cup {None}]
      /\ row'[g.key] # None /\ row'[g.key].status = "compensated"
      /\ \A k \in Keys : k # g.key => row'[k] = row[k]
  BY <1>1, RecordFields DEF RecordCompensated, GwInv
<1>3. /\ UNCHANGED <<klass, ran, ranWith, undone, wire, replied, calls>>
      /\ g' = Idle /\ answers' = answers \cup {[key |-> g.key, status |-> "compensated", fp |-> g.fp]}
  BY DEF RecordCompensated, Return, world
<1>4. KeyInv(g.key)
  BY <1>1 DEF GwInv, KeysInv
<1>5. TypeOK'
  BY <1>1, <1>2, <1>3, IdleFields DEF GwInv, TypeOK, Answer
<1>6. CallInv'
  BY <1>3, IdleFields DEF CallInv
<1>7. KeysInv'
  <2>1. ASSUME NEW k \in Keys, k # g.key PROVE KeyInv(k)'
    BY <1>2, <1>3, <2>1, IdleFields, OtherKey
  <2>2. ASSUME NEW k \in Keys, k = g.key PROVE KeyInv(k)'
    BY <1>1, <1>2, <1>3, <1>4, <2>2, IdleFields DEF KeyInv, Is, InCall, Class
  <2> QED BY <2>1, <2>2 DEF KeysInv
<1>8. WireInv'
  BY <1>3 DEF GwInv, WireInv
<1>9. ToldInv'
  <2> SUFFICES ASSUME NEW a \in answers'
               PROVE  /\ a.status \in {"committed", "dedup_hit"} => Is(a.key, "committed")'
                      /\ a.status = "compensated" => Is(a.key, "compensated")'
                      /\ a.status = "uncertain" =>
                            klass[a.key] = "irreversible" /\ Is(a.key, "prepared")'
    BY <1>3, IdleFields DEF ToldInv, Is, InCall
  <2>1. CASE a \in answers
    <3>1. a.key # g.key /\ a.key \in Keys
      BY <1>1, <2>1, AnswerFields DEF GwInv, ToldInv, Is
    <3> QED BY <1>2, <2>1, <3>1 DEF GwInv, ToldInv, Is
  <2>2. CASE a = [key |-> g.key, status |-> "compensated", fp |-> g.fp]
    BY <1>2, <2>2 DEF Is
  <2> QED BY <1>3, <2>1, <2>2
<1> QED BY <1>5, <1>6, <1>7, <1>8, <1>9 DEF GwInv

LEMMA NextGwInv == ASSUME GwInv, [GwNext]_gwVars PROVE GwInv'
<1>1. CASE Mismatch \/ Raise
  BY <1>1, SilentEndGwInv DEF Mismatch, Raise
<1>2. CASE DedupHit
  BY <1>2, AnswerGwInv DEF DedupHit, At, Seen, Is
<1>3. CASE AlreadyCompensated
  BY <1>3, AnswerGwInv DEF AlreadyCompensated, At, Seen, Is
<1>4. CASE Uncertain
  BY <1>4, AnswerGwInv DEF Uncertain, At, Seen, Is
<1>5. CASE Committed
  <2>1. g.pc = "done" /\ Is(g.key, "committed")
    BY <1>5 DEF Committed, At, GwInv, CallInv
  <2> QED BY <1>5, <2>1, AnswerGwInv DEF Committed
<1>6. CASE UNCHANGED gwVars
  BY <1>6 DEF gwVars, world, GwInv, TypeOK, CallInv, KeysInv, KeyInv, WireInv, ToldInv, Is, InCall,
              Seen, Class
<1> QED
  BY <1>1, <1>2, <1>3, <1>4, <1>5, <1>6, CallGwInv, ProceedGwInv, TransactGwInv, IntendGwInv, StartGwInv,
     LocalEffectGwInv, SendGwInv, ServeGwInv, ReplyGwInv, CommitGwInv, CompensateGwInv, RecordCompensatedGwInv
     DEF GwNext, GwStep, Service

\* The inductive invariant holds in every state of the gateway.
LEMMA GatewayInvariant == GwSpec => []GwInv
BY InitGwInv, NextGwInv, PTL DEF GwSpec
-----------------------------------------------------------------------------
(***************************************************************************)
(* What the runs check, for any number of actions, args and calls.         *)
(***************************************************************************)
\* The gateway's variables keep the types of gw_keys, of the call and of the wire.
THEOREM GatewayTypes == GwSpec => []TypeOK
<1>1. GwInv => TypeOK
  BY DEF GwInv
<1> QED BY <1>1, GatewayInvariant, PTL

\* What GwInv says of every state, in the words of Gateway's invariants.
LEMMA GwPromises ==
    GwInv => /\ EffectAtMostOnce /\ SuccessIsReal /\ FailureIsFinal
             /\ IntentBeforeEffect /\ ArgsOfEffect
<1>1. GwInv => EffectAtMostOnce
  <2> SUFFICES ASSUME GwInv, NEW k \in Keys PROVE ran[k] <= 1
    BY DEF EffectAtMostOnce
  <2>1. ran[k] = 0 \/ ran[k] = 1
    BY DEF GwInv, KeysInv, KeyInv
  <2> QED BY <2>1
<1>2. ASSUME GwInv, NEW k \in Keys, klass[k] # "pure", Told(k, {"committed", "dedup_hit"})
      PROVE  ran[k] = 1 /\ k \notin undone
  <2>1. Is(k, "committed")
    BY <1>2 DEF GwInv, ToldInv, Told
  <2>2. KeyInv(k)
    BY <1>2 DEF GwInv, KeysInv
  <2> QED BY <1>2, <2>1, <2>2 DEF KeyInv, Is
<1>3. GwInv => SuccessIsReal
  BY <1>2 DEF SuccessIsReal
<1>4. GwInv => FailureIsFinal
  BY DEF GwInv, ToldInv, Told, Is, FailureIsFinal
<1>5. ASSUME GwInv, NEW k \in Keys
      PROVE  /\ (klass[k] = "irreversible" /\ (ran[k] > 0 \/ \E r \in wire : r.key = k)) => row[k] # None
             /\ (klass[k] = "compensatable" /\ ran[k] > 0 /\ k \notin undone)
                   => row[k].status \in {"effect_started", "committed"}
             /\ (row[k] # None /\ row[k].status = "compensated" /\ ran[k] > 0) => k \in undone
  <2>1. KeyInv(k)
    BY <1>5 DEF GwInv, KeysInv
  <2>2. row[k] # None => row[k].status \in {"prepared", "effect_started", "committed", "compensated"}
    BY <1>5 DEF GwInv, TypeOK, Row
  <2> QED BY <2>1, <2>2 DEF KeyInv, Is
<1>6. GwInv => IntentBeforeEffect
  BY <1>5 DEF IntentBeforeEffect
<1>7. ASSUME GwInv, NEW k \in Keys, Recorded(k),
             klass[k] \in {"transactional", "compensatable", "irreversible"}
      PROVE  row[k].fp = ranWith[k]
  BY <1>7 DEF GwInv, KeysInv, KeyInv, Recorded, Is
<1>8. GwInv => ArgsOfEffect
  BY <1>7 DEF ArgsOfEffect
<1> QED BY <1>1, <1>3, <1>4, <1>6, <1>8

\* I1 for every class: dying, timing out and repeating the call of an action
\* never makes its effect take place twice.
THEOREM ActionUniqueness == GwSpec => []EffectAtMostOnce
BY GwPromises, GatewayInvariant, PTL

\* Success that call() has reported stands: the effect is there for good.
THEOREM SuccessStands == GwSpec => []SuccessIsReal
BY GwPromises, GatewayInvariant, PTL

\* A compensated or uncertain action is never retried into a success.
THEOREM FailureStands == GwSpec => []FailureIsFinal
BY GwPromises, GatewayInvariant, PTL

\* Recovery finds an intent of every effect that must not be repeated.
THEOREM IntentFirst == GwSpec => []IntentBeforeEffect
BY GwPromises, GatewayInvariant, PTL

\* The content check of a replay compares with the args the effect ran with.
THEOREM ArgsRecorded == GwSpec => []ArgsOfEffect
BY GwPromises, GatewayInvariant, PTL
=============================================================================
