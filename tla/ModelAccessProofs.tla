-------------------------- MODULE ModelAccessProofs --------------------------
(***************************************************************************)
(* Proofs about ModelAccess, for any finite set of callers in any number   *)
(* of processes, every patience and every value of the bounds.             *)
(***************************************************************************)
EXTENDS ModelAccess, FiniteSetTheorems, TLAPS

(* The part of the types the arguments rest on. *)
Typed ==
  /\ pc \in [Caller -> Place]
  /\ slot \in Caller \union {Nobody}
  /\ left \in [Caller -> 0..Patience]
  /\ orphans \in Nat
  /\ {timeouts, crashes, losses} \subseteq Nat

(* The callers past the lock that do not hold it. *)
Strays == Inside \ {slot}

(* Every stray answers for a lost session, and every stray or orphan for   *)
(* something that went wrong.                                              *)
Charged == Cardinality(Strays) + orphans <= losses + crashes + timeouts

(* As long as no session was lost and nobody timed out, what a client has  *)
(* waited in vain and what it may still have to wait for are crashes.      *)
Patient ==
  losses = 0 /\ timeouts = 0 =>
    \A c \in Asking : (Patience - left[c]) + orphans <= crashes

Inv == Typed /\ OneInside /\ Charged /\ Patient /\ TimeoutsExplained

(* ------------------------------ Finite sets ----------------------------- *)

(* Sets of callers are finite, and a part of one is no larger.             *)
LEMMA CallerSets ==
  ASSUME NEW S \in SUBSET Caller
  PROVE  /\ IsFiniteSet(S)
         /\ Cardinality(S) \in Nat
         /\ \A T \in SUBSET S : Cardinality(T) <= Cardinality(S)
         /\ \A x : /\ IsFiniteSet(S \union {x})
                   /\ Cardinality(S \union {x}) <= Cardinality(S) + 1
         /\ Cardinality(S) = 0 => S = {}
<1>1. IsFiniteSet(S)
  BY FS_Subset, CallerAssumption
<1>2. Cardinality(S) \in Nat
  BY <1>1, FS_CardinalityType
<1>3. \A T \in SUBSET S : Cardinality(T) <= Cardinality(S)
  BY <1>1, FS_Subset
<1>4. ASSUME NEW x
      PROVE  /\ IsFiniteSet(S \union {x})
             /\ Cardinality(S \union {x}) <= Cardinality(S) + 1
  <2>1. /\ IsFiniteSet(S \union {x})
        /\ Cardinality(S \union {x}) = IF x \in S THEN Cardinality(S) ELSE Cardinality(S) + 1
    BY <1>1, FS_AddElement
  <2>2. QED
    BY <1>2, <2>1
<1>5. Cardinality(S) = 0 => S = {}
  BY <1>1, FS_EmptySet
<1>6. QED
  BY <1>1, <1>2, <1>3, <1>4, <1>5

(* At most one caller more is past the lock than there are strays.         *)
LEMMA InsideBound ==
  ASSUME NEW S \in SUBSET Caller, NEW x
  PROVE  Cardinality(S) <= Cardinality(S \ {x}) + 1
<1>1. S \in SUBSET ((S \ {x}) \union {x})
  OBVIOUS
<1>2. S \ {x} \in SUBSET Caller
  OBVIOUS
<1>3. /\ IsFiniteSet((S \ {x}) \union {x})
      /\ Cardinality((S \ {x}) \union {x}) <= Cardinality(S \ {x}) + 1
  BY <1>2, CallerSets
<1>4. Cardinality(S) <= Cardinality((S \ {x}) \union {x})
  BY <1>1, <1>3, FS_Subset
<1>5. /\ Cardinality(S) \in Nat
      /\ Cardinality(S \ {x}) \in Nat
      /\ Cardinality((S \ {x}) \union {x}) \in Nat
  BY <1>2, <1>3, CallerSets, FS_CardinalityType
<1>6. QED
  BY <1>3, <1>4, <1>5

LEMMA SetFacts ==
  /\ Inside \in SUBSET Caller
  /\ Strays \in SUBSET Caller
  /\ Asking \in SUBSET Inside
  /\ Cardinality(Strays) \in Nat
  /\ Cardinality(Asking) \in Nat
<1>1. /\ Inside \in SUBSET Caller
      /\ Strays \in SUBSET Caller
      /\ Asking \in SUBSET Inside
  BY DEF Inside, Strays, Asking, At
<1>2. QED
  BY <1>1, CallerSets

(* Without a lost session, only the holder of the slot is past the lock.   *)
LEMMA OnlyHolder ==
  ASSUME Inv, losses = 0
  PROVE  Inside \subseteq {slot}
<1>1. Cardinality(Strays) = 0
  BY SetFacts DEF Inv, OneInside, Strays
<1>2. Strays = {}
  BY <1>1, SetFacts, CallerSets
<1>3. QED
  BY <1>2 DEF Strays

(* One caller moves.                                                       *)
LEMMA MoveSets ==
  ASSUME Typed, NEW c \in Caller, NEW place \in Place, Goto(c, place)
  PROVE  /\ pc' \in [Caller -> Place]
         /\ Inside' = IF place \in {"entered", "asking", "answered", "leaving"}
                      THEN Inside \union {c} ELSE Inside \ {c}
         /\ Asking' = IF place = "asking" THEN Asking \union {c} ELSE Asking \ {c}
  BY DEF Typed, Goto, Inside, Asking, At

(* --------------------------------- Steps -------------------------------- *)

(* A step that brings no stray, no orphan and no client that has waited.   *)
LEMMA NoWorse ==
  ASSUME Inv, Typed', Strays' \subseteq Strays, orphans' <= orphans,
         losses' = losses, timeouts' = timeouts, crashes' = crashes,
         \A c \in Asking' : \/ left'[c] = Patience
                            \/ c \in Asking /\ left'[c] = left[c]
  PROVE  Inv'
<1>1. /\ Cardinality(Strays') <= Cardinality(Strays)
      /\ Cardinality(Strays) \in Nat
      /\ Cardinality(Strays') \in Nat
  BY SetFacts, CallerSets
<1>2. /\ losses \in Nat /\ timeouts \in Nat /\ crashes \in Nat
      /\ orphans \in Nat /\ orphans' \in Nat
  BY DEF Inv, Typed
<1>3. OneInside'
  BY <1>1, <1>2 DEF Inv, OneInside, Strays
<1>4. Charged'
  BY <1>1, <1>2 DEF Inv, Charged
<1>5. Patient'
  <2>1. SUFFICES ASSUME losses = 0, timeouts = 0, NEW c \in Asking'
                 PROVE  (Patience - left'[c]) + orphans' <= crashes
    BY DEF Patient
  <2>2. orphans <= crashes
    BY <1>1, <1>2, <2>1 DEF Inv, Charged
  <2>3. CASE left'[c] = Patience
    <3>1. Patience - left'[c] = 0
      BY <2>3, BoundsAssumption
    <3>2. QED
      BY <1>2, <2>2, <3>1
  <2>4. CASE c \in Asking /\ left'[c] = left[c]
    <3>1. (Patience - left[c]) + orphans <= crashes
      BY <2>1, <2>4 DEF Inv, Patient
    <3>2. left[c] \in Nat
      BY <2>4 DEF Inv, Typed, Asking
    <3>3. QED
      BY <1>2, <2>4, <3>1, <3>2, BoundsAssumption
  <2>5. QED
    BY <2>1, <2>3, <2>4
<1>6. TimeoutsExplained'
  BY DEF Inv, TimeoutsExplained
<1>7. QED
  BY <1>3, <1>4, <1>5, <1>6 DEF Inv

LEMMA WaitingSteps ==
  ASSUME Inv, NEW c \in Caller, Call(c) \/ Enter(c) \/ LoseWait(c)
  PROVE  Inv'
<1>1. Typed
  BY DEF Inv
<1>2. CASE Call(c)
  <2>1. Goto(c, "waiting") /\ "waiting" \in Place
    BY <1>2 DEF Call, Place
  <2>2. /\ pc' \in [Caller -> Place]
        /\ Inside' = Inside \ {c}
        /\ Asking' = Asking \ {c}
    BY <1>1, <2>1, MoveSets
  <2>3. Typed' /\ Strays' \subseteq Strays
    BY <1>1, <1>2, <2>2 DEF Call, historyVars, Typed, Strays
  <2>4. QED
    BY <1>1, <1>2, <2>2, <2>3, NoWorse DEF Call, historyVars, Typed
<1>3. CASE Enter(c)
  <2>1. Goto(c, "entered") /\ "entered" \in Place
    BY <1>3 DEF Enter, Place
  <2>2. /\ pc' \in [Caller -> Place]
        /\ Inside' = Inside \union {c}
        /\ Asking' = Asking \ {c}
    BY <1>1, <2>1, MoveSets
  <2>3. Strays = Inside
    BY <1>3, CallerAssumption DEF Enter, Strays, Inside
  <2>4. Typed' /\ Strays' \subseteq Strays
    BY <1>1, <1>3, <2>2, <2>3 DEF Enter, historyVars, Typed, Strays
  <2>5. QED
    BY <1>1, <1>3, <2>2, <2>4, NoWorse DEF Enter, historyVars, Typed
<1>4. CASE LoseWait(c)
  <2>1. Goto(c, "idle") /\ "idle" \in Place
    BY <1>4 DEF LoseWait, Place
  <2>2. /\ pc' \in [Caller -> Place]
        /\ Inside' = Inside \ {c}
        /\ Asking' = Asking \ {c}
    BY <1>1, <2>1, MoveSets
  <2>3. Inside' = Inside
    BY <1>4, <2>2 DEF LoseWait, Inside, At
  <2>4. /\ losses' = losses + 1
        /\ losses \in Nat /\ crashes \in Nat /\ timeouts \in Nat /\ orphans \in Nat
        /\ UNCHANGED <<slot, left, orphans, timeouts, crashes>>
    BY <1>1, <1>4 DEF LoseWait, Typed, callVars
  <2>5. Typed' /\ Strays' = Strays
    BY <1>1, <2>2, <2>3, <2>4 DEF Typed, Strays
  <2>6. OneInside' /\ Charged'
    BY <2>4, <2>5, SetFacts DEF Inv, OneInside, Charged, Strays
  <2>7. Patient' /\ TimeoutsExplained'
    BY <2>4 DEF Patient, TimeoutsExplained
  <2>8. QED
    BY <2>5, <2>6, <2>7 DEF Inv
<1>5. QED
  BY <1>2, <1>3, <1>4

(* The steps inside but a time-out: the caller goes on, or is about to leave. *)
LEMMA InsideSteps ==
  ASSUME Inv, NEW c \in Caller,
         \/ FallBack(c) \/ Ask(c) \/ Refused(c) \/ Succeed(c) \/ Repair(c) \/ Unusable(c)
  PROVE  Inv'
<1>1. /\ Typed
      /\ c \in Inside
  BY DEF Inv, FallBack, Ask, Refused, Succeed, Repair, Unusable, Inside, At
<1>2. UNCHANGED <<slot, orphans, timeouts, crashes, losses>>
  BY DEF FallBack, Ask, Refused, Succeed, Repair, Unusable, Fail, historyVars
<1>3. CASE Goto(c, "leaving") /\ UNCHANGED left
  <2>1. /\ pc' \in [Caller -> Place]
        /\ Inside' = Inside \union {c}
        /\ Asking' = Asking \ {c}
    BY <1>1, <1>3, MoveSets DEF Place
  <2>2. Typed' /\ Strays' \subseteq Strays
    BY <1>1, <1>2, <1>3, <2>1 DEF Typed, Strays
  <2>3. QED
    BY <1>1, <1>2, <1>3, <2>1, <2>2, NoWorse DEF Typed
<1>4. CASE Send(c)
  <2>1. /\ pc' \in [Caller -> Place]
        /\ Inside' = Inside \union {c}
        /\ Asking' = Asking \union {c}
    BY <1>1, <1>4, MoveSets DEF Send, Place
  <2>2. Typed' /\ Strays' \subseteq Strays
    <3>1. Patience \in 0..Patience
      BY BoundsAssumption
    <3>2. left' \in [Caller -> 0..Patience]
      BY <1>1, <1>4, <3>1 DEF Typed, Send
    <3>3. QED
      BY <1>1, <1>2, <2>1, <3>2 DEF Typed, Strays
  <2>3. \A d \in Asking' : left'[d] = Patience \/ (d \in Asking /\ left'[d] = left[d])
    BY <1>1, <1>4, <2>1 DEF Send, Typed, Asking
  <2>4. QED
    BY <1>1, <1>2, <2>2, <2>3, NoWorse DEF Typed
<1>5. QED
  BY <1>3, <1>4 DEF FallBack, Ask, Refused, Succeed, Repair, Unusable, Fail

LEMMA LeaveStep ==
  ASSUME Inv, NEW c \in Caller, Leave(c)
  PROVE  Inv'
<1>1. Typed /\ Goto(c, "idle") /\ "idle" \in Place
  BY DEF Inv, Leave, Place
<1>2. /\ pc' \in [Caller -> Place]
      /\ Inside' = Inside \ {c}
      /\ Asking' = Asking \ {c}
  BY <1>1, MoveSets
<1>3. UNCHANGED <<orphans, timeouts, crashes, losses>>
  BY DEF Leave, historyVars
<1>4. slot' \in Caller \union {Nobody} /\ (slot' = slot \/ slot = c)
  BY <1>1 DEF Leave, Typed
<1>5. Typed'
  BY <1>1, <1>2, <1>3, <1>4, BoundsAssumption DEF Leave, Typed
<1>6. Strays' \subseteq Strays
  BY <1>2, <1>4 DEF Strays
<1>7. \A d \in Asking' : d \in Asking /\ left'[d] = left[d]
  BY <1>1, <1>2 DEF Leave, Typed, Asking
<1>8. QED
  BY <1>1, <1>3, <1>5, <1>6, <1>7, NoWorse DEF Typed

LEMMA CoolStep ==
  ASSUME Inv, NEW p, Cool(p)
  PROVE  Inv'
<1>1. UNCHANGED <<pc, slot, left, orphans, timeouts, crashes, losses>>
  BY DEF Cool, callVars, historyVars
<1>2. QED
  BY <1>1 DEF Inv, Typed, OneInside, Charged, Patient, TimeoutsExplained, Inside, Asking, At, Strays

(* A time-out: another orphan, and the first one means that this many      *)
(* processes had crashed.                                                  *)
LEMMA TimeOutStep ==
  ASSUME Inv, NEW c \in Caller, TimeOut(c)
  PROVE  Inv'
<1>1. /\ Typed /\ c \in Asking /\ c \in Inside /\ left[c] = 0
      /\ Goto(c, "leaving") /\ "leaving" \in Place
      /\ orphans' = orphans + 1 /\ timeouts' = timeouts + 1
      /\ UNCHANGED <<slot, left, crashes, losses>>
      /\ orphans \in Nat /\ timeouts \in Nat /\ crashes \in Nat /\ losses \in Nat
  BY DEF Inv, Typed, TimeOut, Fail, Inside, Asking, At, Place
<1>2. /\ pc' \in [Caller -> Place]
      /\ Inside' = Inside
  BY <1>1, MoveSets
<1>3. Typed' /\ Strays' = Strays
  BY <1>1, <1>2 DEF Typed, Strays
<1>4. OneInside' /\ Charged'
  BY <1>1, <1>3, SetFacts DEF Inv, OneInside, Charged, Strays
<1>5. Patient'
  BY <1>1 DEF Patient
<1>6. losses > 0 \/ crashes >= Patience
  <2>1. CASE timeouts > 0
    BY <2>1 DEF Inv, TimeoutsExplained
  <2>2. CASE losses = 0 /\ timeouts = 0
    <3>1. (Patience - 0) + orphans <= crashes
      BY <1>1, <2>2 DEF Inv, Patient
    <3>2. QED
      BY <1>1, <3>1, BoundsAssumption
  <2>3. QED
    BY <1>1, <2>1, <2>2
<1>7. TimeoutsExplained'
  BY <1>1, <1>6 DEF TimeoutsExplained
<1>8. QED
  BY <1>3, <1>4, <1>5, <1>7 DEF Inv

(* The gateway generates: an answer, or one orphan less and one tick less  *)
(* for the client that waits.                                              *)
LEMMA TickStep ==
  ASSUME Inv, Tick
  PROVE  Inv'
<1>1. /\ Typed
      /\ UNCHANGED <<slot, timeouts, crashes, losses>>
      /\ orphans \in Nat /\ timeouts \in Nat /\ crashes \in Nat /\ losses \in Nat
      /\ \A c \in Asking : left[c] \in 1..Patience
  BY DEF Inv, Typed, Tick, historyVars, Asking
<1>2. CASE TickAnswersNobody
  <2>1. /\ pc' = pc /\ orphans' = orphans - 1 /\ orphans > 0
        /\ left' = [c \in Caller |-> IF c \in Asking THEN left[c] - 1 ELSE left[c]]
    BY <1>2 DEF TickAnswersNobody, Wait
  <2>2. Inside' = Inside /\ Asking' = Asking /\ Strays' = Strays
    BY <1>1, <2>1 DEF Inside, Asking, Strays, At
  <2>3. \A c \in Caller : left'[c] \in 0..Patience
    <3>1. SUFFICES ASSUME NEW c \in Caller PROVE left'[c] \in 0..Patience
      OBVIOUS
    <3>2. CASE c \in Asking
      BY <1>1, <2>1, <3>2, BoundsAssumption
    <3>3. CASE c \notin Asking
      BY <1>1, <2>1, <3>3 DEF Typed
    <3>4. QED
      BY <3>2, <3>3
  <2>4. Typed'
    BY <1>1, <2>1, <2>3 DEF Typed
  <2>5. OneInside' /\ Charged' /\ TimeoutsExplained'
    BY <1>1, <2>1, <2>2, SetFacts DEF Inv, OneInside, Charged, TimeoutsExplained, Strays
  <2>6. Patient'
    <3>1. SUFFICES ASSUME losses = 0, timeouts = 0, NEW c \in Asking
                   PROVE  (Patience - left'[c]) + orphans' <= crashes
      BY <1>1, <2>2 DEF Patient
    <3>2. (Patience - left[c]) + orphans <= crashes
      BY <3>1 DEF Inv, Patient
    <3>3. left'[c] = left[c] - 1 /\ left[c] \in Nat
      BY <1>1, <2>1 DEF Asking
    <3>4. QED
      BY <1>1, <2>1, <3>2, <3>3, BoundsAssumption
  <2>7. QED
    BY <2>4, <2>5, <2>6 DEF Inv
<1>3. ASSUME NEW c \in Caller, TickAnswers(c) PROVE Inv'
  <2>1. /\ c \in Asking /\ c \in Inside
        /\ Goto(c, "answered") /\ "answered" \in Place
        /\ orphans' = orphans
        /\ left' = [d \in Caller |-> IF d \in Asking \ {c} THEN left[d] - 1 ELSE left[d]]
    BY <1>3 DEF TickAnswers, Wait, Asking, Inside, At, Place
  <2>2. /\ pc' \in [Caller -> Place]
        /\ Inside' = Inside \union {c}
        /\ Asking' = Asking \ {c}
    BY <1>1, <2>1, MoveSets
  <2>3. \A d \in Caller : left'[d] \in 0..Patience
    <3>1. SUFFICES ASSUME NEW d \in Caller PROVE left'[d] \in 0..Patience
      OBVIOUS
    <3>2. CASE d \in Asking \ {c}
      BY <1>1, <2>1, <3>2, BoundsAssumption
    <3>3. CASE d \notin Asking \ {c}
      BY <1>1, <2>1, <3>3 DEF Typed
    <3>4. QED
      BY <3>2, <3>3
  <2>4. Typed' /\ Strays' = Strays
    <3>1. Inside' = Inside
      BY <2>1, <2>2
    <3>2. QED
      BY <1>1, <2>1, <2>2, <2>3, <3>1 DEF Typed, Strays
  <2>5. OneInside' /\ Charged' /\ TimeoutsExplained'
    BY <1>1, <2>1, <2>4, SetFacts DEF Inv, OneInside, Charged, TimeoutsExplained, Strays
  <2>6. losses = 0 => Asking' = {}
    BY <2>1, <2>2, OnlyHolder, SetFacts
  <2>7. Patient'
    BY <1>1, <2>6 DEF Patient
  <2>8. QED
    BY <2>4, <2>5, <2>7 DEF Inv
<1>4. QED
  BY <1>2, <1>3 DEF Tick

(* A session is lost: its caller becomes a stray.                          *)
LEMMA LoseSlotStep ==
  ASSUME Inv, LoseSlot
  PROVE  Inv'
<1>1. /\ Typed
      /\ slot' = Nobody
      /\ losses' = losses + 1
      /\ UNCHANGED <<pc, left, orphans, timeouts, crashes>>
      /\ orphans \in Nat /\ timeouts \in Nat /\ crashes \in Nat /\ losses \in Nat
  BY DEF Inv, Typed, LoseSlot, callVars
<1>2. Inside' = Inside /\ Strays' \in SUBSET Inside
  BY <1>1 DEF Inside, Strays, At
<1>3. /\ Cardinality(Strays') <= Cardinality(Strays) + 1
      /\ Cardinality(Strays') \in Nat
  <2>1. Cardinality(Inside) <= Cardinality(Strays) + 1
    BY SetFacts, InsideBound DEF Strays
  <2>2. Cardinality(Strays') <= Cardinality(Inside)
    BY <1>2, SetFacts, CallerSets
  <2>3. /\ Cardinality(Strays') \in Nat
        /\ Cardinality(Strays) \in Nat
        /\ Cardinality(Inside) \in Nat
    BY <1>2, SetFacts, CallerSets
  <2>4. QED
    BY <2>1, <2>2, <2>3
<1>4. Typed'
  BY <1>1 DEF Typed
<1>5. OneInside' /\ Charged'
  BY <1>1, <1>3, SetFacts DEF Inv, OneInside, Charged, Strays
<1>6. Patient' /\ TimeoutsExplained'
  BY <1>1 DEF Patient, TimeoutsExplained
<1>7. QED
  BY <1>4, <1>5, <1>6 DEF Inv

(* A process crashes: the requests of its threads become orphans, but none *)
(* of them was a stray any longer, and the crash itself makes up for the   *)
(* one that held the slot.                                                 *)
LEMMA CrashStep ==
  ASSUME Inv, NEW p \in Process, Crash(p)
  PROVE  Inv'
<1> DEFINE T == Threads(p)
           K == Asking \intersect T
<1>1. /\ Typed
      /\ crashes' = crashes + 1
      /\ orphans' = orphans + Cardinality(K)
      /\ slot' = IF slot \in T THEN Nobody ELSE slot
      /\ pc' = [c \in Caller |-> IF c \in T THEN "idle" ELSE pc[c]]
      /\ left' = [c \in Caller |-> IF c \in T THEN 0 ELSE left[c]]
      /\ UNCHANGED <<timeouts, losses>>
      /\ orphans \in Nat /\ timeouts \in Nat /\ crashes \in Nat /\ losses \in Nat
  BY DEF Inv, Typed, Crash, Fresh
<1>2. /\ Inside' = Inside \ T
      /\ Asking' = Asking \ T
  BY <1>1 DEF Inside, Asking, At
<1>3. /\ K \in SUBSET Caller
      /\ Cardinality(K) \in Nat
      /\ K \in SUBSET Inside
  BY SetFacts, CallerSets
<1>4. Typed'
  <2>1. /\ pc' \in [Caller -> Place]
        /\ left' \in [Caller -> 0..Patience]
        /\ slot' \in Caller \union {Nobody}
    BY <1>1, BoundsAssumption DEF Typed, Place
  <2>2. orphans' \in Nat /\ crashes' \in Nat
    BY <1>1, <1>3
  <2>3. QED
    BY <1>1, <2>1, <2>2 DEF Typed
<1>5. Strays' \subseteq Strays
  BY <1>1, <1>2 DEF Strays, Inside, Threads
<1>6. Cardinality(Strays') + Cardinality(K) <= Cardinality(Strays) + 1
  <2> DEFINE D == K \ {slot}
  <2>1. D \in SUBSET Strays /\ Strays' \in SUBSET Strays
    BY <1>3, <1>5 DEF Strays
  <2>2. Strays' \intersect D = {}
    BY <1>2 DEF Strays
  <2>3. Cardinality(K) <= Cardinality(D) + 1
    BY <1>3, InsideBound
  <2>4. IsFiniteSet(Strays') /\ IsFiniteSet(D)
    BY <2>1, SetFacts, CallerSets
  <2>5. Cardinality(Strays' \union D) =
          Cardinality(Strays') + Cardinality(D) - Cardinality(Strays' \intersect D)
    BY <2>4, FS_Union
  <2>6. Cardinality(Strays' \intersect D) = 0
    BY <2>2, FS_EmptySet
  <2>7. Strays' \union D \in SUBSET Strays
    BY <2>1
  <2>8. Cardinality(Strays' \union D) <= Cardinality(Strays)
    BY <2>7, SetFacts, CallerSets
  <2>9. /\ Cardinality(Strays) \in Nat /\ Cardinality(Strays') \in Nat
        /\ Cardinality(D) \in Nat
    BY <2>1, <2>4, SetFacts, FS_CardinalityType
  <2>10. QED
    BY <1>3, <2>3, <2>5, <2>6, <2>8, <2>9
<1>7. /\ Cardinality(Strays') \in Nat
      /\ Cardinality(Strays) \in Nat
      /\ Cardinality(Strays') <= Cardinality(Strays)
  BY <1>5, SetFacts, CallerSets
<1>8. OneInside'
  BY <1>1, <1>7 DEF Inv, OneInside, Strays
<1>9. Charged'
  BY <1>1, <1>3, <1>6, <1>7 DEF Inv, Charged
<1>10. TimeoutsExplained'
  BY <1>1, BoundsAssumption DEF Inv, TimeoutsExplained
<1>11. Patient'
  <2>1. SUFFICES ASSUME losses = 0, timeouts = 0, NEW c \in Asking'
                 PROVE  (Patience - left'[c]) + orphans' <= crashes'
    BY <1>1 DEF Patient
  <2>2. c \in Asking /\ c \notin T /\ c \in Caller
    BY <1>2 DEF Asking
  <2>3. K = {}
    <3>1. Asking \subseteq {c}
      BY <2>1, <2>2, OnlyHolder, SetFacts
    <3>2. QED
      BY <2>2, <3>1
  <2>4. orphans' = orphans
    <3>1. Cardinality(K) = 0
      BY <2>3, FS_EmptySet
    <3>2. QED
      BY <1>1, <3>1
  <2>5. left'[c] = left[c] /\ left[c] \in Nat
    BY <1>1, <2>2 DEF Typed
  <2>6. (Patience - left[c]) + orphans <= crashes
    BY <2>1, <2>2 DEF Inv, Patient
  <2>7. QED
    BY <1>1, <2>4, <2>5, <2>6, BoundsAssumption
<1>12. QED
  BY <1>4, <1>8, <1>9, <1>10, <1>11 DEF Inv

(* -------------------------------- Theorems ------------------------------ *)

LEMMA InitInv == Init => Inv
<1>1. SUFFICES ASSUME Init PROVE Inv
  OBVIOUS
<1>2. Inside = {} /\ Asking = {}
  BY <1>1 DEF Init, Inside, Asking, At
<1>3. Cardinality(Strays) = 0
  BY <1>2, FS_EmptySet DEF Strays
<1>4. Typed
  BY <1>1, BoundsAssumption DEF Init, Typed, Place
<1>5. QED
  BY <1>1, <1>2, <1>3, <1>4
  DEF Init, Inv, OneInside, Charged, Patient, TimeoutsExplained, Strays

LEMMA NextInv == Inv /\ [Next]_vars => Inv'
<1>1. SUFFICES ASSUME Inv, [Next]_vars PROVE Inv'
  OBVIOUS
<1>2. ASSUME NEW c \in Caller, Call(c) \/ Enter(c) \/ LoseWait(c) PROVE Inv'
  BY <1>1, <1>2, WaitingSteps
<1>3. ASSUME NEW c \in Caller,
             \/ FallBack(c) \/ Ask(c) \/ Refused(c) \/ Succeed(c) \/ Repair(c) \/ Unusable(c)
      PROVE  Inv'
  BY <1>1, <1>3, InsideSteps
<1>4. ASSUME NEW c \in Caller, TimeOut(c) \/ Leave(c) PROVE Inv'
  BY <1>1, <1>4, TimeOutStep, LeaveStep
<1>5. ASSUME NEW p \in Process, Cool(p) \/ Crash(p) PROVE Inv'
  BY <1>1, <1>5, CoolStep, CrashStep
<1>6. CASE Tick \/ LoseSlot
  BY <1>1, <1>6, TickStep, LoseSlotStep
<1>7. CASE UNCHANGED vars
  BY <1>1, <1>7 DEF vars, callVars, historyVars, Inv, Typed, OneInside, Charged, Patient,
     TimeoutsExplained, Inside, Asking, At, Strays
<1>8. QED
  BY <1>1, <1>2, <1>3, <1>4, <1>5, <1>6, <1>7 DEF Next

LEMMA Invariant == Spec => []Inv
  BY InitInv, NextInv, PTL DEF Spec

(* Only lost database sessions let a second caller past the advisory lock. *)
THEOREM SlotKeepsOneInside == Spec => []OneInside
<1>1. Inv => OneInside
  BY DEF Inv
<1>2. QED
  BY <1>1, Invariant, PTL

(* What the gateway has to do at a time is one request, and at most one    *)
(* more for every crash, lost session and time-out.                        *)
THEOREM SlotBoundsGatewayLoad == Spec => []GatewayLoad
<1>1. ASSUME Inv PROVE GatewayLoad
  <2>1. /\ Cardinality(Inside) <= Cardinality(Strays) + 1
        /\ Cardinality(Asking) <= Cardinality(Inside)
        /\ Cardinality(Inside) \in Nat
    BY SetFacts, InsideBound, CallerSets DEF Strays
  <2>2. Cardinality(Strays) + orphans <= losses + crashes + timeouts
    BY <1>1 DEF Inv, Charged
  <2>3. orphans \in Nat /\ timeouts \in Nat /\ crashes \in Nat /\ losses \in Nat
    BY <1>1 DEF Inv, Typed
  <2>4. QED
    BY <2>1, <2>2, <2>3, SetFacts DEF GatewayLoad
<1>2. QED
  BY <1>1, Invariant, PTL

(* A request times out only after a lost session or as many crashes as a   *)
(* client is patient: waiting for the slot, repairing an answer and the    *)
(* failures of others do not count against it.                             *)
THEOREM SlotExplainsTimeouts == Spec => []TimeoutsExplained
<1>1. Inv => TimeoutsExplained
  BY DEF Inv
<1>2. QED
  BY <1>1, Invariant, PTL

(* ------------------------------- The line ------------------------------- *)

(* The line for the lock, and how often its callers have asked.            *)
Line == ahead \in [Caller -> SUBSET Waiting] /\ InLine

Requests ==
  /\ asked \in [Caller -> 0..2]
  /\ \A c \in Caller : /\ pc[c] \in {"idle", "waiting", "entered"} => asked[c] = 0
                       /\ pc[c] \in {"asking", "answered"} => asked[c] \in 1..2

LineInv == Line /\ Requests /\ open \subseteq Process /\ calls \in Nat

(* The line does not depend on what those past it do.                      *)
LEMMA SameLine ==
  ASSUME Line, Waiting' = Waiting, ahead' = ahead
  PROVE  Line'
BY DEF Line, InLine

(* Who joins has everybody before him.                                     *)
LEMMA JoinLine ==
  ASSUME Line, NEW c \in Caller \ Waiting, Waiting' = Waiting \union {c},
         ahead' = [ahead EXCEPT ![c] = Waiting]
  PROVE  Line'
<1>1. /\ Waiting \subseteq Caller
      /\ ahead'[c] = Waiting
      /\ \A d \in Caller : d # c => ahead'[d] = ahead[d]
      /\ \A d \in Caller : ahead[d] \subseteq Waiting
  BY DEF Line, Waiting
<1>2. ahead' \in [Caller -> SUBSET Waiting']
  BY <1>1 DEF Line
<1>3. \A d \in Caller : d \notin ahead'[d] /\ \A e \in ahead'[d] : ahead'[e] \subseteq ahead'[d]
  BY <1>1 DEF Line, InLine
<1>4. \A d, e \in Waiting' : d = e \/ d \in ahead'[e] \/ e \in ahead'[d]
  BY <1>1 DEF Line, InLine
<1>5. \A d \in Caller \ Waiting' : ahead'[d] = {}
  BY <1>1 DEF Line, InLine
<1>6. QED
  BY <1>2, <1>3, <1>4, <1>5 DEF Line, InLine

(* Those who are gone leave the others in line.                            *)
LEMMA LeaveLine ==
  ASSUME Line, NEW gone, Waiting' = Waiting \ gone, ahead' = Without(ahead, gone)
  PROVE  Line'
<1>1. /\ \A d \in Caller : ahead'[d] = IF d \in gone THEN {} ELSE ahead[d] \ gone
      /\ ahead' = [d \in Caller |-> ahead'[d]]
      /\ \A d \in Caller : ahead[d] \subseteq Waiting
      /\ Waiting \subseteq Caller
  BY DEF Line, Without, Waiting
<1>2. ahead' \in [Caller -> SUBSET Waiting']
  BY <1>1
<1>3. \A d \in Caller : d \notin ahead'[d] /\ \A e \in ahead'[d] : ahead'[e] \subseteq ahead'[d]
  BY <1>1 DEF Line, InLine
<1>4. \A d, e \in Waiting' : d = e \/ d \in ahead'[e] \/ e \in ahead'[d]
  BY <1>1 DEF Line, InLine
<1>5. \A d \in Caller \ Waiting' : ahead'[d] = {}
  BY <1>1 DEF Line, InLine
<1>6. QED
  BY <1>2, <1>3, <1>4, <1>5 DEF Line, InLine

(* A caller that neither waits nor comes to wait moves.                    *)
LEMMA MoveLine ==
  ASSUME Typed, NEW c \in Caller, NEW place \in Place, Goto(c, place)
  PROVE  Waiting' = IF place = "waiting" THEN Waiting \union {c} ELSE Waiting \ {c}
BY DEF Typed, Goto, Waiting, At

LEMMA LineInvInit == Init => LineInv
<1> SUFFICES ASSUME Init PROVE LineInv
  OBVIOUS
<1>1. Waiting = {}
  BY DEF Init, Waiting, At
<1>2. Line
  BY <1>1 DEF Init, Line, InLine
<1>3. QED
  BY <1>2 DEF Init, LineInv, Requests

LEMMA LineInvNext == Inv /\ LineInv /\ [Next]_vars => LineInv'
<1> SUFFICES ASSUME Inv, LineInv, [Next]_vars PROVE LineInv'
  OBVIOUS
<1>1. Typed /\ Line /\ Requests /\ open \subseteq Process /\ calls \in Nat
  BY DEF Inv, LineInv
<1>2. \A c \in Caller : pc[c] \in Place /\ ProcessOf[c] \in Process
  BY <1>1, CallerAssumption DEF Typed
<1>3. ASSUME NEW c \in Caller, Call(c) PROVE LineInv'
  <2>1. /\ Waiting' = Waiting \union {c} /\ c \notin Waiting
        /\ ahead' = [ahead EXCEPT ![c] = Waiting]
    BY <1>1, <1>3, MoveLine DEF Call, Place, Waiting, At
  <2>2. Requests'
    BY <1>1, <1>3 DEF Call, Requests, Goto, At, Typed
  <2>3. Line'
    BY <1>1, <2>1, JoinLine
  <2>4. open' = open /\ calls' \in Nat
    BY <1>1, <1>3 DEF Call
  <2>5. QED
    BY <1>1, <2>2, <2>3, <2>4 DEF LineInv
<1>4. ASSUME NEW c \in Caller, Enter(c) \/ LoseWait(c) PROVE LineInv'
  <2>1. Waiting' = Waiting \ {c}
    BY <1>1, <1>4, MoveLine DEF Enter, LoseWait, Place
  <2>2. ahead' = Without(ahead, {c})
    BY <1>4 DEF Enter, LoseWait, Without
  <2>3. Requests'
    BY <1>1, <1>4 DEF Enter, LoseWait, Requests, Goto, At, Typed
  <2>4. Line'
    BY <1>1, <2>1, <2>2, LeaveLine
  <2>5. open' = open /\ calls' = calls
    BY <1>4 DEF Enter, LoseWait
  <2>6. QED
    BY <1>1, <2>3, <2>4, <2>5 DEF LineInv
<1>5. ASSUME NEW c \in Caller,
             \/ FallBack(c) \/ Ask(c) \/ Refused(c) \/ Succeed(c) \/ Repair(c) \/ Unusable(c)
             \/ TimeOut(c) \/ Leave(c)
      PROVE  LineInv'
  <2>1. PICK place \in {"asking", "leaving", "idle"} : Goto(c, place)
    BY <1>5 DEF FallBack, Ask, Refused, Succeed, Repair, Unusable, TimeOut, Leave, Fail, Send
  <2>2. Waiting' = Waiting
    <3>1. c \notin Waiting
      BY <1>5 DEF FallBack, Ask, Refused, Succeed, Repair, Unusable, TimeOut, Leave, Waiting, At
    <3>2. QED
      BY <1>1, <2>1, <3>1, MoveLine DEF Place
  <2>3. Line'
    BY <1>1, <1>5, <2>2, SameLine
    DEF FallBack, Ask, Refused, Succeed, Repair, Unusable, TimeOut, Leave
  <2>4. Requests'
    <3>1. CASE Ask(c) \/ Repair(c)
      <4>1. asked[c] \in {0, 1} /\ asked' = [asked EXCEPT ![c] = asked[c] + 1]
        BY <1>1, <3>1 DEF Ask, Repair, Send, Requests, At
      <4>2. pc' = [pc EXCEPT ![c] = "asking"]
        BY <3>1 DEF Ask, Repair, Send, Goto
      <4>3. QED
        BY <1>1, <4>1, <4>2 DEF Requests, Typed
    <3>2. CASE FallBack(c) \/ Refused(c) \/ Succeed(c) \/ Unusable(c) \/ TimeOut(c)
      <4>1. asked' = asked /\ pc' = [pc EXCEPT ![c] = "leaving"]
        BY <3>2 DEF FallBack, Refused, Succeed, Unusable, TimeOut, Fail, Goto
      <4>2. QED
        BY <1>1, <4>1 DEF Requests, Typed
    <3>3. CASE Leave(c)
      BY <1>1, <3>3 DEF Leave, Requests, Goto, Typed
    <3>4. QED
      BY <1>5, <3>1, <3>2, <3>3
  <2>5. open' \subseteq Process /\ calls' = calls
    BY <1>1, <1>2, <1>5
    DEF FallBack, Ask, Refused, Succeed, Repair, Unusable, TimeOut, Leave, Fail
  <2>6. QED
    BY <1>1, <2>3, <2>4, <2>5 DEF LineInv
<1>6. ASSUME NEW p \in Process, Cool(p) PROVE LineInv'
  <2>1. Waiting' = Waiting /\ ahead' = ahead
    BY <1>6 DEF Cool, callVars, Waiting, At
  <2>2. QED
    BY <1>1, <1>6, <2>1, SameLine DEF LineInv, Cool, callVars, Requests
<1>7. ASSUME NEW p \in Process, Crash(p) PROVE LineInv'
  <2>1. pc' = [c \in Caller |-> IF c \in Threads(p) THEN "idle" ELSE pc[c]]
    BY <1>7 DEF Crash, Fresh
  <2>2. Waiting' = Waiting \ Threads(p)
    BY <2>1 DEF Waiting, At
  <2>3. Line'
    BY <1>1, <1>7, <2>2, LeaveLine DEF Crash
  <2>4. Requests'
    BY <1>1, <1>7, <2>1 DEF Crash, Fresh, Requests
  <2>5. QED
    BY <1>1, <1>7, <2>3, <2>4 DEF LineInv, Crash
<1>8. CASE Tick
  <2>1. UNCHANGED pc \/ \E c \in Caller : c \in Asking /\ Goto(c, "answered")
    BY <1>8 DEF Tick, TickAnswersNobody, TickAnswers
  <2>2. Waiting' = Waiting
    BY <1>1, <2>1, MoveLine DEF Waiting, Asking, At, Place
  <2>3. Requests'
    <3>1. asked' = asked
      BY <1>8 DEF Tick
    <3>2. QED
      BY <1>1, <2>1, <3>1 DEF Requests, Goto, Asking, At, Typed
  <2>4. QED
    BY <1>1, <1>8, <2>2, <2>3, SameLine DEF LineInv, Tick
<1>9. CASE LoseSlot \/ UNCHANGED vars
  <2>1. UNCHANGED <<pc, asked, ahead, open, calls>>
    BY <1>9 DEF LoseSlot, vars, callVars
  <2>2. Waiting' = Waiting
    BY <2>1 DEF Waiting, At
  <2>3. QED
    BY <1>1, <2>1, <2>2, SameLine DEF LineInv, Requests
<1>10. QED
  BY <1>3, <1>4, <1>5, <1>6, <1>7, <1>8, <1>9 DEF Next

(* Every variable keeps its type: those who wait for the lock stand in one *)
(* line whoever joins, is served or is gone, and nobody asks the model     *)
(* more than twice in a call.                                              *)
THEOREM SlotTypes == Spec => []TypeOK
<1>1. Inv /\ LineInv => TypeOK
  BY DEF Inv, Typed, LineInv, Line, Requests, TypeOK
<1>2. Spec => []LineInv
  <2>1. Inv /\ LineInv /\ [Next]_vars => LineInv'
    BY LineInvNext
  <2>2. QED
    BY <2>1, LineInvInit, Invariant, PTL DEF Spec
<1>3. QED
  BY <1>1, <1>2, Invariant, PTL
=============================================================================
