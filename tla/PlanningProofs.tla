--------------------------- MODULE PlanningProofs ---------------------------
(* What is proved of the way from the architect's reply to a plan, for any *)
(* cap, any entries and any number of them.                                *)
EXTENDS Planning, SequenceTheorems, TLAPS

-----------------------------------------------------------------------------
(* Sequences: the reply's entries, and the cut.                            *)

LEMMA EntriesType ==
  ASSUME reply \in Replies
  PROVE  /\ reply.entries \in Seq(Entries)
         /\ Len(reply.entries) \in 0..MaxEntries
         /\ DOMAIN reply.entries = 1..Len(reply.entries)
         /\ \A k \in 1..Len(reply.entries) : reply.entries[k] \in Entries
<1>1. PICK n \in 0..MaxEntries : reply.entries \in [1..n -> Entries]
  BY DEF Replies
<1>2. n \in Nat
  BY <1>1, BoundsAssumption
<1>3. reply.entries \in Seq(Entries)
  BY <1>1, <1>2, SeqDef
<1>4. Len(reply.entries) = n
  BY <1>1, <1>2, <1>3, LenProperties
<1>. QED BY <1>1, <1>3, <1>4

LEMMA CutToFirst ==
  ASSUME NEW S \in Seq(Item)
  PROVE  /\ CutTo(S) \in Seq(Item)
         /\ Len(CutTo(S)) = IF Len(S) <= MaxDevs THEN Len(S) ELSE MaxDevs
         /\ \A k \in 1..Len(CutTo(S)) : CutTo(S)[k] = S[k]
<1>. Len(S) \in Nat /\ MaxDevs \in Nat
  BY MaxDevsAssumption, LenProperties
<1>1. CASE Len(S) <= MaxDevs
  BY <1>1 DEF CutTo
<1>2. CASE ~(Len(S) <= MaxDevs)
  <2>1. \A k \in 1..MaxDevs : S[k] \in Item
    BY <1>2, ElementOfSeq
  <2>2. /\ SubSeq(S, 1, MaxDevs) \in Seq(Item)
        /\ Len(SubSeq(S, 1, MaxDevs)) = MaxDevs
        /\ \A k \in 1..MaxDevs : SubSeq(S, 1, MaxDevs)[k] = S[k]
    BY <2>1, SubSeqProperties, MaxDevsAssumption
  <2>. QED BY <1>2, <2>2 DEF CutTo
<1>. QED BY <1>1, <1>2

(* ... of the items of a step, with the ranges of their positions.         *)
LEMMA CutShape ==
  ASSUME NEW S \in Seq(Item), items' = CutTo(S)
  PROVE  /\ Len(items') \in Nat /\ Len(S) \in Nat /\ MaxDevs \in Nat \ {0}
         /\ Len(items') = IF Len(S) <= MaxDevs THEN Len(S) ELSE MaxDevs
         /\ DOMAIN items' = 1..Len(items')
         /\ \A k \in 1..Len(items') : items'[k] = S[k] /\ k \in 1..Len(S)
<1>1. /\ items' \in Seq(Item)
      /\ Len(items') = IF Len(S) <= MaxDevs THEN Len(S) ELSE MaxDevs
      /\ \A k \in 1..Len(items') : items'[k] = S[k]
  BY CutToFirst
<1>2. /\ Len(items') \in Nat /\ Len(S) \in Nat
      /\ DOMAIN items' = 1..Len(items')
  BY <1>1, LenProperties
<1>3. Len(items') <= Len(S)
  BY <1>1, <1>2, MaxDevsAssumption
<1>4. \A k \in 1..Len(items') : k \in 1..Len(S)
  BY <1>2, <1>3
<1>. QED BY <1>1, <1>2, <1>4, MaxDevsAssumption

LEMMA AsItemsType ==
  ASSUME reply \in Replies, Validates
  PROVE  /\ AsItems(reply.entries) \in Seq(Item)
         /\ Len(AsItems(reply.entries)) = Len(reply.entries)
         /\ \A k \in 1..Len(reply.entries) :
              AsItems(reply.entries)[k] = [at |-> k, id |-> reply.entries[k].id]
<1>. DEFINE n == Len(reply.entries)
<1>1. n \in Nat /\ 1..n \subseteq 1..MaxEntries /\ DOMAIN reply.entries = 1..n
  BY EntriesType, BoundsAssumption
<1>2. \A k \in 1..n : reply.entries[k].id \in Ids
  BY <1>1, EntriesType, EntriesAssumption DEF Validates, EntryType
<1>3. AsItems(reply.entries) \in [1..n -> Item]
  BY <1>1, <1>2 DEF AsItems, Item
<1>4. AsItems(reply.entries) \in Seq(Item)
  BY <1>1, <1>3, SeqDef
<1>. QED BY <1>1, <1>3, <1>4, LenProperties DEF AsItems

-----------------------------------------------------------------------------
(* Salvage, as a loop over the entries: up to the one it is at, it has     *)
(* kept each that can be, in order, under the id that entry gives it.      *)
Increasing == \A j, k \in 1..Len(items) : j < k => items[j].at < items[k].at

Named ==
  \A k \in 1..Len(items) :
    items[k].id = SalvagedId(reply.entries[items[k].at], items[k].at)

SalvageInv ==
  /\ stage \in {"session", "read", "salvage"} =>
       /\ Increasing /\ Named
       /\ Kept = {k \in CanBeKept : k < next}
  /\ stage \in {"session", "read"} => items = <<>> /\ next = 1
  /\ stage = "salvage" => next <= Len(reply.entries) + 1
  /\ stage = "planned" =>
       /\ items # <<>> /\ Len(items) <= MaxDevs
       /\ Increasing /\ Named
  /\ KeepsTheFirstUsable
  /\ OneUsableIsEnough

LEMMA KeptDomain ==
  ASSUME TypeOK
  PROVE  /\ Len(items) \in Nat /\ DOMAIN items = 1..Len(items)
         /\ Kept = {items[k].at : k \in 1..Len(items)}
         /\ \A k \in 1..Len(items) : items[k] \in Item
BY LenProperties, ElementOfSeq DEF TypeOK, Kept

(* Cutting an ordered list of everything that can be kept.                 *)
LEMMA CutKeepsFirst ==
  ASSUME TypeOK', NEW S \in Seq(Item),
         \A j, k \in 1..Len(S) : j < k => S[j].at < S[k].at,
         {S[k].at : k \in 1..Len(S)} = CanBeKept,
         items' = CutTo(S), reply' = reply
  PROVE  /\ Increasing' /\ Len(items') <= MaxDevs
         /\ S # <<>> => items' # <<>>
         /\ KeepsTheFirstUsable'
<1>. DEFINE n == Len(items')
<1>1. /\ n \in Nat /\ Len(S) \in Nat /\ MaxDevs \in Nat \ {0}
      /\ n = IF Len(S) <= MaxDevs THEN Len(S) ELSE MaxDevs
      /\ DOMAIN items' = 1..n
      /\ \A k \in 1..n : items'[k] = S[k] /\ k \in 1..Len(S)
  BY CutShape
<1>2. Increasing' /\ n <= MaxDevs
  BY <1>1 DEF Increasing
<1>3. S # <<>> => items' # <<>>
  BY <1>1, EmptySeq
<1>4. Kept' = {S[k].at : k \in 1..n} /\ CanBeKept' = CanBeKept
  BY <1>1 DEF Kept, CanBeKept, Salvageable
<1>5. ASSUME NEW k \in CanBeKept \ Kept'
      PROVE  n = MaxDevs /\ \A j \in Kept' : j < k
  <2>1. PICK m \in 1..Len(S) : S[m].at = k
    OBVIOUS
  <2>2. m > n
    BY <1>1, <1>4, <1>5, <2>1
  <2>. QED BY <1>1, <1>4, <2>1, <2>2
<1>6. Kept' \subseteq CanBeKept'
  BY <1>1, <1>4
<1>. QED
  BY <1>1, <1>2, <1>3, <1>4, <1>5, <1>6 DEF KeepsTheFirstUsable, Increasing

-----------------------------------------------------------------------------
LEMMA PlanningTypes == TypeOK /\ [Next]_vars => TypeOK'
<1>. SUFFICES ASSUME TypeOK, [Next]_vars PROVE TypeOK'
  OBVIOUS
<1>. USE DEF TypeOK
<1>1. CASE SessionWrites
  <2>1. PICK p \in Pieces : text' = Append(text, p)
    BY <1>1 DEF SessionWrites
  <2>2. text' \in Seq(Pieces) /\ Len(text') = Len(text) + 1 /\ Len(text) \in Nat
    BY <2>1, LenProperties
  <2>. QED BY <1>1, <2>2, BoundsAssumption DEF SessionWrites
<1>2. CASE SessionSucceeds
  <2>1. text' = text \/ \E p \in Pieces : text' = <<p>>
    BY <1>2 DEF SessionSucceeds
  <2>2. text' \in Seq(Pieces) /\ Len(text') <= MaxPieces
    <3>1. CASE text' = text
      BY <3>1
    <3>2. ASSUME NEW p \in Pieces, text' = <<p>>
          PROVE  text' \in Seq(Pieces) /\ Len(text') <= MaxPieces
      <4>1. text' \in Seq(Pieces) /\ Len(text') = 1
        BY <3>2
      <4>. QED BY <4>1, BoundsAssumption
    <3>. QED BY <2>1, <3>1, <3>2
  <2>. QED BY <1>2, <2>2 DEF SessionSucceeds
<1>3. CASE SessionFails \/ NotFound \/ StartSalvage \/ EntryRaises \/ Done
           \/ UNCHANGED vars
  BY <1>3 DEF SessionFails, NotFound, StartSalvage, EntryRaises, Done, vars
<1>4. CASE Accept
  <2>1. items' \in Seq(Item) /\ reply.early \in BOOLEAN
    BY <1>4, AsItemsType, CutToFirst DEF Accept, Replies
  <2>. QED BY <1>4, <2>1 DEF Accept
<1>5. CASE SkipEntry \/ KeepEntry
  <2>1. next \in 1..Len(reply.entries) /\ next' = next + 1
    BY <1>5, EntriesType, BoundsAssumption
       DEF SkipEntry, KeepEntry, Salvaging
  <2>2. next' \in 1..(MaxEntries + 1) /\ next \in 1..MaxEntries
    BY <2>1, EntriesType, BoundsAssumption
  <2>3. SalvagedId(Entry, next) \in Ids
    BY <2>1, <2>2, EntriesType, EntriesAssumption, PositionAssumption
       DEF SalvagedId, Entry, EntryType
  <2>4. items' \in Seq(Item)
    <3>1. [at |-> next, id |-> SalvagedId(Entry, next)] \in Item
      BY <2>2, <2>3 DEF Item
    <3>. QED BY <1>5, <3>1 DEF SkipEntry, KeepEntry
  <2>. QED BY <1>5, <2>2, <2>4 DEF SkipEntry, KeepEntry
<1>6. CASE SalvageEnds
  BY <1>6, CutToFirst DEF SalvageEnds
<1>. QED BY <1>1, <1>2, <1>3, <1>4, <1>5, <1>6 DEF Next

LEMMA PlanningInitTypes == Init => TypeOK
<1>1. <<>> \in Seq(Pieces) /\ <<>> \in Seq(Item) /\ Len(<<>>) = 0
  BY EmptySeq
<1>2. Init => early \in BOOLEAN
  BY DEF Init
<1>3. 1 \in 1..(MaxEntries + 1) /\ 0 <= MaxPieces
  BY BoundsAssumption
<1>. QED BY <1>1, <1>2, <1>3 DEF Init, TypeOK

\* Planning keeps its types, whatever the session writes and the reply says.
THEOREM PlanningTyped == Spec => []TypeOK
BY PlanningInitTypes, PlanningTypes, PTL DEF Spec
-----------------------------------------------------------------------------
LEMMA SalvageStep ==
  ASSUME TypeOK, TypeOK', SalvageInv, [Next]_vars
  PROVE  SalvageInv'
<1>0. /\ Len(reply.entries) \in Nat /\ next \in Nat
      /\ DOMAIN reply.entries = 1..Len(reply.entries)
  BY EntriesType, BoundsAssumption DEF TypeOK
<1>1. CASE \/ SessionWrites \/ SessionSucceeds \/ SessionFails \/ NotFound
           \/ StartSalvage \/ Done \/ UNCHANGED vars
  <2>1. /\ UNCHANGED <<reply, next, items>>
        /\ \/ stage' = stage /\ (stage = "session" \/ text' = text)
           \/ /\ stage \in {"session", "read"}
              /\ \/ stage' \in {"read", "salvage", "failed"}
                 \/ stage' = "refused" /\ text' = text /\ ~HasReply
                 \/ stage' = "raised" /\ ~reply.listed
    BY <1>1 DEF SessionWrites, SessionSucceeds, SessionFails, NotFound,
         StartSalvage, Done, vars
  <2>2. /\ Kept' = Kept /\ CanBeKept' = CanBeKept /\ Increasing' = Increasing
        /\ Named' = Named
    BY <2>1 DEF Kept, CanBeKept, Salvageable, Increasing, Named, SalvagedId
  <2>3. text' = text => HasReply' = HasReply
    BY DEF HasReply, Braced, Candidates
  <2>4. KeepsTheFirstUsable'
    BY <2>1, <2>2 DEF SalvageInv, KeepsTheFirstUsable
  <2>5. OneUsableIsEnough'
    BY <2>1, <2>2, <2>3 DEF SalvageInv, OneUsableIsEnough
  <2>. QED
    BY <1>0, <2>1, <2>2, <2>4, <2>5 DEF SalvageInv
<1>2. CASE Accept
  <2>0. PICK S : S = AsItems(reply.entries)
    OBVIOUS
  <2>1. /\ Validates /\ reply \in Replies /\ stage' = "planned"
        /\ items' = CutTo(S) /\ reply' = reply
    BY <1>2, <2>0 DEF Accept, TypeOK
  <2>2. /\ S \in Seq(Item) /\ Len(S) = Len(reply.entries)
        /\ \A k \in 1..Len(S) : S[k].at = k /\ S[k].id = reply.entries[k].id
    <3>1. /\ S \in Seq(Item) /\ Len(S) = Len(reply.entries)
          /\ \A k \in 1..Len(reply.entries) :
               S[k] = [at |-> k, id |-> reply.entries[k].id]
      BY <2>0, <2>1, AsItemsType, Zenon
    <3>2. \A k \in 1..Len(S) : S[k] = [at |-> k, id |-> reply.entries[k].id]
      BY <3>1
    <3>3. ASSUME NEW k \in 1..Len(S)
          PROVE  S[k].at = k /\ S[k].id = reply.entries[k].id
      <4>1. S[k] = [at |-> k, id |-> reply.entries[k].id]
        BY <3>2
      <4>. QED BY ONLY <4>1
    <3>. QED BY <3>1, <3>3
  <2>3. \A k \in 1..Len(S) : /\ Salvageable(reply.entries[k])
                             /\ reply.entries[k].id # NoId
    BY <1>0, <2>1, <2>2, EntriesType, EntriesAssumption
       DEF Validates, Salvageable
  <2>4. CanBeKept = 1..Len(S)
    BY <1>0, <2>2, <2>3 DEF CanBeKept
  <2>5. \A j, k \in 1..Len(S) : j < k => S[j].at < S[k].at
    BY <1>0, <2>2
  <2>6. {S[k].at : k \in 1..Len(S)} = CanBeKept
    BY <2>2, <2>4
  <2>7. S # <<>>
    BY <1>0, <2>1, <2>2, EntriesType, EmptySeq DEF Validates
  <2>8. /\ Increasing' /\ Len(items') <= MaxDevs /\ items' # <<>>
        /\ KeepsTheFirstUsable'
    BY <2>1, <2>2, <2>5, <2>6, <2>7, CutKeepsFirst
  <2>9. Named'
    <3>1. \A k \in 1..Len(items') : items'[k] = S[k] /\ k \in 1..Len(S)
      BY <2>1, <2>2, CutShape
    <3>. QED BY <2>1, <2>2, <2>3, <3>1 DEF Named, SalvagedId
  <2>. QED BY <2>1, <2>8, <2>9 DEF SalvageInv, OneUsableIsEnough
<1>3. CASE SkipEntry
  <2>1. /\ UNCHANGED <<stage, reply, items>> /\ stage = "salvage"
        /\ next' = next + 1 /\ next \in 1..Len(reply.entries)
        /\ next \notin CanBeKept
    BY <1>0, <1>3 DEF SkipEntry, Salvaging, CanBeKept, Entry, TypeOK
  <2>2. /\ Kept' = Kept /\ CanBeKept' = CanBeKept /\ Increasing' = Increasing
        /\ Named' = Named
    BY <2>1 DEF Kept, CanBeKept, Salvageable, Increasing, Named, SalvagedId
  <2>3. {k \in CanBeKept : k < next'} = {k \in CanBeKept : k < next}
    BY <1>0, <2>1 DEF CanBeKept
  <2>. QED
    BY <1>0, <2>1, <2>2, <2>3
       DEF SalvageInv, KeepsTheFirstUsable, OneUsableIsEnough
<1>4. CASE KeepEntry
  <2>. DEFINE e == [at |-> next, id |-> SalvagedId(Entry, next)]
              n == Len(items)
  <2>1. /\ UNCHANGED <<stage, reply>> /\ stage = "salvage"
        /\ next' = next + 1 /\ next \in 1..Len(reply.entries)
        /\ next \in CanBeKept /\ items' = Append(items, e)
    BY <1>0, <1>4 DEF KeepEntry, Salvaging, CanBeKept, Entry, TypeOK
  <2>2. /\ n \in Nat /\ Len(items') = n + 1 /\ items'[n + 1] = e
        /\ \A k \in 1..n : items'[k] = items[k]
        /\ DOMAIN items' = 1..(n + 1) /\ DOMAIN items = 1..n
    BY <2>1, LenProperties DEF TypeOK
  <2>3. \A k \in 1..n : items[k].at < next
    BY <2>1, <2>2 DEF SalvageInv, Kept
  <2>4. Increasing'
    BY <2>1, <2>2, <2>3 DEF SalvageInv, Increasing
  <2>5. Named'
    BY <2>1, <2>2 DEF SalvageInv, Named, Entry, SalvagedId
  <2>6. Kept' = Kept \cup {next} /\ CanBeKept' = CanBeKept
    BY <2>1, <2>2 DEF Kept, CanBeKept, Salvageable
  <2>7. Kept' = {k \in CanBeKept : k < next'}
    BY <1>0, <2>1, <2>6 DEF SalvageInv, CanBeKept
  <2>. QED
    BY <1>0, <2>1, <2>4, <2>5, <2>6, <2>7
       DEF SalvageInv, KeepsTheFirstUsable, OneUsableIsEnough
<1>5. CASE EntryRaises
  <2>1. /\ stage' = "raised" /\ reply' = reply
        /\ next \in CanBeKept /\ ~reply.entries[next].iterable
    BY <1>0, <1>5 DEF EntryRaises, Salvaging, CanBeKept, Entry, TypeOK
  <2>. QED
    BY <2>1 DEF SalvageInv, KeepsTheFirstUsable, OneUsableIsEnough, CanBeKept,
         Salvageable
<1>6. CASE SalvageEnds
  <2>1. /\ stage = "salvage" /\ reply' = reply /\ items' = CutTo(items)
        /\ next > Len(reply.entries)
        /\ stage' = IF items = <<>> THEN "refused" ELSE "planned"
    BY <1>6 DEF SalvageEnds
  <2>2. /\ Increasing /\ Named /\ Kept = CanBeKept
    BY <1>0, <2>1 DEF SalvageInv, CanBeKept
  <2>3. CASE items = <<>>
    <3>1. CanBeKept = {} /\ CanBeKept' = {}
      BY <2>1, <2>2, <2>3 DEF Kept, CanBeKept, Salvageable
    <3>. QED
      BY <2>1, <2>3, <3>1
         DEF SalvageInv, KeepsTheFirstUsable, OneUsableIsEnough
  <2>4. CASE items # <<>>
    <3>1. items \in Seq(Item) /\ {items[k].at : k \in 1..Len(items)} = CanBeKept
      BY <2>2, KeptDomain DEF TypeOK
    <3>2. /\ Increasing' /\ Len(items') <= MaxDevs /\ items' # <<>>
          /\ KeepsTheFirstUsable'
      BY <2>1, <2>2, <2>4, <3>1, CutKeepsFirst DEF Increasing
    <3>3. Named'
      <4>1. \A k \in 1..Len(items') : items'[k] = items[k] /\ k \in 1..Len(items)
        BY <2>1, <3>1, CutShape
      <4>. QED BY <2>1, <2>2, <4>1 DEF Named, SalvagedId
    <3>. QED BY <2>1, <2>4, <3>2, <3>3 DEF SalvageInv, OneUsableIsEnough
  <2>. QED BY <2>3, <2>4
<1>. QED BY <1>1, <1>2, <1>3, <1>4, <1>5, <1>6 DEF Next

LEMMA SalvageInit == Init => SalvageInv
<1>. SUFFICES ASSUME Init PROVE SalvageInv
  OBVIOUS
<1>1. Len(items) = 0 /\ DOMAIN items = 1..0 /\ Len(reply.entries) \in Nat
  BY EmptySeq, EntriesType, BoundsAssumption DEF Init
<1>2. Kept = {} /\ {k \in CanBeKept : k < next} = {}
  BY <1>1, EntriesType DEF Init, Kept, CanBeKept
<1>. QED
  BY <1>1, <1>2
     DEF Init, SalvageInv, Increasing, Named, KeepsTheFirstUsable,
         OneUsableIsEnough

LEMMA SalvageHolds == Spec => [](TypeOK /\ SalvageInv)
BY PlanningInitTypes, PlanningTypes, SalvageInit, SalvageStep, PTL DEF Spec

\* The plan has at least one work item and at most max_devs.
THEOREM Capped == Spec => []PlanWithinCap
<1>1. TypeOK /\ SalvageInv => PlanWithinCap
  <2>. SUFFICES ASSUME TypeOK, SalvageInv, stage = "planned"
                PROVE  Len(items) \in 1..MaxDevs
    BY DEF PlanWithinCap
  <2>1. Len(items) \in Nat \ {0} /\ Len(items) <= MaxDevs
    BY EmptySeq DEF SalvageInv, TypeOK
  <2>. QED BY <2>1, MaxDevsAssumption
<1>. QED BY <1>1, SalvageHolds, PTL

\* The work items are the first usable entries of the reply, in its order.
THEOREM FirstUsableKept == Spec => []KeepsTheFirstUsable
<1>1. SalvageInv => KeepsTheFirstUsable
  BY DEF SalvageInv
<1>. QED BY <1>1, SalvageHolds, PTL

\* One usable entry is enough, whatever else is wrong with the reply.
THEOREM UsableIsEnough == Spec => []OneUsableIsEnough
<1>1. SalvageInv => OneUsableIsEnough
  BY DEF SalvageInv
<1>. QED BY <1>1, SalvageHolds, PTL

\* An id is repeated only where the reply repeats it, or uses one that
\* stands for a position.
THEOREM RepeatsAreGiven == Spec => []RepeatsAreTheReplys
<1>1. TypeOK /\ SalvageInv => RepeatsAreTheReplys
  <2>. SUFFICES ASSUME TypeOK, SalvageInv, stage = "planned",
                       NEW j \in DOMAIN items, NEW k \in DOMAIN items,
                       j < k, items[j].id = items[k].id
       PROVE LET e == reply.entries[items[j].at]
                 f == reply.entries[items[k].at]
             IN  \/ e.id = f.id /\ e.id # NoId
                 \/ e.id = PositionId[items[k].at]
                 \/ f.id = PositionId[items[j].at]
    BY DEF RepeatsAreTheReplys
  <2>1. /\ j \in 1..Len(items) /\ k \in 1..Len(items)
        /\ items[j].at \in 1..MaxEntries /\ items[k].at \in 1..MaxEntries
    BY KeptDomain DEF Item
  <2>2. /\ items[j].id = SalvagedId(reply.entries[items[j].at], items[j].at)
        /\ items[k].id = SalvagedId(reply.entries[items[k].at], items[k].at)
    BY <2>1 DEF SalvageInv, Named
  <2>3. items[j].at < items[k].at
    BY <2>1 DEF SalvageInv, Increasing
  <2>4. PositionId[items[j].at] # PositionId[items[k].at]
    BY <2>1, <2>3, PositionAssumption
  <2>. QED BY <2>2, <2>4 DEF SalvagedId
<1>. QED BY <1>1, SalvageHolds, PTL
=============================================================================
