------------------------------ MODULE Planning ------------------------------
(***************************************************************************)
(* From the architect's agent turn to a plan: what the session returns     *)
(* (tools/claude_sdk.py), and what architect makes of the text             *)
(* (graph/nodes/architect.py): the JSON object found in it, validated as a *)
(* Plan and cut to max_devs, or failing that salvaged, one entry of        *)
(* work_items at a time.                                                   *)
(*                                                                         *)
(* The text is a sequence of pieces: prose without braces, prose with      *)
(* braces in it, and the reply, a JSON object.  An entry of work_items is  *)
(* described by what the code asks of it.                                  *)
(***************************************************************************)
EXTENDS Integers, Sequences

CONSTANTS
  MaxDevs,      \* payload.max_devs
  Ids,          \* the ids work items may have
  PositionId,   \* the id salvage gives the entry at position k: f"w{k}"
  Entries,      \* the entries a reply may have
  MaxEntries,   \* bound: how many of them
  MaxPieces     \* bound: how many pieces of text a session writes

NoId == "no id"

\* An entry: is it an object; its id; does it have an instruction or a title;
\* can its paths be iterated over; is it valid as a WorkItem as it stands.
EntryType == [object : BOOLEAN, id : Ids \cup {NoId}, usable : BOOLEAN,
              iterable : BOOLEAN, valid : BOOLEAN]

ASSUME MaxDevsAssumption == MaxDevs \in Nat \ {0}
ASSUME BoundsAssumption  == MaxEntries \in Nat /\ MaxPieces \in Nat \ {0}
ASSUME PositionAssumption ==
  /\ PositionId \in [1..MaxEntries -> Ids]
  /\ \A j, k \in 1..MaxEntries : PositionId[j] = PositionId[k] => j = k
ASSUME EntriesAssumption ==
  /\ Entries \subseteq EntryType
  /\ \A e \in Entries :
       e.valid => e.object /\ e.usable /\ e.iterable /\ e.id # NoId

Pieces == [fenced : BOOLEAN, is : {"prose", "braces", "reply"}]

\* A reply: can work_items be iterated over (what is absent counts as empty),
\* and over what; is everything else valid; may the tester start early.
Replies ==
  [listed : BOOLEAN, entries : UNION {[1..n -> Entries] : n \in 0..MaxEntries},
   rest : BOOLEAN, early : BOOLEAN]

Item == [at : 1..MaxEntries, id : Ids]

VARIABLES
  stage,    \* "session", "read", "salvage", "planned", or "failed" (by
            \* the session), "refused" (no usable plan) or "raised"
  reply,    \* what the object in the text says, if there is one
  text,     \* the pieces written so far
  next,     \* salvage: the entry it is at
  items,    \* the plan's work items: where each came from, and its id
  early     \* the plan's tester.can_start_early

vars == <<stage, reply, text, next, items, early>>

TypeOK ==
  /\ stage \in {"session", "read", "salvage", "planned", "failed",
               "refused", "raised"}
  /\ reply \in Replies
  /\ text \in Seq(Pieces) /\ Len(text) <= MaxPieces
  /\ next \in 1..(MaxEntries + 1)
  /\ items \in Seq(Item)
  /\ early \in BOOLEAN

Init ==
  /\ stage = "session" /\ text = <<>>
  /\ reply \in Replies
  /\ next = 1 /\ items = <<>> /\ early = FALSE

-----------------------------------------------------------------------------
(* The agent's turn.                                                       *)
SessionWrites ==
  /\ stage = "session" /\ Len(text) < MaxPieces
  /\ \E p \in Pieces : text' = Append(text, p)
  /\ UNCHANGED <<stage, reply, next, items, early>>

\* The session breaks, ends without a result message, or with an error: the
\* turn did not succeed and its text is not looked at.
SessionFails ==
  /\ stage = "session"
  /\ stage' = "failed"
  /\ UNCHANGED <<reply, text, next, items, early>>

\* All the text blocks of the session, joined; the result message's own text
\* stands in when there was none.
SessionSucceeds ==
  /\ stage = "session"
  /\ stage' = "read"
  /\ text' \in IF text = <<>> THEN {<<>>} \cup {<<p>> : p \in Pieces}
                              ELSE {text}
  /\ UNCHANGED <<reply, next, items, early>>

-----------------------------------------------------------------------------
(* _extract_json: of a text that starts with a fence only the first fenced *)
(* block counts; from the first brace to the last has to be one object.    *)
Candidates ==
  IF text = <<>> THEN {}
  ELSE IF text[1].fenced THEN {1} ELSE 1..Len(text)

Braced == {k \in Candidates : text[k].is # "prose"}

HasReply == \E k \in Braced : Braced = {k} /\ text[k].is = "reply"

NotFound ==
  /\ stage = "read" /\ ~HasReply
  /\ stage' = "refused"
  /\ UNCHANGED <<reply, text, next, items, early>>

(* Plan.model_validate: every field of every entry has to be right.        *)
Validates ==
  /\ reply.listed /\ reply.rest
  /\ reply.entries # <<>>
  /\ \A k \in DOMAIN reply.entries : reply.entries[k].valid

\* Bugs for the checks: the plan is not cut; the wrong end of it is.
CutTo_Uncut(S) == S

CutTo_Last(S) ==
  IF Len(S) <= MaxDevs THEN S ELSE SubSeq(S, Len(S) - MaxDevs + 1, Len(S))

\* work_items[:max_devs]
CutTo(S) == IF Len(S) <= MaxDevs THEN S ELSE SubSeq(S, 1, MaxDevs)

AsItems(entries) ==
  [k \in DOMAIN entries |-> [at |-> k, id |-> entries[k].id]]

Accept ==
  /\ stage = "read" /\ HasReply /\ Validates
  /\ stage' = "planned"
  /\ items' = CutTo(AsItems(reply.entries))
  /\ early' = reply.early
  /\ UNCHANGED <<reply, text, next>>

StartSalvage ==
  /\ stage = "read" /\ HasReply /\ ~Validates
  /\ stage' = IF reply.listed THEN "salvage" ELSE "raised"
  /\ UNCHANGED <<reply, text, next, items, early>>

-----------------------------------------------------------------------------
(* _salvage *)
Entry == reply.entries[next]
Salvageable(e) == e.object /\ e.usable

Salvaging == stage = "salvage" /\ next <= Len(reply.entries)

SkipEntry ==
  /\ Salvaging /\ ~Salvageable(Entry)
  /\ next' = next + 1
  /\ UNCHANGED <<stage, reply, text, items, early>>

\* Bugs for the checks: an entry without an id stays without; every one of
\* them gets the same id.
SalvagedId_None(e, k) == e.id

SalvagedId_Fixed(e, k) == IF e.id # NoId THEN e.id ELSE PositionId[1]

SalvagedId(e, k) == IF e.id # NoId THEN e.id ELSE PositionId[k]

\* A bug for the checks: the entry's validity is asked for after all.
KeepEntry_OnlyValid ==
  /\ Salvaging /\ Salvageable(Entry) /\ Entry.iterable
  /\ items' = IF Entry.valid
              THEN Append(items, [at |-> next, id |-> SalvagedId(Entry, next)])
              ELSE items
  /\ next' = next + 1
  /\ UNCHANGED <<stage, reply, text, early>>

KeepEntry ==
  /\ Salvaging /\ Salvageable(Entry) /\ Entry.iterable
  /\ items' = Append(items, [at |-> next, id |-> SalvagedId(Entry, next)])
  /\ next' = next + 1
  /\ UNCHANGED <<stage, reply, text, early>>

\* Iterating over its paths is a TypeError nobody catches.
EntryRaises ==
  /\ Salvaging /\ Salvageable(Entry) /\ ~Entry.iterable
  /\ stage' = "raised"
  /\ UNCHANGED <<reply, text, next, items, early>>

\* The policy for the tester is the default one, dependencies are dropped.
SalvageEnds ==
  /\ stage = "salvage" /\ next > Len(reply.entries)
  /\ stage' = IF items = <<>> THEN "refused" ELSE "planned"
  /\ items' = CutTo(items)
  /\ early' = FALSE
  /\ UNCHANGED <<reply, text, next>>

Done ==
  stage \in {"planned", "failed", "refused", "raised"} /\ UNCHANGED vars

Next ==
  \/ SessionWrites \/ SessionFails \/ SessionSucceeds
  \/ NotFound \/ Accept \/ StartSalvage
  \/ SkipEntry \/ KeepEntry \/ EntryRaises \/ SalvageEnds
  \/ Done

Spec == Init /\ [][Next]_vars

-----------------------------------------------------------------------------
(* Properties.                                                             *)

\* The plan TeamGraph is given: between one and max_devs work items, however
\* it was arrived at ("The architect may plan fewer, never more").
PlanWithinCap == stage = "planned" => Len(items) \in 1..MaxDevs

\* What salvage is for, against a definition without its loop: the entries
\* kept are those that can be, in the order of the reply, the first of them
\* when there are too many.
Kept == {items[k].at : k \in DOMAIN items}
CanBeKept == {k \in DOMAIN reply.entries : Salvageable(reply.entries[k])}

KeepsTheFirstUsable ==
  stage = "planned" =>
    /\ \A j, k \in DOMAIN items : j < k => items[j].at < items[k].at
    /\ Kept \subseteq CanBeKept
    /\ \A k \in CanBeKept \ Kept :
         Len(items) = MaxDevs /\ \A j \in Kept : j < k

\* architect.py: "An architect that gets one field wrong should not cost the
\* whole run".  A reply that is found and has a usable entry is not refused,
\* whatever else is wrong with it; what does cost the run is a work_items or
\* a paths that cannot be iterated over, and nothing else.
OneUsableIsEnough ==
  /\ stage = "refused" /\ HasReply => CanBeKept = {}
  /\ stage = "raised" => \/ ~reply.listed
                         \/ \E k \in CanBeKept : ~reply.entries[k].iterable

\* Two work items of a plan share an id only because the reply gave it twice,
\* or gave to one the id the other's position stands for.
RepeatsAreTheReplys ==
  stage = "planned" =>
    \A j, k \in DOMAIN items :
      j < k /\ items[j].id = items[k].id =>
        LET e == reply.entries[items[j].at]
            f == reply.entries[items[k].at]
        IN  \/ e.id = f.id /\ e.id # NoId
            \/ e.id = PositionId[items[k].at]
            \/ f.id = PositionId[items[j].at]
=============================================================================
