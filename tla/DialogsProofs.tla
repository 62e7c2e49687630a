---------------------------- MODULE DialogsProofs ----------------------------
(***************************************************************************)
(* What the dialogs and the bell promise, proved for any number of tasks,  *)
(* people, values and of what users do.                                    *)
(***************************************************************************)
EXTENDS MCDialogs, ListTheorems, SequenceTheorems

---------------------------------------------------------------------------
(* TaskDraft: the form and its draft *)

TypedInv ==
    /\ at \in Plans \cup {Away}
    /\ draft \in Draft /\ kept \in [Plans -> Draft \cup {Away}]
    /\ statuses \in [Plans -> Seq(Steps)] /\ chips \in [Plans -> SUBSET Chips]
    /\ submitting \in [plan : Plans, draft : Draft, here : BOOLEAN] \cup {Away}
    /\ submitting # Away /\ submitting.here => at # Away
    /\ typed \in [Plans -> Words \cup {Empty}] /\ blurred \subseteq Plans

(* Of what was typed for a project the form it will open with has all, and   *)
(* nothing else.                                                             *)
KeptAsTyped(p) == ReadStoredDraft(p).content = typed[p]

DraftInv ==
    /\ TypedInv
    /\ \A p \in Plans \ blurred : KeptAsTyped(p)
    /\ at \notin blurred \cup {Away} => draft.content = typed[at]

LEMMA InitialDrafts ==
    ASSUME TypedInv, NEW p \in Plans
    PROVE  MakeInitialDraft(p) \in Draft /\ MakeInitialDraft(p).content = Empty
<1>1. statuses[p] \in Seq(Steps)
  BY DEF TypedInv
<1>2. statuses[p] # <<>> => Head(statuses[p]) \in Steps
  BY <1>1
<1>. QED
  BY <1>2 DEF MakeInitialDraft, Draft

(* The content of the kept draft: nothing, if there is none.                 *)
LEMMA ContentKept ==
    ASSUME TypedInv, NEW p \in Plans
    PROVE  /\ ReadStoredDraft(p) \in Draft
           /\ kept[p] = Away => ReadStoredDraft(p).content = Empty
           /\ kept[p] # Away => ReadStoredDraft(p).content = kept[p].content
  BY InitialDrafts DEF ReadStoredDraft, TypedInv

(* Whatever the draft becomes is what the form will open with.               *)
LEMMA DraftedKeeps ==
    ASSUME TypedInv, NEW p \in Plans, NEW d \in Draft, Drafted(p, d)
    PROVE  /\ draft' = d /\ kept' \in [Plans -> Draft \cup {Away}]
           /\ \A q \in Plans \ {p} : kept'[q] = kept[q]
           /\ IF kept'[p] = Away THEN d.content = Empty ELSE kept'[p].content = d.content
<1>1. kept' = [kept EXCEPT ![p] = IF IsDirtyDraft(p, d) THEN d ELSE Away] /\ draft' = d
  BY DEF Drafted
<1>2. d # Away
  BY DraftAssumption
<1>3. ~IsDirtyDraft(p, d) => d.content = Empty
  BY InitialDrafts DEF IsDirtyDraft
<1>4. kept'[p] = IF IsDirtyDraft(p, d) THEN d ELSE Away
  BY <1>1 DEF TypedInv
<1>5. kept' \in [Plans -> Draft \cup {Away}] /\ \A q \in Plans \ {p} : kept'[q] = kept[q]
  BY <1>1 DEF TypedInv
<1>. QED
  BY <1>1, <1>2, <1>3, <1>4, <1>5

(* A step after which each draft is kept as it was, or as it is typed.       *)
LEMMA AsTypedAfter ==
    ASSUME TypedInv, TypedInv', NEW p \in Plans,
           IF kept'[p] = Away THEN typed'[p] = Empty ELSE kept'[p].content = typed'[p]
    PROVE  KeptAsTyped(p)'
<1>1. /\ kept'[p] = Away => ReadStoredDraft(p)'.content = Empty
      /\ kept'[p] # Away => ReadStoredDraft(p)'.content = kept'[p].content
  <2>1. MakeInitialDraft(p)'.content = Empty
    BY DEF MakeInitialDraft
  <2>. QED BY <2>1 DEF ReadStoredDraft
<1>. QED
  BY <1>1 DEF KeptAsTyped

LEMMA AsTypedNow ==
    ASSUME TypedInv, NEW p \in Plans, KeptAsTyped(p)
    PROVE  IF kept[p] = Away THEN typed[p] = Empty ELSE kept[p].content = typed[p]
  BY ContentKept DEF KeptAsTyped

(* What is drafted for the project of the page.                              *)
LEMMA DraftedStep ==
    ASSUME DraftInv, NEW p \in Plans, NEW d \in Draft, Drafted(p, d), at' = p,
           UNCHANGED <<statuses, chips>>,
           submitting' \in {submitting, Away},
           typed' \in [Plans -> Words \cup {Empty}],
           \A q \in Plans \ {p} : typed'[q] = typed[q],
           blurred' \subseteq Plans, blurred \subseteq blurred' \cup {p},
           p \notin blurred' => typed'[p] = d.content
    PROVE  DraftInv'
<1>1. /\ draft' = d /\ kept' \in [Plans -> Draft \cup {Away}]
      /\ \A q \in Plans \ {p} : kept'[q] = kept[q]
      /\ IF kept'[p] = Away THEN d.content = Empty ELSE kept'[p].content = d.content
  BY DraftedKeeps DEF DraftInv
<1>2. TypedInv'
  BY <1>1, DraftAssumption DEF DraftInv, TypedInv
<1>3. ASSUME NEW q \in Plans \ blurred' PROVE KeptAsTyped(q)'
  <2>1. CASE q = p
    BY <1>1, <1>2, <1>3, <2>1, AsTypedAfter DEF DraftInv
  <2>2. CASE q # p
    <3>1. IF kept[q] = Away THEN typed[q] = Empty ELSE kept[q].content = typed[q]
      BY <1>3, <2>2, AsTypedNow DEF DraftInv
    <3>. QED BY <1>1, <1>2, <2>2, <3>1, AsTypedAfter DEF DraftInv
  <2>. QED BY <2>1, <2>2
<1>. QED
  BY <1>1, <1>2, <1>3 DEF DraftInv

(* A step that leaves the drafts alone.                                      *)
LEMMA LeavesDrafts ==
    ASSUME DraftInv, TypedInv', UNCHANGED <<draft, kept, typed>>, at' \in {at, Away},
           blurred \subseteq blurred'
    PROVE  DraftInv'
<1>1. ASSUME NEW q \in Plans \ blurred' PROVE KeptAsTyped(q)'
  <2>1. IF kept[q] = Away THEN typed[q] = Empty ELSE kept[q].content = typed[q]
    BY AsTypedNow DEF DraftInv
  <2>. QED BY <2>1, AsTypedAfter DEF DraftInv
<1>. QED
  BY <1>1 DEF DraftInv

LEMMA DraftStep == DraftInv /\ [DraftNext]_draftVars => DraftInv'
<1>. SUFFICES ASSUME DraftInv, [DraftNext]_draftVars PROVE DraftInv'
  OBVIOUS
<1>0. TypedInv
  BY DEF DraftInv
<1>1. CASE UNCHANGED draftVars
  <2>1. TypedInv'
    BY <1>0, <1>1 DEF draftVars, formVars, TypedInv
  <2>. QED BY <1>1, <2>1, LeavesDrafts DEF draftVars, formVars
<1>2. ASSUME NEW p \in Plans, VisitPlan(p) PROVE DraftInv'
  <2>. DEFINE d == ReadStoredDraft(p)
  <2>1. d \in Draft
    BY <1>0, ContentKept
  <2>2. Drafted(p, d) /\ at' = p /\ UNCHANGED <<statuses, chips, submitting, typed, blurred>>
    BY <1>2 DEF VisitPlan
  <2>3. p \notin blurred => d.content = typed[p]
    BY DEF DraftInv, KeptAsTyped
  <2>. HIDE DEF d
  <2>. QED BY <1>0, <2>1, <2>2, <2>3, DraftedStep DEF TypedInv
<1>3. ASSUME NEW p \in Plans, Reform(p) PROVE DraftInv'
  <2>1. statuses' \in [Plans -> Seq(Steps)] /\ chips' \in [Plans -> SUBSET Chips]
    <3>1. CASE \E i \in DOMAIN statuses[p] :
                 statuses' = [statuses EXCEPT ![p] = RemoveAt(@, i)] /\ UNCHANGED chips
      <4>1. PICK i \in DOMAIN statuses[p] :
                 statuses' = [statuses EXCEPT ![p] = RemoveAt(@, i)] /\ UNCHANGED chips
        BY <3>1
      <4>2. statuses[p] \in Seq(Steps)
        BY <1>0 DEF TypedInv
      <4>3. RemoveAt(statuses[p], i) \in Seq(Steps)
        BY <4>2 DEF RemoveAt
      <4>. QED BY <1>0, <4>1, <4>3 DEF TypedInv
    <3>2. CASE \E c \in chips[p] : chips' = [chips EXCEPT ![p] = @ \ {c}] /\ UNCHANGED statuses
      BY <1>0, <3>2 DEF TypedInv
    <3>. QED BY <1>3, <3>1, <3>2 DEF Reform
  <2>2. UNCHANGED <<at, draft, kept, submitting, typed, blurred>>
    BY <1>3 DEF Reform, formVars
  <2>3. TypedInv'
    BY <1>0, <2>1, <2>2 DEF TypedInv
  <2>. QED BY <2>2, <2>3, LeavesDrafts
<1>4. CASE LeavePlan
  <2>1. UNCHANGED <<draft, kept, typed, statuses, chips>> /\ at' = Away
    BY <1>4 DEF LeavePlan, formVars
  <2>2. CASE submitting = Away
    <3>1. TypedInv'
      BY <1>0, <1>4, <2>1, <2>2 DEF LeavePlan, TypedInv
    <3>. QED BY <1>4, <2>1, <2>2, <3>1, LeavesDrafts DEF LeavePlan
  <2>3. CASE submitting # Away
    <3>1. submitting' = [submitting EXCEPT !.here = FALSE]
          /\ blurred' = blurred \cup {submitting.plan}
      BY <1>4, <2>3 DEF LeavePlan
    <3>2. TypedInv'
      BY <1>0, <2>1, <2>3, <3>1 DEF TypedInv
    <3>. QED BY <2>1, <3>1, <3>2, LeavesDrafts
  <2>. QED BY <2>2, <2>3
<1>5. CASE OpenForm
  <2>1. at \in Plans /\ draft \in Draft
    BY <1>0, <1>5 DEF OpenForm, TypedInv
  <2>. DEFINE clean == SanitizeDraft(at, draft)
              left == IsDirtyDraft(at, draft) /\ IsDirtyDraft(at, clean)
              d == IF left THEN clean ELSE MakeInitialDraft(at)
  <2>2. clean \in Draft /\ clean.content = draft.content
    <3>1. MakeInitialDraft(at).status \in Steps \cup {Away}
      BY <1>0, <2>1, InitialDrafts DEF Draft
    <3>. QED BY <2>1, <3>1 DEF SanitizeDraft, Draft
  <2>3. ~left => draft.content = Empty
    BY <1>0, <2>1, <2>2, InitialDrafts DEF IsDirtyDraft
  <2>4. d \in Draft /\ d.content = draft.content
    BY <1>0, <2>1, <2>2, <2>3, InitialDrafts
  <2>5. Drafted(at, d) /\ UNCHANGED <<at, statuses, chips, submitting, typed, blurred>>
    BY <1>5 DEF OpenForm
  <2>6. at \notin blurred => typed[at] = d.content
    BY <2>1, <2>4, DraftAssumption DEF DraftInv
  <2>. HIDE DEF d
  <2>. QED BY <1>0, <2>1, <2>4, <2>5, <2>6, DraftedStep DEF TypedInv
<1>6. CASE CloseForm
  <2>1. UNCHANGED <<at, draft, kept, statuses, chips, submitting, typed, blurred>>
    BY <1>6 DEF CloseForm
  <2>2. TypedInv'
    BY <1>0, <2>1 DEF TypedInv
  <2>. QED BY <2>1, <2>2, LeavesDrafts
<1>7. CASE Pick
  <2>1. at \in Plans /\ draft \in Draft /\ UNCHANGED <<typed, blurred>>
    BY <1>0, <1>7 DEF Pick, TypedInv
  <2>2. ASSUME NEW d \in Draft, d.content = draft.content, Fill(d) PROVE DraftInv'
    <3>1. Drafted(at, d) /\ UNCHANGED <<at, statuses, chips, submitting>>
      BY <2>2 DEF Fill
    <3>2. at \notin blurred => typed[at] = d.content
      BY <2>1, <2>2, DraftAssumption DEF DraftInv
    <3>. QED BY <1>0, <2>1, <3>1, <3>2, DraftedStep DEF TypedInv
  <2>3. ASSUME NEW s \in ToSet(statuses[at]), Fill([draft EXCEPT !.status = s]) PROVE DraftInv'
    <3>1. s \in Steps
      BY <1>0, <2>1 DEF TypedInv, ToSet
    <3>2. [draft EXCEPT !.status = s] \in Draft
          /\ [draft EXCEPT !.status = s].content = draft.content
      BY <2>1, <3>1 DEF Draft
    <3>. QED BY <2>2, <2>3, <3>2
  <2>4. ASSUME NEW c \in chips[at],
               Fill([draft EXCEPT !.chips = IF c \in @ THEN @ \ {c} ELSE @ \cup {c}])
        PROVE  DraftInv'
    <3>. DEFINE e == [draft EXCEPT !.chips = IF c \in @ THEN @ \ {c} ELSE @ \cup {c}]
    <3>1. c \in Chips
      BY <1>0, <2>1 DEF TypedInv
    <3>2. e \in Draft /\ e.content = draft.content
      BY <2>1, <3>1 DEF Draft
    <3>. QED BY <2>2, <2>4, <3>2
  <2>. QED BY <1>7, <2>3, <2>4 DEF Pick
<1>8. ASSUME NEW w \in Words \cup {Empty}, Type(w) PROVE DraftInv'
  <2>. DEFINE d == [draft EXCEPT !.content = w]
  <2>1. at \in Plans /\ draft \in Draft
    BY <1>0, <1>8 DEF Type, Fill, TypedInv
  <2>2. d \in Draft /\ d.content = w
    BY <2>1 DEF Draft
  <2>3. /\ Drafted(at, d) /\ UNCHANGED <<at, statuses, chips, submitting>>
        /\ typed' = [typed EXCEPT ![at] = w] /\ blurred' \in {blurred, blurred \cup {at}}
    BY <1>8 DEF Type, Fill
  <2>. HIDE DEF d
  <2>4. typed' \in [Plans -> Words \cup {Empty}] /\ typed'[at] = w
        /\ \A q \in Plans \ {at} : typed'[q] = typed[q]
    BY <1>0, <2>1, <2>3 DEF TypedInv
  <2>. QED BY <1>0, <2>1, <2>2, <2>3, <2>4, DraftedStep DEF TypedInv
<1>9. ASSUME at \in Plans, Drafted(at, MakeInitialDraft(at)), Forgotten(at),
             UNCHANGED <<at, statuses, chips>>, submitting' \in {submitting, Away}
      PROVE  DraftInv'
  <2>. DEFINE d == MakeInitialDraft(at)
  <2>1. d \in Draft /\ d.content = Empty
    BY <1>0, <1>9, InitialDrafts
  <2>2. typed' \in [Plans -> Words \cup {Empty}] /\ typed'[at] = Empty
        /\ \A q \in Plans \ {at} : typed'[q] = typed[q]
    BY <1>0, <1>9 DEF TypedInv, Forgotten
  <2>3. blurred' = blurred \ {at}
    BY <1>9 DEF Forgotten
  <2>. HIDE DEF d
  <2>. QED BY <1>0, <1>9, <2>1, <2>2, <2>3, DraftedStep DEF TypedInv, d
<1>10. ASSUME NEW close \in BOOLEAN, Discard(close) PROVE DraftInv'
  <2>1. at \in Plans
    BY <1>0, <1>10 DEF Discard, TypedInv
  <2>. QED BY <1>9, <1>10, <2>1 DEF Discard
<1>11. CASE ToggleKeepOpen
  <2>1. UNCHANGED <<at, draft, kept, statuses, chips, submitting, typed, blurred>>
    BY <1>11 DEF ToggleKeepOpen, formVars
  <2>2. TypedInv'
    BY <1>0, <2>1 DEF TypedInv
  <2>. QED BY <2>1, <2>2, LeavesDrafts
<1>12. CASE Submit
  <2>1. UNCHANGED <<at, draft, kept, statuses, chips, typed, blurred>> /\ at # Away
        /\ submitting' = [plan |-> at, draft |-> draft, here |-> TRUE]
    BY <1>12 DEF Submit, formVars
  <2>2. TypedInv'
    BY <1>0, <2>1 DEF TypedInv
  <2>. QED BY <2>1, <2>2, LeavesDrafts
<1>13. CASE SubmitAnswered
  <2>1. submitting # Away /\ submitting' = Away /\ UNCHANGED <<at, statuses, chips>>
    BY <1>13 DEF SubmitAnswered
  <2>2. CASE UNCHANGED <<formVars, kept, typed, blurred>>
    <3>1. UNCHANGED <<draft, kept, typed, blurred>>
      BY <2>2 DEF formVars
    <3>2. TypedInv'
      BY <1>0, <2>1, <3>1 DEF TypedInv
    <3>. QED BY <2>1, <3>1, <3>2, LeavesDrafts
  <2>3. CASE /\ submitting.here /\ Created(at)
             /\ IF at \in blurred THEN blurred' = blurred /\ typed' = typed ELSE Forgotten(at)
    <3>1. at \in Plans
      BY <1>0, <2>1, <2>3 DEF TypedInv
    <3>. DEFINE d == MakeInitialDraft(at)
    <3>2. Drafted(at, d)
      BY <2>3 DEF Created
    <3>3. CASE at \in blurred
      <4>1. d \in Draft
        BY <1>0, <3>1, InitialDrafts
      <4>. HIDE DEF d
      <4>. QED BY <1>0, <2>1, <2>3, <3>1, <3>2, <3>3, <4>1, DraftedStep DEF TypedInv
    <3>4. CASE at \notin blurred
      BY <1>9, <2>1, <2>3, <3>1, <3>2, <3>4
    <3>. QED BY <3>3, <3>4
  <2>. QED BY <1>13, <2>2, <2>3 DEF SubmitAnswered
<1>. QED
  BY <1>1, <1>2, <1>3, <1>4, <1>5, <1>6, <1>7, <1>8, <1>10, <1>11, <1>12, <1>13 DEF DraftNext

(* A finite set, put in some order.                                          *)
LEMMA InARow ==
    ASSUME NEW S, IsFiniteSet(S)
    PROVE  SetToSeq(S) \in Seq(S)
<1>. DEFINE n == Cardinality(S)
<1>1. n \in Nat /\ ExistsBijection(1..n, S)
  BY FS_CardinalityType
<1>2. \E f \in [1..n -> S] : IsInjective(f)
  BY <1>1 DEF ExistsBijection, Bijection, Injection, IsInjective
<1>3. SetToSeq(S) \in [1..n -> S]
  BY <1>2 DEF SetToSeq
<1>. QED BY <1>1, <1>3

LEMMA StepsInARow == SetToSeq(Steps) \in Seq(Steps)
BY InARow, DraftAssumption

LEMMA DraftInvAlways == DraftSpec => []DraftInv
<1>1. DraftInit => DraftInv
  <2>. SUFFICES ASSUME DraftInit PROVE DraftInv
    OBVIOUS
  <2>1. TypedInv
    BY StepsInARow DEF DraftInit, TypedInv, Draft
  <2>2. ASSUME NEW p \in Plans PROVE KeptAsTyped(p)
    <3>1. kept[p] = Away /\ typed[p] = Empty
      BY DEF DraftInit
    <3>. QED BY <2>1, <3>1, ContentKept DEF KeptAsTyped
  <2>. QED BY <2>1, <2>2 DEF DraftInit, DraftInv
<1>. QED
  BY <1>1, DraftStep, PTL DEF DraftSpec

(* TaskCreateSlideover.vue: the form shows what was typed for the project,   *)
(* across closing and leaving, until it is created or thrown away.           *)
THEOREM DraftIsWhatWasTypedAlways == DraftSpec => []DraftIsWhatWasTyped
<1>1. DraftInv => DraftIsWhatWasTyped
  <2>. SUFFICES ASSUME DraftInv PROVE DraftIsWhatWasTyped
    OBVIOUS
  <2>1. ASSUME NEW p \in Plans \ blurred
        PROVE  typed[p] # Empty => kept[p] # Away /\ kept[p].content = typed[p]
    BY AsTypedNow DEF DraftInv
  <2>. QED BY <2>1 DEF DraftInv, DraftIsWhatWasTyped
<1>. QED
  BY <1>1, DraftInvAlways, PTL

(* Types: what neither the drafts nor what was typed depends on. *)
FormShown == slideover \in BOOLEAN /\ restoredDraft \in BOOLEAN /\ keepOpen \in BOOLEAN
DraftCounts == strokes \in 0..MaxStrokes /\ reforms \in 0..MaxReforms

LEMMA DraftBounds == MaxStrokes \in Nat /\ MaxReforms \in Nat
  BY DraftAssumption

LEMMA FormShownStep == FormShown /\ [DraftNext]_draftVars => FormShown'
<1>. SUFFICES ASSUME FormShown, [DraftNext]_draftVars PROVE FormShown'
  OBVIOUS
<1>. USE DEF FormShown, formVars
<1>1. CASE UNCHANGED draftVars
  BY <1>1 DEF draftVars
<1>2. ASSUME NEW p \in Plans, VisitPlan(p) \/ Reform(p) PROVE FormShown'
  BY <1>2 DEF VisitPlan, Reform
<1>3. CASE LeavePlan \/ CloseForm
  BY <1>3 DEF LeavePlan, CloseForm
<1>4. CASE OpenForm
  BY <1>4 DEF OpenForm
<1>5. CASE Pick
  BY <1>5 DEF Pick, Fill
<1>6. CASE ToggleKeepOpen \/ Submit
  BY <1>6 DEF ToggleKeepOpen, Submit
<1>7. CASE SubmitAnswered
  BY <1>7 DEF SubmitAnswered
<1>8. ASSUME NEW w \in Words \cup {Empty}, Type(w) PROVE FormShown'
  BY <1>8 DEF Type, Fill
<1>9. ASSUME NEW close \in BOOLEAN, Discard(close) PROVE FormShown'
  BY <1>9 DEF Discard
<1>. QED BY <1>1, <1>2, <1>3, <1>4, <1>5, <1>6, <1>7, <1>8, <1>9 DEF DraftNext

LEMMA DraftCountsStep == DraftCounts /\ [DraftNext]_draftVars => DraftCounts'
<1>. SUFFICES ASSUME DraftCounts, [DraftNext]_draftVars PROVE DraftCounts'
  OBVIOUS
<1>1. \/ UNCHANGED <<strokes, reforms>>
      \/ Stroke /\ UNCHANGED reforms
      \/ reforms < MaxReforms /\ reforms' = reforms + 1 /\ UNCHANGED strokes
  BY DEF DraftNext, draftVars, VisitPlan, Reform, LeavePlan, OpenForm, CloseForm, Pick, Fill,
     ToggleKeepOpen, Submit, SubmitAnswered, Type, Discard
<1>. QED BY <1>1, DraftBounds DEF Stroke, DraftCounts

(* TaskCreateSlideover.vue: what the form, the storage and the request of    *)
(* the dialog hold, whatever is typed, stored, sent and left.                *)
THEOREM DraftTypeCorrect == DraftSpec => []DraftTypeOK
<1>1. DraftInit => FormShown /\ DraftCounts
  <2>1. DraftInit => FormShown
    BY DEF DraftInit, FormShown
  <2>2. DraftInit => DraftCounts
    BY DraftBounds DEF DraftInit, DraftCounts
  <2>. QED BY <2>1, <2>2
<1>2. DraftInv /\ FormShown /\ DraftCounts => DraftTypeOK
  BY DEF DraftInv, FormShown, DraftCounts, TypedInv, DraftTypeOK
<1>. QED BY <1>1, <1>2, FormShownStep, DraftCountsStep, DraftInvAlways, PTL DEF DraftSpec


---------------------------------------------------------------------------
(* Notices: who is told what *)

(* The two kinds one change may tell the same person, and what is emitted.   *)
Both == {"assigned", "status_changed"}
Tellings == {"assigned", "task_created", "status_changed", "mentioned"}
Emitted == [to : SUBSET Accounts, kind : Tellings]

(* What a hook still has to tell: nothing to the one who made the change,    *)
(* and nobody twice, counting what it has told already.                      *)
TellsOnce(h, said) ==
    /\ {"actor", "change", "queue", "filtered"} \subseteq DOMAIN h
    /\ h.queue \in Seq(Emitted)
    /\ \A i \in DOMAIN h.queue : h.actor \notin h.queue[i].to
    /\ \A i, j \in DOMAIN h.queue : \A u \in h.queue[i].to \cap h.queue[j].to :
          i # j => {h.queue[i].kind, h.queue[j].kind} = Both
    /\ \A n \in said : \A i \in DOMAIN h.queue :
          n.change = h.change /\ n.to \in h.queue[i].to => {n.kind, h.queue[i].kind} = Both

(* The hook under way for a change is the only one, and it tells once what   *)
(* has not been told.                                                        *)
ToldInv ==
    /\ changes \in Nat
    /\ \A h \in hooks : TellsOnce(h, notes) /\ 1 \in DOMAIN h.queue /\ h.change \in 1..changes
    /\ \A h, g \in hooks : h.change = g.change => h = g
    /\ \A n \in notes : /\ {"to", "actor", "kind", "change", "read"} \subseteq DOMAIN n
                        /\ n.change \in 1..changes
    /\ ToldOnce

(* What is left after the emissions that concern nobody.                     *)
LEMMA OnwardTellsOnce ==
    ASSUME NEW said, NEW h, TellsOnce(h, said), NEW k \in Onward(h)
    PROVE  TellsOnce(k, said) /\ 1 \in DOMAIN k.queue /\ k.change = h.change
<1>. DEFINE q == h.queue
<1>1. PICK i \in DOMAIN q :
         k = [h EXCEPT !.queue = SubSeq(@, i, Len(@)), !.filtered = @ /\ i = 1]
  BY DEF Onward
<1>2. q \in Seq(Emitted) /\ i \in 1..Len(q)
  BY DEF TellsOnce
<1>3. /\ DOMAIN k = DOMAIN h /\ k.queue = SubSeq(q, i, Len(q))
      /\ k.change = h.change /\ k.actor = h.actor
  BY <1>1 DEF TellsOnce
<1>4. /\ k.queue \in Seq(Emitted) /\ Len(k.queue) = Len(q) - i + 1
      /\ \A j \in 1..Len(k.queue) : k.queue[j] = q[i + j - 1] /\ i + j - 1 \in 1..Len(q)
  BY <1>2, <1>3, SMTT(30)
<1>5. DOMAIN k.queue = 1..Len(k.queue) /\ DOMAIN q = 1..Len(q)
  BY <1>2, <1>4
<1>6. \A j \in DOMAIN k.queue : k.actor \notin k.queue[j].to
  BY <1>3, <1>4, <1>5 DEF TellsOnce
<1>7. ASSUME NEW a \in DOMAIN k.queue, NEW b \in DOMAIN k.queue, a # b,
             NEW u \in k.queue[a].to \cap k.queue[b].to
      PROVE  {k.queue[a].kind, k.queue[b].kind} = Both
  <2>1. i + a - 1 \in DOMAIN q /\ i + b - 1 \in DOMAIN q /\ i + a - 1 # i + b - 1
    <3>1. i \in Int /\ a \in 1..Len(k.queue) /\ b \in 1..Len(k.queue)
      BY <1>2, <1>5
    <3>2. Len(k.queue) \in Nat
      BY <1>4
    <3>3. i + a - 1 # i + b - 1
      BY <1>7, <3>1, <3>2
    <3>. QED BY <1>4, <1>5, <3>1, <3>3
  <2>2. k.queue[a] = q[i + a - 1] /\ k.queue[b] = q[i + b - 1]
    BY <1>4, <1>5
  <2>. QED BY <1>7, <2>1, <2>2 DEF TellsOnce
<1>8. ASSUME NEW n \in said, NEW a \in DOMAIN k.queue, n.change = k.change,
             n.to \in k.queue[a].to
      PROVE  {n.kind, k.queue[a].kind} = Both
  <2>1. i + a - 1 \in DOMAIN q /\ k.queue[a] = q[i + a - 1]
    BY <1>4, <1>5
  <2>. QED BY <1>3, <1>8, <2>1 DEF TellsOnce
<1>9. 1 \in DOMAIN k.queue
  BY <1>2, <1>4, <1>5
<1>. QED BY <1>3, <1>4, <1>6, <1>7, <1>8, <1>9 DEF TellsOnce

LEMMA OnwardIsOne ==
    ASSUME NEW said, NEW h, TellsOnce(h, said), NEW k \in Onward(h), NEW l \in Onward(h)
    PROVE  k = l
<1>. DEFINE some == {i \in DOMAIN h.queue : h.queue[i].to # {}}
            first == {i \in some : \A j \in some : i <= j}
            after(i) == [h EXCEPT !.queue = SubSeq(@, i, Len(@)), !.filtered = @ /\ i = 1]
<1>1. PICK i \in first : k = after(i)
  BY DEF Onward
<1>2. PICK j \in first : l = after(j)
  BY DEF Onward
<1>3. i \in Int /\ j \in Int
  BY DEF TellsOnce
<1>4. i <= j /\ j <= i
  OBVIOUS
<1>5. i = j
  BY <1>3, <1>4
<1>. HIDE DEF after, first
<1>. QED BY <1>1, <1>2, <1>5

(* Fewer people at the head of the queue.                                    *)
LEMMA NarrowedTellsOnce ==
    ASSUME NEW said, NEW h, TellsOnce(h, said), 1 \in DOMAIN h.queue, NEW left \in SUBSET h.queue[1].to, NEW k,
           DOMAIN k = DOMAIN h, k.queue = [h.queue EXCEPT ![1].to = left],
           k.change = h.change, k.actor = h.actor
    PROVE  TellsOnce(k, said) /\ 1 \in DOMAIN k.queue
<1>1. h.queue \in Seq(Emitted) /\ h.queue[1] \in Emitted
  BY DEF TellsOnce
<1>2. k.queue[1] = [h.queue[1] EXCEPT !.to = left] /\ DOMAIN k.queue = DOMAIN h.queue
  OBVIOUS
<1>3. k.queue[1] \in Emitted /\ k.queue[1].to = left /\ k.queue[1].kind = h.queue[1].kind
  BY <1>1, <1>2 DEF Emitted
<1>4. \A i \in DOMAIN h.queue \ {1} : k.queue[i] = h.queue[i]
  OBVIOUS
<1>5. \A i \in DOMAIN h.queue : /\ k.queue[i] \in Emitted
                                /\ k.queue[i].to \subseteq h.queue[i].to
                                /\ k.queue[i].kind = h.queue[i].kind
  BY <1>1, <1>3, <1>4
<1>6. k.queue \in Seq(Emitted)
  BY <1>1, <1>2, <1>5
<1>. HIDE DEF Emitted
<1>. QED BY <1>2, <1>5, <1>6 DEF TellsOnce

(* A change begins a hook of its own, with a number nothing was told under.  *)
LEMMA BeginTellsOnce ==
    ASSUME ToldInv, NEW site, NEW actor, NEW queue \in Seq(Emitted), Begin(site, actor, queue),
           \A i \in DOMAIN queue : actor \notin queue[i].to,
           \A i, j \in DOMAIN queue : \A u \in queue[i].to \cap queue[j].to :
              i # j => {queue[i].kind, queue[j].kind} = Both
    PROVE  ToldInv'
<1>. DEFINE hook == [actor |-> actor, change |-> changes + 1, site |-> site, queue |-> queue,
                     filtered |-> FALSE]
<1>1. changes' = changes + 1 /\ notes' = notes /\ hooks' = hooks \cup Onward(hook)
  BY DEF Begin
<1>2. changes \in Nat /\ \A n \in notes : n.change \in 1..changes
  BY DEF ToldInv
<1>3. \A n \in notes : n.change # changes + 1
  BY <1>2
<1>4. TellsOnce(hook, notes)
  <2>. DEFINE q == queue
  <2>1. /\ {"actor", "change", "queue", "filtered"} \subseteq DOMAIN hook
        /\ hook.queue = queue /\ hook.actor = actor /\ hook.change = changes + 1
    OBVIOUS
  <2>. HIDE DEF hook
  <2>. QED BY <1>3, <2>1 DEF TellsOnce
<1>5. hook.change = changes + 1
  OBVIOUS
<1>. HIDE DEF hook
<1>6. \A k \in Onward(hook) : /\ TellsOnce(k, notes) /\ 1 \in DOMAIN k.queue
                              /\ k.change = changes + 1
  BY <1>4, <1>5, OnwardTellsOnce
<1>7. \A k, l \in Onward(hook) : k = l
  BY <1>4, OnwardIsOne
<1>8. \A h \in hooks : TellsOnce(h, notes) /\ 1 \in DOMAIN h.queue /\ h.change \in 1..changes
  BY DEF ToldInv
<1>9. changes' \in Nat /\ 1..changes \subseteq 1..changes' /\ changes + 1 \in 1..changes'
      /\ changes + 1 \notin 1..changes
  BY <1>1, <1>2
<1>10. \A h \in hooks' : TellsOnce(h, notes) /\ 1 \in DOMAIN h.queue /\ h.change \in 1..changes'
  BY <1>1, <1>6, <1>8, <1>9
<1>11. \A h \in hooks' : TellsOnce(h, notes')
  BY <1>1, <1>10 DEF TellsOnce
<1>12. \A h, g \in hooks' : h.change = g.change => h = g
  BY <1>1, <1>6, <1>7, <1>8, <1>9 DEF ToldInv
<1>13. \A n \in notes' : /\ {"to", "actor", "kind", "change", "read"} \subseteq DOMAIN n
                         /\ n.change \in 1..changes'
  BY <1>1, <1>9 DEF ToldInv
<1>14. ToldOnce'
  BY <1>1 DEF ToldInv, ToldOnce
<1>. QED BY <1>9, <1>10, <1>11, <1>12, <1>13, <1>14 DEF ToldInv

(* A hook goes on, with fewer people to tell.                                *)
LEMMA HookGoesOn ==
    ASSUME ToldInv, NEW h \in hooks, NEW k, TellsOnce(k, notes'), k.change = h.change,
           \A g \in hooks \ {h} : TellsOnce(g, notes'),
           hooks' = (hooks \ {h}) \cup Onward(k), UNCHANGED changes,
           \A l \in Onward(k) : TellsOnce(l, notes') /\ 1 \in DOMAIN l.queue /\ l.change = k.change,
           \A l, m \in Onward(k) : l = m
    PROVE  /\ \A g \in hooks' : TellsOnce(g, notes') /\ 1 \in DOMAIN g.queue /\ g.change \in 1..changes'
           /\ \A g, l \in hooks' : g.change = l.change => g = l
<1>1. \A g \in hooks : 1 \in DOMAIN g.queue /\ g.change \in 1..changes
  BY DEF ToldInv
<1>2. \A g \in hooks \ {h} : g.change # h.change
  BY DEF ToldInv
<1>3. \A g, l \in hooks' : g.change = l.change => g = l
  BY <1>2 DEF ToldInv
<1>. QED BY <1>1, <1>3

(* Somebody is told, or somebody does not want to be.                        *)
LEMMA HookKeepsTold ==
    ASSUME ToldInv, NEW h \in hooks, NEW left \in SUBSET Head(h.queue).to, NEW k,
           DOMAIN k = DOMAIN h, k.queue = [h.queue EXCEPT ![1].to = left],
           k.change = h.change, k.actor = h.actor,
           hooks' = (hooks \ {h}) \cup Onward(k), UNCHANGED changes,
           TellsOnce(k, notes'), \A g \in hooks \ {h} : TellsOnce(g, notes'),
           \A n \in notes' : /\ {"to", "actor", "kind", "change", "read"} \subseteq DOMAIN n
                             /\ n.change \in 1..changes,
           ToldOnce'
    PROVE  ToldInv'
<1>1. \A l \in Onward(k) : TellsOnce(l, notes') /\ 1 \in DOMAIN l.queue /\ l.change = k.change
  BY OnwardTellsOnce
<1>2. \A l, m \in Onward(k) : l = m
  BY OnwardIsOne
<1>3. /\ \A g \in hooks' : TellsOnce(g, notes') /\ 1 \in DOMAIN g.queue
                           /\ g.change \in 1..changes'
      /\ \A g, l \in hooks' : g.change = l.change => g = l
  BY <1>1, <1>2, HookGoesOn
<1>. QED BY <1>3 DEF ToldInv

LEMMA FilterTellsOnce ==
    ASSUME ToldInv, NEW h \in hooks, FilterByPreference(h)
    PROVE  ToldInv'
<1>. DEFINE e == Head(h.queue)
            left == {u \in e.to : <<u, e.kind>> \notin off}
            k == [h EXCEPT !.queue[1].to = left, !.filtered = TRUE]
<1>1. /\ TellsOnce(h, notes) /\ 1 \in DOMAIN h.queue
      /\ h.queue \in Seq(Emitted) /\ {"actor", "change", "queue", "filtered"} \subseteq DOMAIN h
  BY DEF ToldInv, TellsOnce
<1>2. e = h.queue[1]
  BY <1>1
<1>3. left \in SUBSET h.queue[1].to
  BY <1>2
<1>4. /\ hooks' = (hooks \ {h}) \cup Onward(k)
      /\ notes' = notes /\ changes' = changes
  BY DEF FilterByPreference
<1>. HIDE DEF left, e
<1>5. /\ DOMAIN k = DOMAIN h /\ k.queue = [h.queue EXCEPT ![1].to = left]
      /\ k.change = h.change /\ k.actor = h.actor
  BY <1>1
<1>. HIDE DEF k
<1>6. TellsOnce(k, notes)
  BY <1>1, <1>3, <1>5, NarrowedTellsOnce
<1>7. left \in SUBSET Head(h.queue).to
  BY <1>2, <1>3 DEF e
<1>8. ToldOnce'
  BY <1>4 DEF ToldInv, ToldOnce
<1>9. /\ \A g \in hooks : TellsOnce(g, notes)
      /\ \A n \in notes : /\ {"to", "actor", "kind", "change", "read"} \subseteq DOMAIN n
                          /\ n.change \in 1..changes
  BY DEF ToldInv
<1>. QED BY <1>4, <1>5, <1>6, <1>7, <1>8, <1>9, HookKeepsTold

LEMMA SaveTellsOnce ==
    ASSUME ToldInv, NEW h \in hooks, NEW u \in Accounts, SaveAndPush(h, u)
    PROVE  ToldInv'
<1>. DEFINE e == Head(h.queue)
            left == e.to \ {u}
            k == [h EXCEPT !.queue[1].to = @ \ {u}]
            note == [id |-> Cardinality(notes) + 1, to |-> u, actor |-> h.actor, kind |-> e.kind,
                     change |-> h.change, site |-> h.site, read |-> FALSE]
<1>1. /\ TellsOnce(h, notes) /\ 1 \in DOMAIN h.queue /\ h.change \in 1..changes
      /\ h.queue \in Seq(Emitted) /\ {"actor", "change", "queue", "filtered"} \subseteq DOMAIN h
  BY DEF ToldInv, TellsOnce
<1>2. e = h.queue[1] /\ u \in h.queue[1].to
  BY <1>1 DEF SaveAndPush
<1>3. left \in SUBSET h.queue[1].to
  BY <1>2
<1>4. /\ hooks' = (hooks \ {h}) \cup Onward(k)
      /\ notes' = notes \cup {note} /\ changes' = changes
  BY DEF SaveAndPush
<1>5. /\ DOMAIN k = DOMAIN h /\ k.queue = [h.queue EXCEPT ![1].to = left]
      /\ k.change = h.change /\ k.actor = h.actor
  BY <1>1, <1>2
<1>6. /\ note.to = u /\ note.actor = h.actor /\ note.kind = h.queue[1].kind
      /\ note.change = h.change
      /\ {"to", "actor", "kind", "change", "read"} \subseteq DOMAIN note
  BY <1>2
<1>7. left \in SUBSET Head(h.queue).to /\ u \notin left
  OBVIOUS
<1>. HIDE DEF k, note, left, e
<1>8. TellsOnce(k, notes) /\ 1 \in DOMAIN k.queue
  BY <1>1, <1>3, <1>5, NarrowedTellsOnce
<1>9. /\ DOMAIN k.queue = DOMAIN h.queue /\ k.queue[1].to = left
      /\ \A i \in DOMAIN h.queue \ {1} : k.queue[i] = h.queue[i]
  <2>1. h.queue[1] \in Emitted
    BY <1>1
  <2>2. k.queue[1] = [h.queue[1] EXCEPT !.to = left]
    BY <1>1, <1>5
  <2>3. k.queue[1].to = left
    BY <2>1, <2>2 DEF Emitted
  <2>. QED BY <1>1, <1>5, <2>3
<1>10. ASSUME NEW i \in DOMAIN k.queue, u \in k.queue[i].to
       PROVE  {note.kind, k.queue[i].kind} = Both
  <2>1. i # 1 /\ k.queue[i] = h.queue[i]
    BY <1>7, <1>9, <1>10
  <2>2. {h.queue[1].kind, h.queue[i].kind} = Both
    BY <1>1, <1>2, <1>9, <1>10, <2>1 DEF TellsOnce
  <2>. QED BY <1>6, <2>1, <2>2
<1>11. TellsOnce(k, notes')
  BY <1>4, <1>6, <1>8, <1>10 DEF TellsOnce
<1>12. \A g \in hooks \ {h} : TellsOnce(g, notes')
  <2>1. \A g \in hooks \ {h} : TellsOnce(g, notes) /\ g.change # h.change
    BY DEF ToldInv
  <2>. QED BY <1>4, <1>6, <2>1 DEF TellsOnce
<1>13. \A n \in notes' : /\ {"to", "actor", "kind", "change", "read"} \subseteq DOMAIN n
                         /\ n.change \in 1..changes
  BY <1>1, <1>4, <1>6 DEF ToldInv
<1>14. ToldOnce'
  <2>1. note.to # note.actor
    BY <1>1, <1>2, <1>6 DEF TellsOnce
  <2>2. \A m \in notes : m.to = note.to /\ m.change = note.change => {m.kind, note.kind} = Both
    BY <1>1, <1>2, <1>6 DEF TellsOnce
  <2>3. \A m \in notes : m.to = note.to /\ m.change = note.change => {note.kind, m.kind} = Both
    BY <2>2
  <2>. QED BY <1>4, <2>1, <2>2, <2>3 DEF ToldInv, ToldOnce, Both
<1>. QED BY <1>4, <1>5, <1>7, <1>11, <1>12, <1>13, <1>14, HookKeepsTold

(* Marks as read change nothing of who was told what.                        *)
LEMMA MarksTellNothing ==
    ASSUME ToldInv, NEW marks, notes' = Marked(marks), UNCHANGED <<hooks, changes>>
    PROVE  ToldInv'
<1>1. \A n \in notes' : \E m \in notes :
         /\ n = [m EXCEPT !.read = @ \/ m \in marks]
         /\ DOMAIN n = DOMAIN m /\ n.to = m.to /\ n.actor = m.actor /\ n.kind = m.kind
         /\ n.change = m.change
  <2>. TAKE n \in notes'
  <2>1. PICK m \in notes : n = [m EXCEPT !.read = @ \/ m \in marks]
    BY DEF Marked
  <2>2. {"to", "actor", "kind", "change", "read"} \subseteq DOMAIN m
    BY DEF ToldInv
  <2>. QED BY <2>1, <2>2
<1>2. \A n \in notes' : /\ {"to", "actor", "kind", "change", "read"} \subseteq DOMAIN n
                        /\ n.change \in 1..changes
  BY <1>1 DEF ToldInv
<1>3. \A h \in hooks : TellsOnce(h, notes')
  <2>1. \A h \in hooks : TellsOnce(h, notes)
    BY DEF ToldInv
  <2>. QED BY <1>1, <2>1 DEF TellsOnce
<1>4. ToldOnce'
  <2>. SUFFICES ASSUME NEW n \in notes', NEW o \in notes'
                PROVE  /\ n.to # n.actor
                       /\ n.to = o.to /\ n.change = o.change /\ n # o
                          => {n.kind, o.kind} = {"assigned", "status_changed"}
    BY DEF ToldOnce
  <2>1. PICK m \in notes : /\ n = [m EXCEPT !.read = @ \/ m \in marks]
                           /\ n.to = m.to /\ n.actor = m.actor /\ n.kind = m.kind
                           /\ n.change = m.change
    BY <1>1
  <2>2. PICK p \in notes : /\ o = [p EXCEPT !.read = @ \/ p \in marks]
                           /\ o.to = p.to /\ o.actor = p.actor /\ o.kind = p.kind
                           /\ o.change = p.change
    BY <1>1
  <2>3. n # o => m # p
    BY <2>1, <2>2
  <2>. QED BY <2>1, <2>2, <2>3 DEF ToldInv, ToldOnce
<1>. QED BY <1>2, <1>3, <1>4 DEF ToldInv

(* What the board sends when a task is both given to another and moved: two   *)
(* tellings, one after the other.                                             *)
LEMMA OneAndOne ==
    ASSUME NEW S, NEW x \in S, NEW y \in S
    PROVE  <<x>> \o <<y>> = <<x, y>>
<1>. DEFINE heads == <<x>>
            tails == <<y>>
            joined == heads \o tails
            pair == <<x, y>>
<1>1. /\ heads \in Seq(S) /\ tails \in Seq(S)
      /\ Len(heads) = 1 /\ Len(tails) = 1 /\ heads[1] = x /\ tails[1] = y
  OBVIOUS
<1>2. pair \in Seq(S) /\ Len(pair) = 2 /\ pair[1] = x /\ pair[2] = y
  OBVIOUS
<1>. HIDE DEF heads, tails, pair
<1>3. /\ joined \in Seq(S) /\ Len(joined) = 2
      /\ \A i \in 1..2 : joined[i] = IF i <= 1 THEN heads[i] ELSE tails[i - 1]
  BY <1>1, ConcatProperties
<1>4. joined[1] = x /\ joined[2] = y
  BY <1>1, <1>3
<1>. HIDE DEF joined
<1>5. \A i \in 1..2 : joined[i] = pair[i]
  BY <1>2, <1>4
<1>6. joined = pair
  BY <1>2, <1>3, <1>5, SeqEqual
<1>. QED BY <1>6 DEF joined, pair, heads, tails

(* What each kind of change tells, and whom.                                 *)
LEMMA ChangesTellOnce ==
    ASSUME ToldInv, NEW s \in Places, NEW a \in Accounts, NEW p \in Accounts \cup {Nobody},
           \/ OnTaskCreated(s, a, p) \/ OnSubtaskAssigned(s, a, p)
           \/ p # Nobody /\ OnCommentMentioned(s, a, p)
           \/ \E q \in Accounts \cup {Nobody}, reassigned, moved \in BOOLEAN :
                 OnTaskChanged(s, a, p, q, reassigned, moved)
    PROVE  ToldInv'
<1>. DEFINE Fair == {e \in Emitted : a \notin e.to}
<1>1. ASSUME NEW to \in SUBSET (Accounts \ {a}), NEW kind \in Tellings
      PROVE  Emit(kind, to) \in Fair /\ Emit(kind, to).to = to /\ Emit(kind, to).kind = kind
  BY <1>1 DEF Emit, Emitted
<1>2. ASSUME NEW e \in Fair, Begin(s, a, <<e>>) PROVE ToldInv'
  <2>. DEFINE q == <<e>>
  <2>1. q \in Seq(Emitted) /\ DOMAIN q = {1} /\ q[1] = e
    OBVIOUS
  <2>2. Begin(s, a, q)
    BY <1>2
  <2>. HIDE DEF q
  <2>3. \A i \in DOMAIN q : a \notin q[i].to
    BY <2>1
  <2>. QED BY <2>1, <2>2, <2>3, BeginTellsOnce
<1>3. ASSUME NEW e \in Fair, NEW f \in Fair,
             e.to \cap f.to = {} \/ {e.kind, f.kind} = Both,
             Begin(s, a, <<e, f>>)
      PROVE  ToldInv'
  <2>. DEFINE q == <<e, f>>
  <2>1. q \in Seq(Emitted) /\ DOMAIN q = {1, 2} /\ q[1] = e /\ q[2] = f
    OBVIOUS
  <2>2. Begin(s, a, q)
    BY <1>3
  <2>. HIDE DEF q
  <2>3. \A i \in DOMAIN q : a \notin q[i].to
    BY <2>1
  <2>4. \A i, k \in DOMAIN q : \A u \in q[i].to \cap q[k].to :
           i # k => {q[i].kind, q[k].kind} = Both
    BY <1>3, <2>1
  <2>. QED BY <2>1, <2>2, <2>3, <2>4, BeginTellsOnce
<1>. DEFINE yours == Emit("assigned", PersonOf(p) \ {a})
<1>4. yours \in Fair /\ yours.to = PersonOf(p) \ {a} /\ yours.kind = "assigned"
  <2>1. PersonOf(p) \ {a} \in SUBSET (Accounts \ {a}) /\ "assigned" \in Tellings
    BY DEF Tellings, PersonOf
  <2>. QED BY <1>1, <2>1
<1>. HIDE DEF Fair
<1>5. CASE OnTaskCreated(s, a, p)
  <2>. DEFINE e == Emit("task_created", CreatedTo(a, p))
  <2>1. CreatedTo(a, p) \in SUBSET (Accounts \ {a}) /\ "task_created" \in Tellings
    BY DEF Tellings, CreatedTo
  <2>2. e \in Fair /\ e.to = CreatedTo(a, p)
    BY <1>1, <2>1
  <2>3. yours.to \cap e.to = {}
    BY <1>4, <2>2 DEF CreatedTo, PersonOf
  <2>4. Begin(s, a, <<yours, e>>)
    BY <1>5 DEF OnTaskCreated
  <2>. HIDE DEF yours, e
  <2>. QED BY <1>3, <1>4, <2>2, <2>3, <2>4
<1>6. CASE OnSubtaskAssigned(s, a, p)
  <2>1. Begin(s, a, <<yours>>)
    BY <1>6 DEF OnSubtaskAssigned
  <2>. HIDE DEF yours
  <2>. QED BY <1>2, <1>4, <2>1
<1>7. CASE p # Nobody /\ OnCommentMentioned(s, a, p)
  <2>. DEFINE e == Emit("mentioned", ({p} \cup Alike(p)) \ {a})
  <2>1. ({p} \cup Alike(p)) \ {a} \in SUBSET (Accounts \ {a}) /\ "mentioned" \in Tellings
    BY <1>7, AlikeAreAccounts DEF Tellings
  <2>2. e \in Fair
    BY <1>1, <2>1
  <2>3. Begin(s, a, <<e>>)
    BY <1>7 DEF OnCommentMentioned
  <2>. HIDE DEF e
  <2>. QED BY <1>2, <2>2, <2>3
<1>8. ASSUME NEW q \in Accounts \cup {Nobody}, NEW reassigned \in BOOLEAN, NEW moved \in BOOLEAN,
             OnTaskChanged(s, a, p, q, reassigned, moved)
      PROVE  ToldInv'
  <2>. DEFINE e == Emit("status_changed", (PersonOf(p) \cup PersonOf(q)) \ {a})
  <2>1. /\ (PersonOf(p) \cup PersonOf(q)) \ {a} \in SUBSET (Accounts \ {a})
        /\ "status_changed" \in Tellings
    BY DEF Tellings, PersonOf
  <2>2. e \in Fair /\ e.kind = "status_changed"
    BY <1>1, <2>1
  <2>3. /\ reassigned \/ moved
        /\ Begin(s, a, (IF reassigned THEN <<yours>> ELSE <<>>) \o (IF moved THEN <<e>> ELSE <<>>))
    BY <1>8 DEF OnTaskChanged
  <2>. HIDE DEF yours, e
  <2>4. CASE reassigned /\ moved
    <3>1. <<yours>> \o <<e>> = <<yours, e>>
      BY <1>4, <2>2, OneAndOne
    <3>2. Begin(s, a, <<yours, e>>)
      BY <2>3, <2>4, <3>1
    <3>. QED BY <1>3, <1>4, <2>2, <3>2 DEF Both
  <2>5. CASE reassigned /\ ~moved
    <3>1. <<yours>> \o <<>> = <<yours>>
      BY <1>4
    <3>2. Begin(s, a, <<yours>>)
      BY <2>3, <2>5, <3>1
    <3>. QED BY <1>2, <1>4, <3>2
  <2>6. CASE ~reassigned /\ moved
    <3>1. <<>> \o <<e>> = <<e>>
      BY <2>2
    <3>2. Begin(s, a, <<e>>)
      BY <2>3, <2>6, <3>1
    <3>. QED BY <1>2, <2>2, <3>2
  <2>. QED BY <2>3, <2>4, <2>5, <2>6
<1>. QED BY <1>5, <1>6, <1>7, <1>8

(* Each step tells once.                                                     *)
LEMMA ToldStep == ToldInv /\ [NoticesNext]_noticeVars => ToldInv'
<1>. SUFFICES ASSUME ToldInv, [NoticesNext]_noticeVars PROVE ToldInv'
  OBVIOUS
<1>1. ASSUME UNCHANGED <<notes, hooks, changes>> PROVE ToldInv'
  BY <1>1 DEF ToldInv, ToldOnce, TellsOnce
<1>2. CASE UNCHANGED noticeVars
  BY <1>1, <1>2 DEF noticeVars
<1>3. ASSUME NEW h \in hooks, HookFails(h) PROVE ToldInv'
  <2>1. hooks' \subseteq hooks /\ UNCHANGED <<notes, changes>>
    BY <1>3 DEF HookFails
  <2>. QED BY <2>1 DEF ToldInv, ToldOnce
<1>4. ASSUME NEW u \in Accounts, NEW k \in Kinds, SetPreference(u, k) PROVE ToldInv'
  BY <1>1, <1>4 DEF SetPreference
<1>5. ASSUME NEW s \in Places, SetView(s) PROVE ToldInv'
  BY <1>1, <1>5 DEF SetView
<1>6. ASSUME NEW c \in calls, ServeList(c) \/ ServeCount(c) PROVE ToldInv'
  BY <1>1, <1>6 DEF ServeList, ServeCount, ServedWith
<1>7. ASSUME NEW c \in calls, ServeRead(c) \/ ServeReadAll(c) PROVE ToldInv'
  <2>1. PICK marks : notes' = Marked(marks)
    BY <1>7 DEF ServeRead, ServeReadAll
  <2>2. UNCHANGED <<hooks, changes>>
    BY <1>7 DEF ServeRead, ServeReadAll, ServedWith
  <2>. QED BY <2>1, <2>2, MarksTellNothing
<1>8. ASSUME NEW c \in calls,
             Refreshed(c) \/ MarkedRead(c) \/ MarkedAllRead(c) \/ CallFails(c)
      PROVE  ToldInv'
  BY <1>1, <1>8 DEF Refreshed, MarkedRead, MarkedAllRead, CallFails, Follow, Bell
<1>9. CASE MountBell \/ Subscribed \/ StreamBreaks \/ OnMessage \/ MarkAllRead
  BY <1>1, <1>9 DEF MountBell, Subscribed, StreamBreaks, OnMessage, MarkAllRead, Follow, Bell
<1>10. ASSUME NEW i \in Ids, MarkRead(i) PROVE ToldInv'
  BY <1>1, <1>10 DEF MarkRead, Bell
<1>. QED
  BY <1>2, <1>3, <1>4, <1>5, <1>6, <1>7, <1>8, <1>9, <1>10, ChangesTellOnce, FilterTellsOnce,
     SaveTellsOnce
  DEF NoticesNext

(* One is told of a change once: of a new task as its assignee or as a       *)
(* member, not as both; of an update that reassigns a task and moves it on,  *)
(* once of each; and nobody is told of a change of their own                 *)
(* (NotificationsService and the hooks that call it).                        *)
THEOREM ToldOnceAlways == NoticesSpec => []ToldOnce
<1>1. NoticesInit => ToldInv
  BY DEF NoticesInit, ToldInv, ToldOnce
<1>2. ToldInv /\ [NoticesNext]_noticeVars => ToldInv'
  BY ToldStep
<1>3. ToldInv => ToldOnce
  BY DEF ToldInv
<1>. QED BY <1>1, <1>2, <1>3, PTL DEF NoticesSpec

---------------------------------------------------------------------------
(* TaskDetail: the history of the panel *)

(* A stamp the task has had: none that an update gives it from now on, but    *)
(* for tags that change twice within a second.                                *)
StampKnown(k, task) ==
    /\ k.sub \in Nat /\ k.sub <= task.count
    /\ k.sec \in Int
    /\ k.sub = 0 => k.sec = 0 \/ k.sec <= task.tagged

SheetKnown ==
    /\ now \in Nat \ {0}
    /\ DOMAIN sheet = Sheets
    /\ \A s \in Sheets :
         /\ DOMAIN sheet[s] = {"row", "stamp", "entry", "count", "mine", "tagged"}
         /\ sheet[s].count \in Nat /\ sheet[s].mine \in Nat /\ sheet[s].mine <= sheet[s].count
         /\ sheet[s].tagged \in Int /\ sheet[s].tagged <= now
         /\ StampKnown(sheet[s].stamp, sheet[s]) /\ StampKnown(copies[s].stamp, sheet[s])
         /\ listFetch.state = "read" => StampKnown(listFetch.got[s].stamp, sheet[s])

(* The list the page will have soon brings a stamp it does not have.         *)
ListTells(s) ==
    \/ listFetch.state = "sent"
    \/ listFetch.state = "read" /\ listFetch.got[s].stamp # copies[s].stamp
    \/ \E x \in saves : x.task = s /\ x.served

(* An own entry that the history lacks is on its way to it: a fetch will     *)
(* read it or has, or updated_at differs from what the page has and the list *)
(* that says so will be fetched.                                             *)
EntryOnItsWay(s) ==
    \/ sheet[s].mine <= history
    \/ historyFetch.state = "sent"
    \/ historyFetch.state = "read" /\ sheet[s].mine <= historyFetch.got
    \/ copies[s].stamp # sheet[s].stamp /\ ListTells(s)

PanelKnown(s) ==
    /\ history \in Nat /\ history <= sheet[s].count
    /\ historyFetch.state = "read" =>
         /\ historyFetch.got \in Nat
         /\ history <= historyFetch.got /\ historyFetch.got <= sheet[s].count
    /\ s \notin twice => EntryOnItsWay(s)

SentSave(x) == DOMAIN x = {"n", "task", "dto", "served"} /\ x.task \in Sheets

HistoryInv ==
    /\ SheetKnown
    /\ \A x \in saves : SentSave(x)
    /\ shownTask \in Sheets \cup {Absent}
    /\ shownTask # Absent => PanelKnown(shownTask)

(* An update leaves the other tasks alone; one that changes anything has an  *)
(* entry of its own and moves updated_at to where it has never been.         *)
LEMMA UpdateMoves ==
    ASSUME SheetKnown, NEW s \in Sheets, NEW dto, NEW ours \in BOOLEAN, Update(s, dto, ours),
           UNCHANGED <<now, copies, listFetch>>
    PROVE  /\ SheetKnown'
           /\ twice \subseteq twice'
           /\ \A t \in Sheets : /\ sheet[t].count <= sheet'[t].count
                                /\ t # s \/ ~ours => sheet'[t].mine = sheet[t].mine
                                /\ \/ sheet'[t].stamp = sheet[t].stamp /\ sheet'[t].mine = sheet[t].mine
                                   \/ t \in twice'
                                   \/ sheet'[t].stamp # copies[t].stamp
<1>. DEFINE after == Written(sheet[s].row, dto)
            rewritten == TaskChanges(sheet[s].row, after)
            stamp == Stamp(sheet[s], rewritten)
            retold == rewritten.tags # {} /\ sheet[s].tagged = now
<1>1. CASE rewritten = NoChange
  <2>1. UNCHANGED <<sheet, twice>>
    BY <1>1 DEF Update
  <2>. QED BY <2>1 DEF SheetKnown, StampKnown
<1>2. CASE rewritten # NoChange
  <2>1. /\ sheet' = [sheet EXCEPT ![s] =
                        [row |-> after, stamp |-> stamp, entry |-> rewritten,
                         count |-> sheet[s].count + 1,
                         mine |-> IF ours THEN sheet[s].count + 1 ELSE sheet[s].mine,
                         tagged |-> IF rewritten.tags # {} THEN now ELSE sheet[s].tagged]]
        /\ twice' = IF retold THEN twice \cup {s} ELSE twice
    BY <1>2 DEF Update
  <2>2. /\ stamp.sec = now
        /\ stamp.sub = IF rewritten.tags # {} THEN 0 ELSE sheet[s].count + 1
    BY DEF Stamp
  <2>. HIDE DEF after, rewritten, stamp
  <2>3. /\ DOMAIN sheet' = Sheets
        /\ \A t \in Sheets \ {s} : sheet'[t] = sheet[t]
        /\ sheet'[s].stamp = stamp /\ sheet'[s].count = sheet[s].count + 1
        /\ sheet'[s].mine = IF ours THEN sheet[s].count + 1 ELSE sheet[s].mine
        /\ sheet'[s].tagged = IF rewritten.tags # {} THEN now ELSE sheet[s].tagged
        /\ DOMAIN sheet'[s] = {"row", "stamp", "entry", "count", "mine", "tagged"}
    BY <2>1 DEF SheetKnown
  <2>4. ASSUME NEW k, StampKnown(k, sheet[s]) PROVE StampKnown(k, sheet'[s])
    BY <2>3, <2>4 DEF SheetKnown, StampKnown
  <2>5. StampKnown(stamp, sheet'[s])
    BY <2>2, <2>3 DEF SheetKnown, StampKnown
  <2>6. retold \/ stamp # copies[s].stamp
    BY <2>2 DEF SheetKnown, StampKnown
  <2>7. SheetKnown'
    <3>2. /\ sheet'[s].count \in Nat /\ sheet'[s].mine \in Nat /\ sheet'[s].mine <= sheet'[s].count
          /\ sheet'[s].tagged \in Int /\ sheet'[s].tagged <= now
      BY <2>3 DEF SheetKnown
    <3>3. /\ StampKnown(sheet'[s].stamp, sheet'[s]) /\ StampKnown(copies[s].stamp, sheet'[s])
          /\ listFetch.state = "read" => StampKnown(listFetch.got[s].stamp, sheet'[s])
      BY <2>3, <2>4, <2>5 DEF SheetKnown
    <3>. QED BY <2>3, <3>2, <3>3 DEF SheetKnown
  <2>. QED BY <2>1, <2>3, <2>6, <2>7 DEF SheetKnown
<1>. QED BY <1>1, <1>2

(* What the panel does before it is sent disturbs nothing.                   *)
LEMMA GesturesDisturbNothing ==
    ASSUME HistoryInv, saves \subseteq saves', \A x \in saves' : x \in saves \/ SentSave(x),
           UNCHANGED <<sheet, now, twice, copies, listFetch, shownTask, history, historyFetch>>
    PROVE  HistoryInv'
BY DEF HistoryInv, SheetKnown, StampKnown, PanelKnown, EntryOnItsWay, ListTells

LEMMA HistoryStep == HistoryInv /\ [DetailNext]_detailVars => HistoryInv'
<1>. SUFFICES ASSUME HistoryInv, [DetailNext]_detailVars PROVE HistoryInv'
  OBVIOUS
<1>1. CASE UNCHANGED detailVars
  BY <1>1, GesturesDisturbNothing DEF detailVars, panelState
<1>2. ASSUME NEW s \in Sheets \cup {Absent}, Show(s) PROVE HistoryInv'
  <2>1. SheetKnown'
    BY <1>2 DEF Show, HistoryInv, SheetKnown
  <2>2. s # Absent => PanelKnown(s)'
    BY <1>2 DEF Show, HistoryInv, SheetKnown, PanelKnown, EntryOnItsWay, Asking
  <2>. QED BY <1>2, <2>1, <2>2 DEF Show, HistoryInv
<1>3. ASSUME NEW c \in Scalars, StartEdit(c) PROVE HistoryInv'
  BY <1>3, GesturesDisturbNothing DEF StartEdit
<1>4. ASSUME NEW i \in 0..MaxLinks, StartEditLink(i) PROVE HistoryInv'
  BY <1>4, GesturesDisturbNothing DEF StartEditLink
<1>5. ASSUME NEW i \in 0..MaxLinks, DeleteLink(i) PROVE HistoryInv'
  BY <1>5, GesturesDisturbNothing DEF SentSave, HistoryInv, DeleteLink, ChangeField, panelState
<1>6. ASSUME NEW v \in Texts, CommitEdit(v) PROVE HistoryInv'
  BY <1>6, GesturesDisturbNothing DEF SentSave, HistoryInv, CommitEdit, ChangeField
<1>7. ASSUME NEW l \in TaskLink, SaveLink(l) PROVE HistoryInv'
  BY <1>7, GesturesDisturbNothing DEF SentSave, HistoryInv, SaveLink, ChangeField
<1>8. ASSUME NEW g \in TagCodes, PickTag(g) PROVE HistoryInv'
  BY <1>8, GesturesDisturbNothing DEF SentSave, HistoryInv, PickTag, ChangeField, panelState
<1>9. ASSUME NEW g \in TagCodes, RemoveTag(g) PROVE HistoryInv'
  <2>1. /\ DOMAIN sheet' = Sheets
        /\ \A s \in Sheets : /\ DOMAIN sheet'[s] = DOMAIN sheet[s]
                             /\ sheet'[s].stamp = sheet[s].stamp /\ sheet'[s].count = sheet[s].count
                             /\ sheet'[s].mine = sheet[s].mine /\ sheet'[s].tagged = sheet[s].tagged
    BY <1>9 DEF RemoveTag, HistoryInv, SheetKnown
  <2>2. UNCHANGED <<now, twice, copies, listFetch, shownTask, history, historyFetch, saves>>
    BY <1>9 DEF RemoveTag, panelState
  <2>3. SheetKnown'
    BY <2>1, <2>2 DEF HistoryInv, SheetKnown, StampKnown
  <2>. QED BY <2>1, <2>2, <2>3 DEF HistoryInv, PanelKnown, EntryOnItsWay, ListTells
<1>10. CASE CancelEdit
  BY <1>10, GesturesDisturbNothing DEF CancelEdit
<1>11. CASE Tick
  <2>1. SheetKnown'
    BY <1>11 DEF Tick, HistoryInv, SheetKnown, StampKnown
  <2>. QED
    BY <1>11, <2>1 DEF Tick, panelState, HistoryInv, PanelKnown, EntryOnItsWay, ListTells
<1>12. ASSUME NEW x \in saves, ServeSave(x) PROVE HistoryInv'
  <2>. DEFINE s == x.task
              answer == [x EXCEPT !.served = TRUE]
  <2>1. /\ UNCHANGED <<now, copies, listFetch, shownTask, history, historyFetch>>
        /\ s \in Sheets /\ SheetKnown /\ Update(s, x.dto, TRUE)
        /\ saves' = (saves \ {x}) \cup {answer} /\ ~x.served
    BY <1>12 DEF ServeSave, panelState, HistoryInv, SentSave
  <2>2. answer.task = s /\ answer.served /\ SentSave(answer)
    BY DEF HistoryInv, SentSave
  <2>3. /\ SheetKnown' /\ twice \subseteq twice'
        /\ \A t \in Sheets : /\ sheet[t].count <= sheet'[t].count
                             /\ t # s => sheet'[t].mine = sheet[t].mine
                             /\ \/ sheet'[t].stamp = sheet[t].stamp /\ sheet'[t].mine = sheet[t].mine
                                \/ t \in twice'
                                \/ sheet'[t].stamp # copies[t].stamp
    BY <2>1, UpdateMoves
  <2>. HIDE DEF s, answer
  <2>4. ASSUME NEW t \in Sheets, t \notin twice', EntryOnItsWay(t) PROVE EntryOnItsWay(t)'
    <3>1. t = s => ListTells(t)'
      BY <2>1, <2>2 DEF ListTells
    <3>2. ListTells(t) => ListTells(t)'
      BY <2>1 DEF ListTells
    <3>. QED BY <2>1, <2>3, <2>4, <3>1, <3>2 DEF EntryOnItsWay
  <2>. QED BY <2>1, <2>2, <2>3, <2>4 DEF HistoryInv, SheetKnown, PanelKnown
<1>13. ASSUME NEW x \in saves, SaveAnswered(x) PROVE HistoryInv'
  BY <1>13 DEF SaveAnswered, panelState, HistoryInv, SheetKnown, StampKnown, PanelKnown, EntryOnItsWay,
     ListTells, Asking
<1>14. CASE ListRead
  <2>1. SheetKnown'
    BY <1>14 DEF ListRead, HistoryInv, SheetKnown
  <2>. QED
    BY <1>14, <2>1 DEF ListRead, panelState, HistoryInv, PanelKnown, EntryOnItsWay, ListTells
<1>15. CASE ListAnswered
  <2>1. SheetKnown'
    BY <1>15 DEF ListAnswered, HistoryInv, SheetKnown, NotAsked
  <2>. QED
    BY <1>15, <2>1 DEF ListAnswered, HistoryInv, PanelKnown, EntryOnItsWay, ListTells, NotAsked, Asking
<1>16. CASE HistoryRead
  <2>1. SheetKnown'
    BY <1>16 DEF HistoryRead, HistoryInv, SheetKnown
  <2>. QED
    BY <1>16, <2>1 DEF HistoryRead, HistoryInv, PanelKnown, EntryOnItsWay, SheetKnown
<1>17. CASE HistoryAnswered
  <2>1. SheetKnown'
    BY <1>17 DEF HistoryAnswered, HistoryInv, SheetKnown
  <2>. QED
    BY <1>17, <2>1 DEF HistoryAnswered, HistoryInv, PanelKnown, EntryOnItsWay, SheetKnown, NotAsked,
       ListTells
<1>18. ASSUME NEW s \in Sheets, Hear(s) PROVE HistoryInv'
  <2>1. SheetKnown'
    BY <1>18 DEF Hear, HistoryInv, SheetKnown, Asking
  <2>. QED
    BY <1>18, <2>1 DEF Hear, HistoryInv, PanelKnown, EntryOnItsWay, ListTells, Asking
<1>19. ASSUME NEW s \in Sheets, NEW dto, OtherUpdate(s, dto) PROVE HistoryInv'
  <2>1. UNCHANGED <<now, copies, listFetch, shownTask, history, historyFetch, saves>>
    BY <1>19 DEF OtherUpdate, panelState
  <2>2. Update(s, dto, FALSE)
    BY <1>19 DEF OtherUpdate
  <2>3. /\ SheetKnown' /\ twice \subseteq twice'
        /\ \A t \in Sheets : /\ sheet[t].count <= sheet'[t].count
                             /\ sheet'[t].mine = sheet[t].mine
                             /\ \/ sheet'[t].stamp = sheet[t].stamp
                                \/ t \in twice'
                                \/ sheet'[t].stamp # copies[t].stamp
    BY <2>1, <2>2, UpdateMoves DEF HistoryInv
  <2>. QED BY <2>1, <2>3 DEF HistoryInv, SheetKnown, PanelKnown, EntryOnItsWay, ListTells
<1>. QED
  BY <1>1, <1>2, <1>3, <1>4, <1>5, <1>6, <1>7, <1>8, <1>9, <1>10, <1>11, <1>12, <1>13, <1>14,
     <1>15, <1>16, <1>17, <1>18, <1>19 DEF DetailNext

(* TaskDetailSlideover.vue: once all is answered, the history of the panel   *)
(* has every entry of the panel's own edits, of which no event tells it: the *)
(* list that the answer has fetched brings an updated_at that is new         *)
(* (TasksService.update moves it by hand when only tags change).             *)
THEOREM OwnEditsInHistoryAlways == DetailSpec => []OwnEditsInHistory
<1>1. DetailInit => HistoryInv
  <2>. SUFFICES ASSUME DetailInit PROVE HistoryInv
    OBVIOUS
  <2>. QED BY DEF DetailInit, DetailFrom, HistoryInv, SheetKnown, StampKnown, NotAsked
<1>2. HistoryInv => OwnEditsInHistory
  BY DEF HistoryInv, PanelKnown, EntryOnItsWay, ListTells, OwnEditsInHistory, NotAsked, SheetKnown
<1>. QED BY <1>1, <1>2, HistoryStep, PTL DEF DetailSpec

---------------------------------------------------------------------------
(* TaskDetail: the entry of an update *)

(* Links are a short list. *)
LEMMA LinksTyped ==
    ASSUME NEW links \in TaskLinks
    PROVE  /\ links \in Seq(TaskLink)
           /\ Len(links) \in 0..MaxLinks /\ DOMAIN links = 1..Len(links)
           /\ DOMAIN links \in SUBSET Nat /\ IsFiniteSet(DOMAIN links)
           /\ \A i \in DOMAIN links : links[i] \in TaskLink
<1>1. PICK n \in 0..MaxLinks : links \in [1..n -> TaskLink]
  BY DEF TaskLinks
<1>2. n \in Nat
  BY <1>1, DetailAssumption
<1>3. links \in Seq(TaskLink) /\ Len(links) = n /\ DOMAIN links = 1..n
  BY <1>1, <1>2
<1>4. IsFiniteSet(1..n)
  BY <1>2, FS_Interval
<1>. QED BY <1>1, <1>2, <1>3, <1>4

(* Of two links of the same URL the later has more of that URL before it.    *)
LEMMA NthGrows ==
    ASSUME NEW a \in TaskLinks, NEW j \in DOMAIN a, NEW k \in DOMAIN a, a[j].url = a[k].url, j < k
    PROVE  Nth(a, j) < Nth(a, k) /\ Nth(a, j) \in Nat /\ Nth(a, k) \in Nat
<1>. DEFINE J == {i \in 1..j : a[i].url = a[j].url}
            K == {i \in 1..k : a[i].url = a[k].url}
<1>1. j \in Nat /\ k \in Nat /\ 1 <= j
  BY LinksTyped
<1>2. IsFiniteSet(1..k) /\ K \in SUBSET (1..k)
  BY <1>1, FS_Interval
<1>3. IsFiniteSet(K)
  BY <1>2, FS_Subset
<1>4. J \in SUBSET K /\ k \in K /\ k \notin J
  BY <1>1
<1>5. Nth(a, j) = Cardinality(J) /\ Nth(a, k) = Cardinality(K)
  BY DEF Nth
<1>. HIDE DEF J, K
<1>6. IsFiniteSet(J) /\ Cardinality(J) <= Cardinality(K) /\ Cardinality(J) # Cardinality(K)
  BY <1>3, <1>4, FS_Subset
<1>7. Cardinality(J) \in Nat /\ Cardinality(K) \in Nat
  BY <1>3, <1>6, FS_CardinalityType
<1>. QED BY <1>5, <1>6, <1>7

(* A link has at most one partner.                                           *)
LEMMA MatchedOnce ==
    ASSUME NEW b \in TaskLinks, NEW a \in TaskLinks, NEW p \in Matched(b, a), NEW q \in Matched(b, a)
    PROVE  /\ p[1] \in DOMAIN b /\ p[2] \in DOMAIN a /\ p = <<p[1], p[2]>>
           /\ b[p[1]].url = a[p[2]].url
           /\ p[1] = q[1] <=> p[2] = q[2]
<1>1. \A r \in Matched(b, a) : /\ r[1] \in DOMAIN b /\ r[2] \in DOMAIN a /\ r = <<r[1], r[2]>>
                               /\ b[r[1]].url = a[r[2]].url /\ Nth(b, r[1]) = Nth(a, r[2])
  BY DEF Matched, Pairs
<1>2. DOMAIN a \in SUBSET Nat /\ DOMAIN b \in SUBSET Nat
  BY LinksTyped
<1>3. ASSUME p[1] = q[1], p[2] # q[2] PROVE FALSE
  <2>1. a[p[2]].url = a[q[2]].url /\ Nth(a, p[2]) = Nth(a, q[2])
    BY <1>1, <1>3
  <2>2. p[2] \in DOMAIN a /\ q[2] \in DOMAIN a /\ p[2] \in Nat /\ q[2] \in Nat
    BY <1>1, <1>2
  <2>3. CASE p[2] < q[2]
    BY <2>1, <2>2, <2>3, NthGrows
  <2>4. CASE q[2] < p[2]
    BY <2>1, <2>2, <2>4, NthGrows
  <2>. QED BY <1>3, <2>2, <2>3, <2>4
<1>4. ASSUME p[2] = q[2], p[1] # q[1] PROVE FALSE
  <2>1. b[p[1]].url = b[q[1]].url /\ Nth(b, p[1]) = Nth(b, q[1])
    BY <1>1, <1>4
  <2>2. p[1] \in DOMAIN b /\ q[1] \in DOMAIN b /\ p[1] \in Nat /\ q[1] \in Nat
    BY <1>1, <1>2
  <2>3. CASE p[1] < q[1]
    BY <2>1, <2>2, <2>3, NthGrows
  <2>4. CASE q[1] < p[1]
    BY <2>1, <2>2, <2>4, NthGrows
  <2>. QED BY <1>4, <2>2, <2>3, <2>4
<1>. QED BY <1>1, <1>3, <1>4

(* The changes of some places are each told once.                            *)
LEMMA ToldInOrder ==
    ASSUME NEW g, IsFiniteSet(DOMAIN g), DOMAIN g \in SUBSET Nat, NEW E, g \in [DOMAIN g -> E]
    PROVE  /\ InOrder(g) \in Seq(E)
           /\ InOrder(g) = <<>> => DOMAIN g = {}
           /\ \A l, side : /\ TimesIn(InOrder(g), l, side) = Cardinality({x \in DOMAIN g : g[x][side] = l})
                           /\ TimesIn(InOrder(g), l, side) \in Nat
<1>. DEFINE S == DOMAIN g
            R == {p \in S \X S : p[1] < p[2]}
            order == CHOOSE q \in SetToSeqs(S) : \A m, n \in DOMAIN q : m < n => q[m] < q[n]
            n == Cardinality(S)
<1>1. \A x, y \in S : (<<x, y>> \in R) <=> x < y
  OBVIOUS
<1>2. \A x \in S : x \in Nat
  OBVIOUS
<1>. HIDE DEF R
<1>3. PICK q \in SetToSeqs(S) : \A i, j \in DOMAIN q : i < j => <<q[i], q[j]>> \in R
  <2>1. /\ \A x, y \in S : x # y => <<x, y>> \in R \/ <<y, x>> \in R
        /\ \A x, y, z \in S : <<x, y>> \in R /\ <<y, z>> \in R => <<x, z>> \in R
    BY <1>1, <1>2
  <2>. QED BY <2>1, ListInOrder
<1>4. \A i \in DOMAIN q : q[i] \in S
  BY <1>3 DEF SetToSeqs
<1>5. \E p \in SetToSeqs(S) : \A i, j \in DOMAIN p : i < j => p[i] < p[j]
  BY <1>1, <1>3, <1>4
<1>6. order \in SetToSeqs(S)
  BY <1>5
<1>7. InOrder(g) = [i \in DOMAIN order |-> g[order[i]]]
  BY DEF InOrder
<1>. HIDE DEF order
<1>8. n \in Nat
  BY FS_CardinalityType
<1>9. order \in [1..n -> S] /\ \A i, j \in 1..n : order[i] = order[j] => i = j
  BY <1>6 DEF SetToSeqs
<1>10. \A s \in S : \E i \in DOMAIN order : order[i] = s
  BY <1>6, <1>8, <1>9, ListsHaveAll DEF n
<1>. HIDE DEF n
<1>11. InOrder(g) \in [1..n -> E] /\ \A i \in 1..n : InOrder(g)[i] = g[order[i]]
  BY <1>7, <1>9
<1>12. InOrder(g) \in Seq(E)
  BY <1>8, <1>11
<1>13. ASSUME InOrder(g) = <<>> PROVE S = {}
  <2>1. 1..n = {}
    BY <1>11, <1>13
  <2>. QED BY <1>9, <1>10, <2>1
<1>14. ASSUME NEW l, NEW side
       PROVE  /\ TimesIn(InOrder(g), l, side) = Cardinality({x \in S : g[x][side] = l})
              /\ TimesIn(InOrder(g), l, side) \in Nat
  <2>. DEFINE M == {i \in 1..n : g[order[i]][side] = l}
              T == {x \in S : g[x][side] = l}
              f == [i \in M |-> order[i]]
  <2>1. {i \in DOMAIN InOrder(g) : InOrder(g)[i][side] = l} = M
    BY <1>11
  <2>2. f \in [M -> T]
    BY <1>9
  <2>3. \A i, j \in M : f[i] = f[j] => i = j
    BY <1>9
  <2>4. \A x \in T : \E i \in M : f[i] = x
    BY <1>9, <1>10
  <2>5. f \in Bijection(M, T)
    BY <2>2, <2>3, <2>4 DEF Bijection, Injection, Surjection, IsInjective
  <2>6. IsFiniteSet(M)
    <3>1. IsFiniteSet(1..n) /\ M \in SUBSET (1..n)
      BY <1>8, FS_Interval
    <3>. HIDE DEF M
    <3>. QED BY <3>1, FS_Subset
  <2>. HIDE DEF M, T, f
  <2>7. Cardinality(T) = Cardinality(M) /\ Cardinality(M) \in Nat
    BY <2>5, <2>6, FS_Bijection, FS_CardinalityType DEF ExistsBijection
  <2>8. TimesIn(InOrder(g), l, side) = Cardinality(M)
    BY <2>1 DEF TimesIn
  <2>. QED BY <2>7, <2>8 DEF T
<1>. QED BY <1>12, <1>13, <1>14

(* Of two lists of changes, one after the other, each is told.               *)
LEMMA ToldTogether ==
    ASSUME NEW E, NEW a \in Seq(E), NEW b \in Seq(E)
    PROVE  /\ a \o b \in Seq(E)
           /\ a \o b = <<>> => a = <<>> /\ b = <<>>
           /\ \A l, side : TimesIn(a \o b, l, side) = TimesIn(a, l, side) + TimesIn(b, l, side)
<1>. DEFINE n == Len(a)
<1>1. /\ n \in Nat /\ Len(b) \in Nat /\ DOMAIN a = 1..n /\ DOMAIN b = 1..Len(b)
      /\ a \o b \in Seq(E) /\ DOMAIN (a \o b) = 1..(n + Len(b))
      /\ \A i \in 1..n : (a \o b)[i] = a[i]
      /\ \A i \in 1..Len(b) : (a \o b)[i + n] = b[i]
  OBVIOUS
<1>2. ASSUME a \o b = <<>> PROVE a = <<>> /\ b = <<>>
  <2>1. n + Len(b) = 0
    BY <1>1, <1>2
  <2>. QED BY <1>1, <2>1
<1>3. ASSUME NEW l, NEW side
      PROVE  TimesIn(a \o b, l, side) = TimesIn(a, l, side) + TimesIn(b, l, side)
  <2>. DEFINE A == {i \in DOMAIN a : a[i][side] = l}
              B == {i \in DOMAIN b : b[i][side] = l}
              C == {i \in DOMAIN (a \o b) : (a \o b)[i][side] = l}
              D == {i + n : i \in B}
              f == [i \in B |-> i + n]
  <2>1. A \in SUBSET (1..n) /\ B \in SUBSET (1..Len(b))
    BY <1>1
  <2>2. IsFiniteSet(A) /\ IsFiniteSet(B)
    <3>. HIDE DEF A, B
    <3>1. IsFiniteSet(1..n) /\ IsFiniteSet(1..Len(b))
      BY <1>1, FS_Interval
    <3>. QED BY <2>1, <3>1, FS_Subset
  <2>3. f \in [B -> D] /\ \A d \in D : \E i \in B : f[i] = d
    OBVIOUS
  <2>4. \A i, j \in B : f[i] = f[j] => i = j
    BY <1>1, <2>1
  <2>5. f \in Bijection(B, D)
    BY <2>3, <2>4 DEF Bijection, Injection, Surjection, IsInjective
  <2>6. A \cap D = {}
    BY <1>1, <2>1
  <2>7. C = A \cup D
    <3>1. \A i \in C : i \in A \cup D
      <4>. SUFFICES ASSUME NEW i \in C, i \notin A PROVE i \in D
        OBVIOUS
      <4>1. i \in 1..(n + Len(b)) /\ ~(i \in 1..n)
        BY <1>1
      <4>2. i - n \in 1..Len(b) /\ i = (i - n) + n
        BY <1>1, <4>1
      <4>3. i - n \in B
        BY <1>1, <4>2
      <4>. QED BY <4>2, <4>3
    <3>2. A \subseteq C
      BY <1>1
    <3>3. D \subseteq C
      BY <1>1
    <3>. QED BY <3>1, <3>2, <3>3
  <2>8. TimesIn(a, l, side) = Cardinality(A) /\ TimesIn(b, l, side) = Cardinality(B)
        /\ TimesIn(a \o b, l, side) = Cardinality(C)
    BY DEF TimesIn
  <2>. HIDE DEF A, B, C, D, f
  <2>9. IsFiniteSet(D) /\ Cardinality(D) = Cardinality(B)
    BY <2>2, <2>5, FS_Bijection DEF ExistsBijection
  <2>10. Cardinality(C) = Cardinality(A) + Cardinality(D) - Cardinality({})
    BY <2>2, <2>6, <2>7, <2>9, FS_Union
  <2>11. Cardinality(A) \in Nat /\ Cardinality(D) \in Nat
    BY <2>2, <2>9, FS_CardinalityType
  <2>. QED BY <2>8, <2>9, <2>10, <2>11, FS_EmptySet
<1>. QED BY <1>1, <1>2, <1>3

(* From the links before an update and the changes told of them one gets the *)
(* links after it, as far as their number goes; and if none is told, the     *)
(* links are the same.                                                       *)
LEMMA LinksExplained ==
    ASSUME NEW b \in TaskLinks, NEW a \in TaskLinks
    PROVE  /\ LinkChanges(b, a) = <<>> => b = a
           /\ \A l \in TaskLink :
                Times(a, l) = Times(b, l) - TimesIn(LinkChanges(b, a), l, "old")
                                          + TimesIn(LinkChanges(b, a), l, "new")
<1>. DEFINE pairs == Matched(b, a)
            paired == {p[1] : p \in pairs}
            stay == {p[2] : p \in pairs}
            inPlace == (DOMAIN b \cap DOMAIN a) \ (paired \cup stay)
            OldOf(j) == b[(CHOOSE p \in pairs : p[2] = j)[1]]
            renamed == {j \in stay : OldOf(j).label # a[j].label}
            gone == DOMAIN b \ (paired \cup inPlace)
            come == DOMAIN a \ (stay \cup inPlace)
            g1 == [j \in renamed |-> Changed(OldOf(j), a[j])]
            g2 == [j \in inPlace |-> Changed(b[j], a[j])]
            g3 == [i \in gone |-> Changed(b[i], Absent)]
            g4 == [j \in come |-> Changed(Absent, a[j])]
            telling == InOrder(g1) \o InOrder(g2) \o InOrder(g3) \o InOrder(g4)
            reordered == \E p, q \in pairs : p[2] < q[2] /\ p[1] > q[1]
            whole == LinkChanges(b, a)
            E == [old : TaskLink \cup {Absent}, new : TaskLink \cup {Absent}]
<1>1. whole = IF telling = <<>> /\ reordered THEN <<Changed(Absent, Absent)>> ELSE telling
  BY DEF LinkChanges
<1>2. /\ IsFiniteSet(DOMAIN b) /\ IsFiniteSet(DOMAIN a)
      /\ DOMAIN b \in SUBSET Nat /\ DOMAIN a \in SUBSET Nat
      /\ \A i \in DOMAIN b : b[i] \in TaskLink
      /\ \A j \in DOMAIN a : a[j] \in TaskLink
  BY LinksTyped
<1>3. \A p \in pairs : /\ p[1] \in DOMAIN b /\ p[2] \in DOMAIN a
                       /\ b[p[1]].url = a[p[2]].url
                       /\ \A q \in pairs : p[1] = q[1] <=> p[2] = q[2]
  <2>. HIDE DEF pairs
  <2>1. ASSUME NEW p \in pairs, NEW q \in pairs
        PROVE  /\ p[1] \in DOMAIN b /\ p[2] \in DOMAIN a
               /\ b[p[1]].url = a[p[2]].url /\ (p[1] = q[1] <=> p[2] = q[2])
    BY MatchedOnce DEF pairs
  <2>. QED BY <2>1
<1>4. PICK partner \in [stay -> paired] :
         /\ \A j \in stay : \E p \in pairs : p[2] = j /\ p[1] = partner[j]
         /\ \A j \in stay : OldOf(j) = b[partner[j]]
  <2>. DEFINE f == [j \in stay |-> (CHOOSE p \in pairs : p[2] = j)[1]]
  <2>. HIDE DEF pairs
  <2>1. \A j \in stay : (CHOOSE p \in pairs : p[2] = j) \in pairs /\ (CHOOSE p \in pairs : p[2] = j)[2] = j
    OBVIOUS
  <2>2. f \in [stay -> paired]
    BY <2>1
  <2>3. \A j \in stay : \E p \in pairs : p[2] = j /\ p[1] = f[j]
    BY <2>1
  <2>4. \A j \in stay : OldOf(j) = b[f[j]]
    OBVIOUS
  <2>. HIDE DEF f
  <2>. QED BY <2>2, <2>3, <2>4
<1>. HIDE DEF OldOf
<1>5. /\ paired \in SUBSET DOMAIN b /\ stay \in SUBSET DOMAIN a
      /\ \A j \in stay : OldOf(j) \in TaskLink /\ OldOf(j).url = a[j].url /\ j \in DOMAIN a
      /\ \A j, k \in stay : partner[j] = partner[k] => j = k
      /\ \A i \in paired : \E j \in stay : partner[j] = i
  <2>. HIDE DEF pairs
  <2>1. paired \in SUBSET DOMAIN b /\ stay \in SUBSET DOMAIN a
    BY <1>3
  <2>2. ASSUME NEW j \in stay
        PROVE  OldOf(j) \in TaskLink /\ OldOf(j).url = a[j].url /\ j \in DOMAIN a
    <3>1. PICK p \in pairs : p[2] = j /\ p[1] = partner[j]
      BY <1>4
    <3>. QED BY <1>2, <1>3, <1>4, <3>1
  <2>3. ASSUME NEW j \in stay, NEW k \in stay, partner[j] = partner[k] PROVE j = k
    <3>1. PICK p \in pairs : p[2] = j /\ p[1] = partner[j]
      BY <1>4
    <3>2. PICK q \in pairs : q[2] = k /\ q[1] = partner[k]
      BY <1>4
    <3>. QED BY <1>3, <2>3, <3>1, <3>2
  <2>4. ASSUME NEW i \in paired PROVE \E j \in stay : partner[j] = i
    <3>1. PICK p \in pairs : p[1] = i
      OBVIOUS
    <3>2. p[2] \in stay
      OBVIOUS
    <3>3. PICK q \in pairs : q[2] = p[2] /\ q[1] = partner[p[2]]
      BY <1>4, <3>2
    <3>. QED BY <1>3, <3>1, <3>2, <3>3
  <2>. QED BY <2>1, <2>2, <2>3, <2>4
<1>. HIDE DEF paired, stay
<1>6. /\ IsFiniteSet(renamed) /\ IsFiniteSet(inPlace) /\ IsFiniteSet(gone) /\ IsFiniteSet(come)
      /\ IsFiniteSet(paired) /\ IsFiniteSet(stay)
      /\ renamed \in SUBSET Nat /\ inPlace \in SUBSET Nat /\ gone \in SUBSET Nat /\ come \in SUBSET Nat
  <2>1. renamed \in SUBSET DOMAIN a /\ inPlace \in SUBSET DOMAIN a /\ gone \in SUBSET DOMAIN b
        /\ come \in SUBSET DOMAIN a
    BY <1>5
  <2>. HIDE DEF renamed, inPlace, gone, come
  <2>2. IsFiniteSet(renamed) /\ IsFiniteSet(inPlace) /\ IsFiniteSet(gone) /\ IsFiniteSet(come)
    BY <1>2, <2>1, FS_Subset
  <2>3. IsFiniteSet(paired) /\ IsFiniteSet(stay)
    BY <1>2, <1>5, FS_Subset
  <2>. QED BY <1>2, <2>1, <2>2, <2>3
<1>7. /\ g1 \in [renamed -> E] /\ g2 \in [inPlace -> E] /\ g3 \in [gone -> E] /\ g4 \in [come -> E]
      /\ DOMAIN g1 = renamed /\ DOMAIN g2 = inPlace /\ DOMAIN g3 = gone /\ DOMAIN g4 = come
  BY <1>2, <1>5 DEF Changed
<1>8. /\ telling = <<>> => renamed = {} /\ inPlace = {} /\ gone = {} /\ come = {}
      /\ \A l, side : TimesIn(telling, l, side) = Cardinality({x \in renamed : g1[x][side] = l})
                                             + Cardinality({x \in inPlace : g2[x][side] = l})
                                             + Cardinality({x \in gone : g3[x][side] = l})
                                             + Cardinality({x \in come : g4[x][side] = l})
  <2>. HIDE DEF g1, g2, g3, g4, renamed, inPlace, gone, come, E
  <2>1. /\ InOrder(g1) \in Seq(E) /\ (InOrder(g1) = <<>> => renamed = {})
        /\ \A l, side : /\ TimesIn(InOrder(g1), l, side) = Cardinality({x \in renamed : g1[x][side] = l})
                        /\ TimesIn(InOrder(g1), l, side) \in Nat
    <3>1. IsFiniteSet(DOMAIN g1) /\ DOMAIN g1 \in SUBSET Nat /\ g1 \in [DOMAIN g1 -> E] /\ DOMAIN g1 = renamed
      BY <1>6, <1>7
    <3>2. InOrder(g1) \in Seq(E) /\ (InOrder(g1) = <<>> => DOMAIN g1 = {})
      BY <3>1, ToldInOrder
    <3>3. \A l, side : /\ TimesIn(InOrder(g1), l, side) = Cardinality({x \in DOMAIN g1 : g1[x][side] = l})
                       /\ TimesIn(InOrder(g1), l, side) \in Nat
      BY <3>1, ToldInOrder
    <3>. QED BY <3>1, <3>2, <3>3
  <2>2. /\ InOrder(g2) \in Seq(E) /\ (InOrder(g2) = <<>> => inPlace = {})
        /\ \A l, side : /\ TimesIn(InOrder(g2), l, side) = Cardinality({x \in inPlace : g2[x][side] = l})
                        /\ TimesIn(InOrder(g2), l, side) \in Nat
    <3>1. IsFiniteSet(DOMAIN g2) /\ DOMAIN g2 \in SUBSET Nat /\ g2 \in [DOMAIN g2 -> E] /\ DOMAIN g2 = inPlace
      BY <1>6, <1>7
    <3>2. InOrder(g2) \in Seq(E) /\ (InOrder(g2) = <<>> => DOMAIN g2 = {})
      BY <3>1, ToldInOrder
    <3>3. \A l, side : /\ TimesIn(InOrder(g2), l, side) = Cardinality({x \in DOMAIN g2 : g2[x][side] = l})
                       /\ TimesIn(InOrder(g2), l, side) \in Nat
      BY <3>1, ToldInOrder
    <3>. QED BY <3>1, <3>2, <3>3
  <2>3. /\ InOrder(g3) \in Seq(E) /\ (InOrder(g3) = <<>> => gone = {})
        /\ \A l, side : /\ TimesIn(InOrder(g3), l, side) = Cardinality({x \in gone : g3[x][side] = l})
                        /\ TimesIn(InOrder(g3), l, side) \in Nat
    <3>1. IsFiniteSet(DOMAIN g3) /\ DOMAIN g3 \in SUBSET Nat /\ g3 \in [DOMAIN g3 -> E] /\ DOMAIN g3 = gone
      BY <1>6, <1>7
    <3>2. InOrder(g3) \in Seq(E) /\ (InOrder(g3) = <<>> => DOMAIN g3 = {})
      BY <3>1, ToldInOrder
    <3>3. \A l, side : /\ TimesIn(InOrder(g3), l, side) = Cardinality({x \in DOMAIN g3 : g3[x][side] = l})
                       /\ TimesIn(InOrder(g3), l, side) \in Nat
      BY <3>1, ToldInOrder
    <3>. QED BY <3>1, <3>2, <3>3
  <2>4. /\ InOrder(g4) \in Seq(E) /\ (InOrder(g4) = <<>> => come = {})
        /\ \A l, side : /\ TimesIn(InOrder(g4), l, side) = Cardinality({x \in come : g4[x][side] = l})
                        /\ TimesIn(InOrder(g4), l, side) \in Nat
    <3>1. IsFiniteSet(DOMAIN g4) /\ DOMAIN g4 \in SUBSET Nat /\ g4 \in [DOMAIN g4 -> E] /\ DOMAIN g4 = come
      BY <1>6, <1>7
    <3>2. InOrder(g4) \in Seq(E) /\ (InOrder(g4) = <<>> => DOMAIN g4 = {})
      BY <3>1, ToldInOrder
    <3>3. \A l, side : /\ TimesIn(InOrder(g4), l, side) = Cardinality({x \in DOMAIN g4 : g4[x][side] = l})
                       /\ TimesIn(InOrder(g4), l, side) \in Nat
      BY <3>1, ToldInOrder
    <3>. QED BY <3>1, <3>2, <3>3
  <2>. DEFINE t2 == InOrder(g1) \o InOrder(g2)
              t3 == t2 \o InOrder(g3)
  <2>5. /\ t2 \in Seq(E) /\ (t2 = <<>> => InOrder(g1) = <<>> /\ InOrder(g2) = <<>>)
        /\ \A l, side : TimesIn(t2, l, side) = TimesIn(InOrder(g1), l, side) + TimesIn(InOrder(g2), l, side)
    BY <2>1, <2>2, ToldTogether
  <2>. HIDE DEF t2
  <2>6. /\ t3 \in Seq(E) /\ (t3 = <<>> => t2 = <<>> /\ InOrder(g3) = <<>>)
        /\ \A l, side : TimesIn(t3, l, side) = TimesIn(t2, l, side) + TimesIn(InOrder(g3), l, side)
    BY <2>3, <2>5, ToldTogether
  <2>. HIDE DEF t3
  <2>7. telling = t3 \o InOrder(g4)
    BY DEF t2, t3
  <2>8. /\ telling = <<>> => t3 = <<>> /\ InOrder(g4) = <<>>
        /\ \A l, side : TimesIn(telling, l, side) = TimesIn(t3, l, side) + TimesIn(InOrder(g4), l, side)
    BY <2>4, <2>6, <2>7, ToldTogether
  <2>. HIDE DEF telling
  <2>9. telling = <<>> => renamed = {} /\ inPlace = {} /\ gone = {} /\ come = {}
    BY <2>1, <2>2, <2>3, <2>4, <2>5, <2>6, <2>8
  <2>10. ASSUME NEW l, NEW side
         PROVE  TimesIn(telling, l, side) = Cardinality({x \in renamed : g1[x][side] = l})
                                         + Cardinality({x \in inPlace : g2[x][side] = l})
                                         + Cardinality({x \in gone : g3[x][side] = l})
                                         + Cardinality({x \in come : g4[x][side] = l})
    <3>1. TimesIn(telling, l, side) = TimesIn(InOrder(g1), l, side) + TimesIn(InOrder(g2), l, side)
                                   + TimesIn(InOrder(g3), l, side) + TimesIn(InOrder(g4), l, side)
      BY <2>5, <2>6, <2>8
    <3>2. /\ TimesIn(InOrder(g1), l, side) = Cardinality({x \in renamed : g1[x][side] = l})
          /\ TimesIn(InOrder(g2), l, side) = Cardinality({x \in inPlace : g2[x][side] = l})
          /\ TimesIn(InOrder(g3), l, side) = Cardinality({x \in gone : g3[x][side] = l})
          /\ TimesIn(InOrder(g4), l, side) = Cardinality({x \in come : g4[x][side] = l})
      BY <2>1, <2>2, <2>3, <2>4
    <3>. QED BY <3>1, <3>2
  <2>. QED BY <2>9, <2>10
<1>. HIDE DEF telling
<1>9. ASSUME NEW l \in TaskLink PROVE Times(a, l) = Times(b, l) - TimesIn(telling, l, "old") + TimesIn(telling, l, "new")
  <2>. DEFINE Old(S) == {i \in S : b[i] = l}
              New(S) == {j \in S : a[j] = l}
              oldOfRenamed == {j \in renamed : OldOf(j) = l}
              same == {j \in stay : OldOf(j).label = a[j].label /\ a[j] = l}
              oldOfStay == {j \in stay : OldOf(j) = l}
  <2>1. l # Absent
    BY DetailAssumption DEF TaskLink
  <2>2. /\ {x \in renamed : g1[x]["old"] = l} = oldOfRenamed
        /\ {x \in renamed : g1[x]["new"] = l} = New(renamed)
        /\ {x \in inPlace : g2[x]["old"] = l} = Old(inPlace)
        /\ {x \in inPlace : g2[x]["new"] = l} = New(inPlace)
        /\ {x \in gone : g3[x]["old"] = l} = Old(gone)
        /\ {x \in gone : g3[x]["new"] = l} = {}
        /\ {x \in come : g4[x]["old"] = l} = {}
        /\ {x \in come : g4[x]["new"] = l} = New(come)
    <3>. HIDE DEF renamed, inPlace, gone, come
    <3>. QED BY <2>1 DEF Changed
  <2>3. /\ TimesIn(telling, l, "old") = Cardinality(oldOfRenamed) + Cardinality(Old(inPlace))
                                     + Cardinality(Old(gone)) + Cardinality({})
        /\ TimesIn(telling, l, "new") = Cardinality(New(renamed)) + Cardinality(New(inPlace))
                                     + Cardinality({}) + Cardinality(New(come))
    BY <1>8, <2>2
  <2>4. /\ Times(b, l) = Cardinality(Old(paired) \cup Old(inPlace) \cup Old(gone))
        /\ Times(a, l) = Cardinality(New(stay) \cup New(inPlace) \cup New(come))
    <3>1. DOMAIN b = paired \cup inPlace \cup gone /\ DOMAIN a = stay \cup inPlace \cup come
      BY <1>5
    <3>2. {i \in DOMAIN b : b[i] = l} = Old(paired) \cup Old(inPlace) \cup Old(gone)
      BY <3>1
    <3>3. {j \in DOMAIN a : a[j] = l} = New(stay) \cup New(inPlace) \cup New(come)
      BY <3>1
    <3>. QED BY <3>2, <3>3 DEF Times
  <2>5. \A S \in {paired, stay, renamed, inPlace, gone, come} : IsFiniteSet(Old(S)) /\ IsFiniteSet(New(S))
    <3>. HIDE DEF renamed, inPlace, gone, come
    <3>. SUFFICES ASSUME NEW S \in {paired, stay, renamed, inPlace, gone, come}
                  PROVE  IsFiniteSet(Old(S)) /\ IsFiniteSet(New(S))
      OBVIOUS
    <3>1. IsFiniteSet(S)
      BY <1>6
    <3>2. Old(S) \in SUBSET S /\ New(S) \in SUBSET S
      OBVIOUS
    <3>. QED BY <3>1, <3>2, FS_Subset
  <2>6. IsFiniteSet(oldOfRenamed) /\ IsFiniteSet(same) /\ IsFiniteSet(oldOfStay)
    <3>1. oldOfRenamed \in SUBSET stay /\ same \in SUBSET stay /\ oldOfStay \in SUBSET stay
      OBVIOUS
    <3>. HIDE DEF oldOfRenamed, same, oldOfStay
    <3>. QED BY <1>6, <3>1, FS_Subset
  <2>7. /\ Old(paired) \cap Old(inPlace) = {} /\ Old(paired) \cap Old(gone) = {}
        /\ Old(inPlace) \cap Old(gone) = {}
        /\ New(stay) \cap New(inPlace) = {} /\ New(stay) \cap New(come) = {}
        /\ New(inPlace) \cap New(come) = {}
    OBVIOUS
  <2>8. /\ New(stay) = New(renamed) \cup same /\ New(renamed) \cap same = {}
        /\ oldOfStay = oldOfRenamed \cup same /\ oldOfRenamed \cap same = {}
    <3>1. \A j \in stay : OldOf(j).label = a[j].label => OldOf(j) = a[j]
      <4>. SUFFICES ASSUME NEW j \in stay, OldOf(j).label = a[j].label PROVE OldOf(j) = a[j]
        OBVIOUS
      <4>1. OldOf(j) \in TaskLink /\ a[j] \in TaskLink /\ OldOf(j).url = a[j].url
        BY <1>2, <1>5
      <4>. QED BY <4>1 DEF TaskLink
    <3>. QED BY <3>1
  <2>9. Cardinality(Old(paired)) = Cardinality(oldOfStay)
    <3>. DEFINE f == [j \in oldOfStay |-> partner[j]]
    <3>1. f \in [oldOfStay -> Old(paired)]
      BY <1>4
    <3>2. \A j, k \in oldOfStay : f[j] = f[k] => j = k
      BY <1>5
    <3>3. \A i \in Old(paired) : \E j \in oldOfStay : f[j] = i
      <4>. SUFFICES ASSUME NEW i \in Old(paired) PROVE \E j \in oldOfStay : f[j] = i
        OBVIOUS
      <4>1. PICK j \in stay : partner[j] = i
        BY <1>5
      <4>2. j \in oldOfStay
        BY <1>4, <4>1
      <4>. QED BY <4>1, <4>2
    <3>4. f \in Bijection(oldOfStay, Old(paired))
      BY <3>1, <3>2, <3>3 DEF Bijection, Injection, Surjection, IsInjective
    <3>. HIDE DEF f, oldOfStay, Old
    <3>. QED BY <2>6, <3>4, FS_Bijection DEF ExistsBijection
  <2>. HIDE DEF Old, New, oldOfRenamed, same, oldOfStay
  <2>10. /\ Cardinality(New(stay)) = Cardinality(New(renamed)) + Cardinality(same)
         /\ Cardinality(oldOfStay) = Cardinality(oldOfRenamed) + Cardinality(same)
         /\ Cardinality(New(renamed)) \in Nat /\ Cardinality(same) \in Nat
         /\ Cardinality(oldOfRenamed) \in Nat
    <3>1. IsFiniteSet(New(renamed)) /\ IsFiniteSet(same) /\ IsFiniteSet(oldOfRenamed)
      BY <2>5, <2>6
    <3>2. Cardinality(New(renamed) \cup same) = Cardinality(New(renamed)) + Cardinality(same)
          /\ Cardinality(New(renamed)) \in Nat /\ Cardinality(same) \in Nat
      BY <2>8, <3>1, CountedApart
    <3>3. Cardinality(oldOfRenamed \cup same) = Cardinality(oldOfRenamed) + Cardinality(same)
          /\ Cardinality(oldOfRenamed) \in Nat
      BY <2>8, <3>1, CountedApart
    <3>. QED BY <2>8, <3>2, <3>3
  <2>11. /\ Times(b, l) = Cardinality(Old(paired)) + Cardinality(Old(inPlace)) + Cardinality(Old(gone))
         /\ Cardinality(Old(inPlace)) \in Nat /\ Cardinality(Old(gone)) \in Nat
    <3>1. IsFiniteSet(Old(paired)) /\ IsFiniteSet(Old(inPlace)) /\ IsFiniteSet(Old(gone))
      BY <2>5
    <3>2. /\ Cardinality(Old(paired) \cup Old(inPlace) \cup Old(gone))
             = Cardinality(Old(paired)) + Cardinality(Old(inPlace)) + Cardinality(Old(gone))
          /\ Cardinality(Old(inPlace)) \in Nat /\ Cardinality(Old(gone)) \in Nat
      <4>1. Old(paired) \cap Old(inPlace) = {} /\ Old(paired) \cap Old(gone) = {} /\ Old(inPlace) \cap Old(gone) = {}
        BY <2>7
      <4>2. /\ Cardinality(Old(paired) \cup Old(inPlace)) = Cardinality(Old(paired)) + Cardinality(Old(inPlace))
            /\ Cardinality(Old(paired)) \in Nat /\ Cardinality(Old(inPlace)) \in Nat
            /\ IsFiniteSet(Old(paired) \cup Old(inPlace))
        BY <3>1, <4>1, CountedApart
      <4>3. (Old(paired) \cup Old(inPlace)) \cap Old(gone) = {}
        BY <4>1
      <4>4. /\ Cardinality((Old(paired) \cup Old(inPlace)) \cup Old(gone)) = Cardinality(Old(paired) \cup Old(inPlace)) + Cardinality(Old(gone))
            /\ Cardinality(Old(gone)) \in Nat
        BY <3>1, <4>2, <4>3, CountedApart
      <4>. QED BY <4>2, <4>4
    <3>. QED BY <2>4, <3>2
  <2>12. /\ Times(a, l) = Cardinality(New(stay)) + Cardinality(New(inPlace)) + Cardinality(New(come))
         /\ Cardinality(New(inPlace)) \in Nat /\ Cardinality(New(come)) \in Nat
    <3>1. IsFiniteSet(New(stay)) /\ IsFiniteSet(New(inPlace)) /\ IsFiniteSet(New(come))
      BY <2>5
    <3>2. /\ Cardinality(New(stay) \cup New(inPlace) \cup New(come))
             = Cardinality(New(stay)) + Cardinality(New(inPlace)) + Cardinality(New(come))
          /\ Cardinality(New(inPlace)) \in Nat /\ Cardinality(New(come)) \in Nat
      <4>1. New(stay) \cap New(inPlace) = {} /\ New(stay) \cap New(come) = {} /\ New(inPlace) \cap New(come) = {}
        BY <2>7
      <4>2. /\ Cardinality(New(stay) \cup New(inPlace)) = Cardinality(New(stay)) + Cardinality(New(inPlace))
            /\ Cardinality(New(stay)) \in Nat /\ Cardinality(New(inPlace)) \in Nat
            /\ IsFiniteSet(New(stay) \cup New(inPlace))
        BY <3>1, <4>1, CountedApart
      <4>3. (New(stay) \cup New(inPlace)) \cap New(come) = {}
        BY <4>1
      <4>4. /\ Cardinality((New(stay) \cup New(inPlace)) \cup New(come)) = Cardinality(New(stay) \cup New(inPlace)) + Cardinality(New(come))
            /\ Cardinality(New(come)) \in Nat
        BY <3>1, <4>2, <4>3, CountedApart
      <4>. QED BY <4>2, <4>4
    <3>. QED BY <2>4, <3>2
  <2>. QED BY <2>3, <2>9, <2>10, <2>11, <2>12, FS_EmptySet
<1>10. ASSUME NEW l \in TaskLink
       PROVE  Times(a, l) = Times(b, l) - TimesIn(whole, l, "old") + TimesIn(whole, l, "new")
  <2>1. CASE telling = <<>> /\ reordered
    <3>1. l # Absent
      BY DetailAssumption DEF TaskLink
    <3>2. \A side \in {"old", "new"} : TimesIn(whole, l, side) = 0 /\ TimesIn(<<>>, l, side) = 0
      <4>1. \A side \in {"old", "new"} :
               {i \in DOMAIN whole : whole[i][side] = l} = {}
        BY <1>1, <2>1, <3>1 DEF Changed
      <4>2. \A side : {i \in DOMAIN <<>> : <<>>[i][side] = l} = {}
        OBVIOUS
      <4>. HIDE DEF whole
      <4>. QED BY <4>1, <4>2, FS_EmptySet DEF TimesIn
    <3>. QED BY <1>9, <2>1, <3>2
  <2>2. CASE ~(telling = <<>> /\ reordered)
    BY <1>1, <1>9, <2>2
  <2>. QED BY <2>1, <2>2
<1>11. ASSUME whole = <<>> PROVE b = a
  <2>1. telling = <<>> /\ ~reordered
    <3>1. <<Changed(Absent, Absent)>> # <<>>
      OBVIOUS
    <3>. QED BY <1>1, <1>11, <3>1
  <2>2. renamed = {} /\ inPlace = {} /\ gone = {} /\ come = {}
    BY <1>8, <2>1
  <2>3. paired = DOMAIN b /\ stay = DOMAIN a
    BY <1>5, <2>2
  <2>4. \A j \in DOMAIN a : OldOf(j) = a[j]
    <3>. SUFFICES ASSUME NEW j \in DOMAIN a PROVE OldOf(j) = a[j]
      OBVIOUS
    <3>1. j \in stay /\ OldOf(j).label = a[j].label
      BY <2>2, <2>3
    <3>2. OldOf(j) \in TaskLink /\ a[j] \in TaskLink /\ OldOf(j).url = a[j].url
      BY <1>2, <1>5, <3>1
    <3>. QED BY <3>1, <3>2 DEF TaskLink
  <2>5. \A j, k \in DOMAIN a : j < k => partner[j] < partner[k]
    <3>. SUFFICES ASSUME NEW j \in DOMAIN a, NEW k \in DOMAIN a, j < k PROVE partner[j] < partner[k]
      OBVIOUS
    <3>1. PICK p \in pairs : p[2] = j /\ p[1] = partner[j]
      BY <1>4, <2>3
    <3>2. PICK q \in pairs : q[2] = k /\ q[1] = partner[k]
      BY <1>4, <2>3
    <3>3. ~(p[1] > q[1])
      BY <2>1, <3>1, <3>2
    <3>4. partner[j] # partner[k] /\ partner[j] \in Nat /\ partner[k] \in Nat /\ j \in Nat /\ k \in Nat
      BY <1>2, <1>4, <1>5, <2>3
    <3>. QED BY <3>1, <3>2, <3>3, <3>4
  <2>. DEFINE n == Len(b)
              m == Len(a)
  <2>6. n \in Nat /\ m \in Nat /\ DOMAIN b = 1..n /\ DOMAIN a = 1..m
    BY LinksTyped, DetailAssumption
  <2>. HIDE DEF n, m
  <2>7. partner \in [1..m -> 1..n] /\ \A i \in 1..n : \E j \in 1..m : partner[j] = i
    BY <1>4, <1>5, <2>3, <2>6
  <2>8. n = m
    <3>1. partner \in Bijection(1..m, 1..n)
      BY <1>5, <2>3, <2>6, <2>7 DEF Bijection, Injection, Surjection, IsInjective
    <3>2. IsFiniteSet(1..m) /\ Cardinality(1..m) = m /\ Cardinality(1..n) = n
      BY <2>6, FS_Interval
    <3>. QED BY <3>1, <3>2, FS_Bijection DEF ExistsBijection
  <2>9. \A j \in 1..m : partner[j] = j
    <3>. SUFFICES ASSUME NEW j \in 1..m PROVE partner[j] = j
      OBVIOUS
    <3>. DEFINE f == [k \in 1..j |-> partner[k]]
                i == partner[j]
    <3>1. j \in Nat /\ i \in Nat /\ i \in 1..n
      BY <2>6, <2>7
    <3>. HIDE DEF i
    <3>2. \A k \in 1..j : k \in 1..m /\ k \in DOMAIN a /\ k \in Nat
      BY <2>6, <3>1
    <3>3. ASSUME NEW k \in 1..j PROVE partner[k] \in 1..i
      <4>1. partner[k] \in 1..n /\ partner[k] \in Nat
        BY <2>6, <2>7, <3>2
      <4>2. CASE k = j
        BY <3>1, <4>2 DEF i
      <4>3. CASE k < j
        <5>1. partner[k] < i
          BY <2>5, <2>6, <3>2, <4>3 DEF i
        <5>. QED BY <3>1, <4>1, <5>1
      <4>. QED BY <3>1, <3>2, <4>2, <4>3
    <3>4. ASSUME NEW k \in 1..j, NEW h \in 1..j, f[k] = f[h] PROVE k = h
      <4>1. k \in stay /\ h \in stay /\ partner[k] = partner[h]
        BY <2>3, <3>2, <3>4
      <4>. QED BY <1>5, <4>1
    <3>8. ASSUME NEW x \in 1..i PROVE \E k \in 1..j : f[k] = x
      <4>1. x \in 1..n /\ x \in Nat /\ x <= i
        BY <2>6, <3>1
      <4>2. PICK k \in 1..m : partner[k] = x
        BY <2>7, <4>1
      <4>3. k \in Nat /\ k \in DOMAIN a /\ 1 <= k
        BY <2>6, <4>2
      <4>4. ~(j < k)
        <5>. SUFFICES ASSUME j < k PROVE FALSE
          OBVIOUS
        <5>1. i < partner[k]
          BY <2>5, <2>6, <4>3 DEF i
        <5>. QED BY <3>1, <4>1, <4>2, <5>1
      <4>5. k \in 1..j
        BY <3>1, <4>3, <4>4
      <4>. QED BY <4>2, <4>5
    <3>5. f \in Bijection(1..j, 1..i)
      <4>1. f \in [1..j -> 1..i]
        BY <3>3
      <4>. QED BY <4>1, <3>4, <3>8 DEF Bijection, Injection, Surjection, IsInjective
    <3>6. IsFiniteSet(1..j) /\ Cardinality(1..j) = j /\ Cardinality(1..i) = i
      BY <3>1, FS_Interval
    <3>. HIDE DEF f, i
    <3>7. j = i
      BY <3>5, <3>6, FS_Bijection DEF ExistsBijection
    <3>. QED BY <3>7 DEF i
  <2>10. \A j \in 1..m : b[j] = a[j]
    BY <1>4, <2>3, <2>4, <2>6, <2>9
  <2>11. b \in [1..n -> TaskLink] /\ a \in [1..m -> TaskLink]
    <3>1. b \in Seq(TaskLink) /\ a \in Seq(TaskLink)
      BY LinksTyped
    <3>. QED BY <3>1 DEF n, m
  <2>12. b = [j \in 1..m |-> b[j]] /\ a = [j \in 1..m |-> a[j]]
    BY <2>8, <2>11
  <2>13. [j \in 1..m |-> b[j]] = [j \in 1..m |-> a[j]]
    BY <2>10
  <2>. QED BY <2>12, <2>13
<1>. QED BY <1>10, <1>11

(* The links of rows, copies and requests are links, no more than fit.       *)
LinksFit(row) == DOMAIN row = SheetFields /\ row["links"] \in TaskLinks
LinksSent(x) == "links" \in DOMAIN x.dto => x.dto["links"] \in TaskLinks

LinksInv ==
    /\ editingField \in Scalars \cup {Absent}
    /\ \A s \in Sheets : /\ LinksFit(sheet[s].row) /\ LinksFit(copies[s].row)
                         /\ listFetch.state = "read" => LinksFit(listFetch.got[s].row)
    /\ \A x \in saves : LinksSent(x)

(* An update writes one row, with its entry, or nothing. *)
LEMMA UpdateTells ==
    ASSUME SheetKnown, LinksInv, NEW s \in Sheets, NEW dto, "links" \in DOMAIN dto => dto["links"] \in TaskLinks,
           NEW ours \in BOOLEAN, Update(s, dto, ours)
    PROVE  /\ \A t \in Sheets : LinksFit(sheet'[t].row)
           /\ \A t \in Sheets : sheet'[t].row # sheet[t].row =>
                /\ t = s
                /\ sheet'[t].count = sheet[t].count + 1
                /\ sheet'[t].entry = TaskChanges(sheet[t].row, sheet'[t].row)
<1>. DEFINE was == sheet[s].row
            after == Written(was, dto)
            whole == TaskChanges(was, after)
<1>1. LinksFit(after)
  BY DEF Written, LinksInv, LinksFit, SheetFields
<1>2. CASE whole = NoChange
  <2>1. sheet' = sheet
    BY <1>2 DEF Update
  <2>. QED BY <2>1 DEF LinksInv
<1>3. CASE whole # NoChange
  <2>1. \A t \in Sheets :
          /\ t # s => sheet'[t] = sheet[t]
          /\ t = s => sheet'[t].row = after /\ sheet'[t].entry = whole
                      /\ sheet'[t].count = sheet[t].count + 1
    <3>. HIDE DEF after, whole
    <3>1. /\ sheet' = [sheet EXCEPT ![s] =
                           [row |-> after, stamp |-> Stamp(@, whole),
                            entry |-> whole, count |-> @.count + 1,
                            mine |-> IF ours THEN @.count + 1 ELSE @.mine,
                            tagged |-> IF whole.tags # {} THEN now ELSE @.tagged]]
      BY <1>3 DEF Update, after, whole
    <3>2. DOMAIN sheet = Sheets
      BY DEF SheetKnown
    <3>. QED BY <3>1, <3>2
  <2>. HIDE DEF after
  <2>. QED BY <1>1, <2>1 DEF LinksInv
<1>. QED BY <1>2, <1>3

(* Lists of links that are short enough are links of a task. *)
LEMMA ShortEnough ==
    ASSUME NEW z \in Seq(TaskLink), Len(z) <= MaxLinks
    PROVE  z \in TaskLinks
<1>1. Len(z) \in 0..MaxLinks /\ z \in [1..Len(z) -> TaskLink]
  BY DetailAssumption
<1>. QED BY <1>1 DEF TaskLinks

(* What others send of links fits, too. *)
LEMMA LinksOfOthers ==
    ASSUME NEW dto \in Dtos
    PROVE  "links" \in DOMAIN dto => dto["links"] \in TaskLinks
<1>1. CASE \E l \in TaskLinks : dto = [p \in {"links"} |-> l]
  BY <1>1
<1>2. CASE \E g \in SUBSET TagCodes : dto = [p \in {"tags"} |-> g]
  BY <1>2
<1>3. CASE \E c \in Scalars, v \in Texts : dto = [p \in {c} |-> v]
  <2>1. "links" \notin Scalars
    BY DetailAssumption
  <2>. QED BY <1>3, <2>1
<1>. QED BY <1>1, <1>2, <1>3 DEF Dtos

(* What a gesture of the panel sends is links, if it sends any. *)
LEMMA LinksAdded ==
    ASSUME NEW links \in TaskLinks, NEW i \in 0..MaxLinks, i \in {0} \cup DOMAIN links, NEW link \in TaskLink,
           NEW place, place = (IF i = 0 THEN Len(links) + 1 ELSE i), place <= MaxLinks
    PROVE  (IF place \in DOMAIN links THEN ReplaceAt(links, place, link) ELSE Append(links, link)) \in TaskLinks
<1>1. PICK n \in 0..MaxLinks : links \in [1..n -> TaskLink]
  BY DEF TaskLinks
<1>2. n \in Nat /\ MaxLinks \in Nat
  BY <1>1, DetailAssumption
<1>3. Len(links) = n /\ DOMAIN links = 1..n /\ links \in Seq(TaskLink)
  BY <1>1, <1>2
<1>4. CASE i = 0
  <2>1. place = n + 1 /\ place \notin DOMAIN links /\ n + 1 \in 0..MaxLinks
    BY <1>2, <1>3, <1>4
  <2>2. Append(links, link) \in Seq(TaskLink) /\ Len(Append(links, link)) = n + 1
    BY <1>2, <1>3
  <2>3. Append(links, link) \in TaskLinks
    BY <1>2, <2>1, <2>2, ShortEnough
  <2>. QED BY <2>1, <2>3
<1>5. CASE i # 0
  <2>1. place \in DOMAIN links
    BY <1>5
  <2>2. ReplaceAt(links, place, link) \in [1..n -> TaskLink]
    BY <1>1 DEF ReplaceAt
  <2>. QED BY <2>1, <2>2 DEF TaskLinks
<1>. QED BY <1>4, <1>5

LEMMA LinksRemoved ==
    ASSUME NEW links \in TaskLinks, NEW i \in DOMAIN links
    PROVE  RemoveAt(links, i) \in TaskLinks
<1>1. PICK n \in 0..MaxLinks : links \in [1..n -> TaskLink]
  BY DEF TaskLinks
<1>2. n \in Nat /\ MaxLinks \in Nat
  BY <1>1, DetailAssumption
<1>3. Len(links) = n /\ DOMAIN links = 1..n /\ links \in Seq(TaskLink) /\ i \in 1..n
  BY <1>1, <1>2
<1>4. SubSeq(links, 1, i - 1) \in Seq(TaskLink) /\ Len(SubSeq(links, 1, i - 1)) = i - 1
  BY <1>2, <1>3
<1>5. SubSeq(links, i + 1, n) \in Seq(TaskLink) /\ Len(SubSeq(links, i + 1, n)) = n - i
  BY <1>2, <1>3
<1>6. RemoveAt(links, i) = SubSeq(links, 1, i - 1) \o SubSeq(links, i + 1, n)
  BY <1>3 DEF RemoveAt
<1>. DEFINE x == SubSeq(links, 1, i - 1)
            y == SubSeq(links, i + 1, n)
<1>. HIDE DEF x, y
<1>7. x \o y \in Seq(TaskLink) /\ Len(x \o y) = n - 1 /\ n - 1 \in 0..MaxLinks
  BY <1>2, <1>3, <1>4, <1>5 DEF x, y
<1>. DEFINE z == x \o y
<1>8. z \in Seq(TaskLink) /\ Len(z) <= MaxLinks
  BY <1>2, <1>7
<1>. HIDE DEF z
<1>9. z \in TaskLinks
  BY <1>8, ShortEnough
<1>. QED BY <1>6, <1>9 DEF x, y, z

LEMMA LinksStep == SheetKnown /\ (\A x \in saves : SentSave(x)) /\ shownTask \in Sheets \cup {Absent}
                   /\ LinksInv /\ [DetailNext]_detailVars => LinksInv'
<1>. SUFFICES ASSUME SheetKnown, \A x \in saves : SentSave(x), shownTask \in Sheets \cup {Absent},
                     LinksInv, [DetailNext]_detailVars
              PROVE  LinksInv'
  OBVIOUS
<1>1. ASSUME UNCHANGED <<sheet, copies, listFetch>>, editingField' \in Scalars \cup {Absent},
             \A x \in saves' : x \in saves \/ LinksSent(x)
      PROVE  LinksInv'
  BY <1>1 DEF LinksInv
<1>2. shownTask # Absent => Known["links"] \in TaskLinks
  BY DEF LinksInv, LinksFit, Known
<1>3. CASE UNCHANGED detailVars
  BY <1>1, <1>3 DEF detailVars, panelState, LinksInv
<1>4. ASSUME NEW s \in Sheets \cup {Absent}, Show(s) PROVE LinksInv'
  BY <1>1, <1>4 DEF Show, EditsDropped
<1>5. ASSUME NEW c \in Scalars, StartEdit(c) PROVE LinksInv'
  BY <1>1, <1>5 DEF StartEdit
<1>6. ASSUME NEW i \in 0..MaxLinks, StartEditLink(i) PROVE LinksInv'
  BY <1>1, <1>6 DEF StartEditLink, LinksInv
<1>7. ASSUME NEW i \in 0..MaxLinks, DeleteLink(i) PROVE LinksInv'
  <2>. DEFINE links == RemoveAt(Known["links"], i)
              x == [n |-> sent, task |-> shownTask, dto |-> [p \in {"links"} |-> links], served |-> FALSE]
  <2>1. links \in TaskLinks
    BY <1>2, <1>7, LinksRemoved DEF DeleteLink
  <2>2. saves' = saves \cup {x}
    BY <1>7 DEF DeleteLink, ChangeField
  <2>. HIDE DEF links
  <2>3. LinksSent(x)
    BY <2>1 DEF LinksSent
  <2>. HIDE DEF x
  <2>. QED BY <1>1, <1>7, <2>2, <2>3 DEF DeleteLink, panelState, LinksInv
<1>8. ASSUME NEW v \in Texts, CommitEdit(v) PROVE LinksInv'
  <2>. DEFINE x == [n |-> sent, task |-> shownTask, dto |-> [p \in {editingField} |-> v], served |-> FALSE]
  <2>1. editingField \in Scalars /\ "links" \notin Scalars
    BY <1>8, DetailAssumption DEF CommitEdit, LinksInv
  <2>2. LinksSent(x)
    BY <2>1 DEF LinksSent
  <2>3. saves' = saves \/ saves' = saves \cup {x}
    BY <1>8 DEF CommitEdit, ChangeField
  <2>. HIDE DEF x
  <2>. QED BY <1>1, <1>8, <2>2, <2>3 DEF CommitEdit
<1>9. ASSUME NEW l \in TaskLink, SaveLink(l) PROVE LinksInv'
  <2>. DEFINE links == Known["links"]
              i == IF editingLinkIndex = 0 THEN Len(links) + 1 ELSE editingLinkIndex
              written == IF i \in DOMAIN links THEN ReplaceAt(links, i, l) ELSE Append(links, l)
              x == [n |-> sent, task |-> shownTask, dto |-> [p \in {"links"} |-> written], served |-> FALSE]
  <2>1. links \in TaskLinks /\ editingLinkIndex \in {0} \cup DOMAIN links /\ i <= MaxLinks
    BY <1>2, <1>9 DEF SaveLink
  <2>2. saves' = saves \cup {x}
    BY <1>9 DEF SaveLink, ChangeField
  <2>3. editingLinkIndex \in 0..MaxLinks
    <3>. HIDE DEF links
    <3>1. DOMAIN links = 1..Len(links) /\ Len(links) \in 0..MaxLinks /\ MaxLinks \in Nat
      BY <2>1, LinksTyped, DetailAssumption
    <3>. QED BY <2>1, <3>1
  <2>4. written \in TaskLinks
    <3>. HIDE DEF links
    <3>. QED BY <2>1, <2>3, LinksAdded
  <2>. HIDE DEF written
  <2>5. LinksSent(x)
    BY <2>4 DEF LinksSent
  <2>. HIDE DEF x, i, links
  <2>. QED BY <1>1, <1>9, <2>2, <2>5 DEF SaveLink, LinksInv
<1>10. ASSUME NEW g \in TagCodes, PickTag(g) PROVE LinksInv'
  BY <1>1, <1>10 DEF PickTag, ChangeField, LinksSent, panelState, LinksInv
<1>11. ASSUME NEW g \in TagCodes, RemoveTag(g) PROVE LinksInv'
  <2>1. \A s \in Sheets : sheet'[s].row = [sheet[s].row EXCEPT !["tags"] = @ \ {g}]
    BY <1>11 DEF RemoveTag, SheetKnown
  <2>2. \A s \in Sheets : LinksFit(sheet'[s].row)
    BY <2>1 DEF LinksInv, LinksFit, SheetFields
  <2>. QED BY <1>11, <2>2 DEF RemoveTag, panelState, LinksInv
<1>12. CASE CancelEdit
  BY <1>1, <1>12 DEF CancelEdit, EditsDropped
<1>13. CASE Tick
  BY <1>1, <1>13 DEF Tick, panelState, LinksInv
<1>14. ASSUME NEW x \in saves, ServeSave(x) PROVE LinksInv'
  <2>1. x.task \in Sheets /\ LinksSent(x) /\ DOMAIN x = {"n", "task", "dto", "served"}
    BY DEF SentSave, LinksInv
  <2>2. \A t \in Sheets : LinksFit(sheet'[t].row)
    BY <1>14, <2>1, UpdateTells DEF ServeSave, LinksSent
  <2>. DEFINE y == [x EXCEPT !.served = TRUE]
  <2>3. LinksSent(y)
    BY <2>1 DEF LinksSent
  <2>4. saves' = (saves \ {x}) \cup {y}
    BY <1>14 DEF ServeSave
  <2>. HIDE DEF y
  <2>. QED BY <1>14, <2>2, <2>3, <2>4 DEF ServeSave, panelState, LinksInv
<1>15. ASSUME NEW x \in saves, SaveAnswered(x) PROVE LinksInv'
  BY <1>15 DEF SaveAnswered, panelState, LinksInv, Asking
<1>16. CASE ListRead
  BY <1>16 DEF ListRead, panelState, LinksInv, LinksFit
<1>17. CASE ListAnswered
  BY <1>17 DEF ListAnswered, LinksInv, NotAsked
<1>18. CASE HistoryRead
  BY <1>1, <1>18 DEF HistoryRead, LinksInv
<1>19. CASE HistoryAnswered
  BY <1>1, <1>19 DEF HistoryAnswered, LinksInv
<1>20. ASSUME NEW s \in Sheets, Hear(s) PROVE LinksInv'
  BY <1>20 DEF Hear, LinksInv, Asking
<1>21. ASSUME NEW s \in Sheets, NEW dto \in Dtos, OtherUpdate(s, dto) PROVE LinksInv'
  <2>1. "links" \in DOMAIN dto => dto["links"] \in TaskLinks
    BY LinksOfOthers
  <2>2. \A t \in Sheets : LinksFit(sheet'[t].row)
    BY <1>21, <2>1, UpdateTells DEF OtherUpdate
  <2>. QED BY <1>21, <2>2 DEF OtherUpdate, panelState, LinksInv
<1>. QED
  BY <1>3, <1>4, <1>5, <1>6, <1>7, <1>8, <1>9, <1>10, <1>11, <1>12, <1>13, <1>14, <1>15, <1>16,
     <1>17, <1>18, <1>19, <1>20, <1>21 DEF DetailNext

(* The entry that buildTaskChanges makes of two rows explains the second.    *)
LEMMA ChangesExplain ==
    ASSUME NEW was, NEW after, LinksFit(was), LinksFit(after)
    PROVE  Explained(was, TaskChanges(was, after), after)
<1>. DEFINE entry == TaskChanges(was, after)
<1>1. /\ entry.scalars = {[field |-> c,
                           by |-> IF c = "description" THEN Changed(Absent, Absent)
                                  ELSE Changed(was[c], after[c])] :
                            c \in {c \in Scalars : was[c] # after[c]}}
      /\ entry.links = LinkChanges(was["links"], after["links"])
      /\ entry.tags = IF was["tags"] = after["tags"] THEN {}
                      ELSE {Changed(was["tags"], after["tags"])}
  BY DEF TaskChanges
<1>. HIDE DEF entry
<1>2. ASSUME NEW c \in Scalars
      PROVE  IF \E e \in entry.scalars : e.field = c
             THEN \E e \in entry.scalars :
                    e.field = c /\ e.by \in {Changed(was[c], after[c]), Changed(Absent, Absent)}
             ELSE was[c] = after[c]
  <2>. DEFINE e == [field |-> c, by |-> IF c = "description" THEN Changed(Absent, Absent)
                                        ELSE Changed(was[c], after[c])]
  <2>1. CASE was[c] # after[c]
    <3>1. e \in entry.scalars /\ e.field = c /\ e.by \in {Changed(was[c], after[c]), Changed(Absent, Absent)}
      BY <1>1, <2>1
    <3>. QED BY <3>1
  <2>2. CASE was[c] = after[c]
    <3>1. \A d \in entry.scalars : d.field # c
      BY <1>1, <2>2
    <3>. QED BY <2>2, <3>1
  <2>. QED BY <2>1, <2>2
<1>3. was["links"] \in TaskLinks /\ after["links"] \in TaskLinks
  BY DEF LinksFit
<1>4. /\ entry.links = <<>> => was["links"] = after["links"]
      /\ \A l \in TaskLink :
           Times(after["links"], l) = Times(was["links"], l) - TimesIn(entry.links, l, "old")
                                                                + TimesIn(entry.links, l, "new")
  BY <1>1, <1>3, LinksExplained
<1>5. /\ entry.tags = {} => was["tags"] = after["tags"]
      /\ \A e \in entry.tags : e = Changed(was["tags"], after["tags"])
  BY <1>1
<1>. QED BY <1>2, <1>4, <1>5 DEF Explained, entry

LEMMA DetailStarts == DetailInit => HistoryInv /\ LinksInv
<1>. SUFFICES ASSUME DetailInit PROVE HistoryInv /\ LinksInv
  OBVIOUS
<1>1. HistoryInv
  BY DEF DetailInit, DetailFrom, HistoryInv, SheetKnown, StampKnown, NotAsked
<1>2. OneLink \in TaskLinks
  <2>. DEFINE l == [url |-> CHOOSE u \in Urls : TRUE, label |-> CHOOSE n \in LinkNames : TRUE]
  <2>1. l \in TaskLink
    BY DetailAssumption DEF TaskLink
  <2>. HIDE DEF l
  <2>2. <<l>> \in [1..1 -> TaskLink] /\ Len(<<l>>) = 1 /\ 1 \in 0..MaxLinks
    BY <2>1, DetailAssumption
  <2>3. <<l>> \in TaskLinks
    BY <2>2 DEF TaskLinks
  <2>. QED BY <2>2, <2>3 DEF OneLink
<1>3. \A s \in Sheets : /\ DOMAIN sheet[s].row = SheetFields /\ sheet[s].row["links"] = OneLink
                        /\ copies[s].row = sheet[s].row
  BY DEF DetailInit, DetailFrom, SheetFields
<1>4. LinksInv
  BY <1>2, <1>3 DEF DetailInit, DetailFrom, LinksInv, LinksFit, NotAsked
<1>. QED BY <1>1, <1>4

LEMMA DetailInvAlways == DetailSpec => [](HistoryInv /\ LinksInv)
<1>1. DetailInit => HistoryInv /\ LinksInv
  BY DetailStarts
<1>2. HistoryInv /\ LinksInv /\ [DetailNext]_detailVars => (HistoryInv /\ LinksInv)'
  BY HistoryStep, LinksStep DEF HistoryInv
<1>. QED BY <1>1, <1>2, PTL DEF DetailSpec

(* TasksService.update, task-audit.ts: whatever is edited in whatever order, *)
(* every update that changes a row adds one entry, and from the row before   *)
(* and the entry one gets the row after: nothing changes that it does not    *)
(* name, and of the links as many came and went as it says.                  *)
THEOREM EntryExplainsEditAlways == DetailSpec => EntryExplainsEdit
<1>. DEFINE Inv == HistoryInv /\ LinksInv
            Explains == \A s \in Sheets :
                           sheet'[s].row # sheet[s].row /\ tagMaster' = tagMaster
                           => /\ sheet'[s].count = sheet[s].count + 1
                              /\ Explained(sheet[s].row, sheet'[s].entry, sheet'[s].row)
<1>1. Inv /\ [DetailNext]_detailVars => [Explains]_detailVars
  <2>. SUFFICES ASSUME Inv, DetailNext PROVE Explains
    OBVIOUS
  <2>. USE DEF Inv
  <2>1. ASSUME NEW s \in Sheets, NEW dto, "links" \in DOMAIN dto => dto["links"] \in TaskLinks,
               NEW ours \in BOOLEAN, Update(s, dto, ours)
        PROVE  Explains
    <3>. SUFFICES ASSUME NEW t \in Sheets, sheet'[t].row # sheet[t].row
                  PROVE  /\ sheet'[t].count = sheet[t].count + 1
                         /\ Explained(sheet[t].row, sheet'[t].entry, sheet'[t].row)
      OBVIOUS
    <3>1. /\ LinksFit(sheet'[t].row) /\ LinksFit(sheet[t].row)
          /\ sheet'[t].count = sheet[t].count + 1
          /\ sheet'[t].entry = TaskChanges(sheet[t].row, sheet'[t].row)
      BY <2>1, UpdateTells DEF HistoryInv, LinksInv
    <3>2. Explained(sheet[t].row, TaskChanges(sheet[t].row, sheet'[t].row), sheet'[t].row)
      BY <3>1, ChangesExplain
    <3>. QED BY <3>1, <3>2
  <2>2. ASSUME NEW x \in saves, ServeSave(x) PROVE Explains
    <3>1. x.task \in Sheets /\ ("links" \in DOMAIN x.dto => x.dto["links"] \in TaskLinks)
      BY DEF HistoryInv, SentSave, LinksInv, LinksSent
    <3>2. Update(x.task, x.dto, TRUE)
      BY <2>2 DEF ServeSave
    <3>. QED BY <2>1, <3>1, <3>2
  <2>3. ASSUME NEW s \in Sheets, NEW dto \in Dtos, OtherUpdate(s, dto) PROVE Explains
    <3>1. "links" \in DOMAIN dto => dto["links"] \in TaskLinks
      BY LinksOfOthers
    <3>2. Update(s, dto, FALSE)
      BY <2>3 DEF OtherUpdate
    <3>. QED BY <2>1, <3>1, <3>2
  <2>4. ASSUME NEW g \in TagCodes, RemoveTag(g) PROVE Explains
    <3>1. tagMaster' # tagMaster
      BY <2>4 DEF RemoveTag
    <3>. QED BY <3>1
  <2>5. ASSUME sheet' = sheet PROVE Explains
    BY <2>5
  <2>. HIDE DEF Explains
  <2>. QED
    BY <2>2, <2>3, <2>4, <2>5 DEF DetailNext, Show, StartEdit, StartEditLink, DeleteLink, CommitEdit,
       SaveLink, PickTag, CancelEdit, Tick, SaveAnswered, ListRead, ListAnswered, HistoryRead,
       HistoryAnswered, Hear
<1>. QED BY <1>1, DetailInvAlways, PTL DEF DetailSpec, EntryExplainsEdit

---------------------------------------------------------------------------
(* TaskDetail: types and bounds *)

Unserved == {x \in saves : ~x.served}

DetailCounts ==
    /\ turns \in 0..MaxTurns /\ starts \in 0..MaxStarts /\ sent \in 0..MaxSaves /\ others \in 0..MaxOthers
    /\ now \in 1..MaxSecs

(* What is not a number: rows keep to the master, what is sent to the texts. *)
TextsIn(f) == \A c \in Scalars : c \in DOMAIN f => f[c] \in Texts

DetailKnown ==
    /\ tagMaster \subseteq TagCodes /\ twice \subseteq Sheets /\ heard \subseteq Sheets
    /\ \A s \in Sheets : sheet[s].row["tags"] \subseteq tagMaster /\ TextsIn(sheet[s].row)
    /\ \A x \in saves : TextsIn(x.dto)

(* Each entry of a task is of a save that was served or of somebody else.    *)
EntriesBounded ==
    /\ IsFiniteSet(saves)
    /\ \A s \in Sheets :
         /\ sheet[s].count \in Nat /\ sheet[s].count + Cardinality(Unserved) <= sent + others
         /\ sheet[s].stamp \in [sec : 0..MaxSecs, sub : Nat]

PanelTyped ==
    /\ {listFetch.state, historyFetch.state} \subseteq {"idle", "sent", "read"}
    /\ editingLinkIndex \in (0..MaxLinks) \cup {Absent}
    /\ shownTask = Absent => history = 0 /\ historyFetch.state = "idle"

LEMMA DetailBounds ==
    /\ MaxSaves \in Nat /\ MaxOthers \in Nat /\ MaxTurns \in Nat /\ MaxStarts \in Nat
    /\ MaxSecs \in Nat \ {0} /\ MaxLinks \in Nat
BY DetailAssumption

LEMMA DetailCountsStep == DetailCounts /\ [DetailNext]_detailVars => DetailCounts'
<1>. SUFFICES ASSUME DetailCounts, [DetailNext]_detailVars PROVE DetailCounts'
  OBVIOUS
<1>1. /\ turns' \in {turns, turns + 1} /\ (turns' = turns \/ turns < MaxTurns)
      /\ starts' \in {starts, starts + 1} /\ (starts' = starts \/ starts < MaxStarts)
      /\ sent' \in {sent, sent + 1} /\ (sent' = sent \/ sent < MaxSaves)
      /\ others' \in {others, others + 1} /\ (others' = others \/ others < MaxOthers)
      /\ now' \in {now, now + 1} /\ (now' = now \/ now < MaxSecs)
  BY DEF DetailNext, detailVars, panelState, Show, StartEdit, StartEditLink, DeleteLink, CommitEdit,
     SaveLink, PickTag, RemoveTag, CancelEdit, Tick, ServeSave, SaveAnswered, ListRead, ListAnswered,
     HistoryRead, HistoryAnswered, Hear, OtherUpdate, ChangeField, Turn, Other
<1>. QED BY <1>1, DetailBounds DEF DetailCounts

(* An update adds no more than one entry, of the moment.                     *)
LEMMA UpdateAdds ==
    ASSUME DOMAIN sheet = Sheets, NEW s \in Sheets, NEW dto, NEW ours \in BOOLEAN, Update(s, dto, ours),
           \A t \in Sheets : sheet[t].count \in Nat /\ sheet[t].stamp \in [sec : 0..MaxSecs, sub : Nat],
           now \in 1..MaxSecs
    PROVE  /\ \A t \in Sheets : /\ sheet'[t].count \in {sheet[t].count, sheet[t].count + 1}
                                /\ sheet'[t].stamp \in [sec : 0..MaxSecs, sub : Nat]
                                /\ sheet'[t].row \in {sheet[t].row, Written(sheet[s].row, dto)}
           /\ twice' \subseteq twice \cup {s}
<1>. DEFINE after == Written(sheet[s].row, dto)
            rewritten == TaskChanges(sheet[s].row, after)
            stamp == Stamp(sheet[s], rewritten)
            retold == rewritten.tags # {} /\ sheet[s].tagged = now
<1>1. CASE rewritten = NoChange
  BY <1>1 DEF Update
<1>2. CASE rewritten # NoChange
  <2>1. /\ sheet' = [sheet EXCEPT ![s] =
                        [row |-> after, stamp |-> stamp, entry |-> rewritten,
                         count |-> sheet[s].count + 1,
                         mine |-> IF ours THEN sheet[s].count + 1 ELSE sheet[s].mine,
                         tagged |-> IF rewritten.tags # {} THEN now ELSE sheet[s].tagged]]
        /\ twice' = IF retold THEN twice \cup {s} ELSE twice
    BY <1>2 DEF Update
  <2>2. stamp \in [sec : 0..MaxSecs, sub : Nat]
    <3>1. now \in 0..MaxSecs
      BY DetailBounds
    <3>. QED BY <3>1 DEF Stamp
  <2>. HIDE DEF after, rewritten, stamp
  <2>3. /\ \A t \in Sheets \ {s} : sheet'[t] = sheet[t]
        /\ sheet'[s].stamp = stamp /\ sheet'[s].count = sheet[s].count + 1 /\ sheet'[s].row = after
    BY <2>1
  <2>. QED BY <2>1, <2>2, <2>3 DEF after
<1>. QED BY <1>1, <1>2

LEMMA WrittenFits ==
    ASSUME NEW row, NEW dto, row["tags"] \subseteq tagMaster, TextsIn(row), TextsIn(dto),
           DOMAIN row = SheetFields
    PROVE  /\ Written(row, dto)["tags"] \subseteq tagMaster
           /\ TextsIn(Written(row, dto))
BY DetailAssumption DEF Written, TextsIn, SheetFields

(* What others send of texts fits, too. *)
LEMMA TextsOfOthers == \A dto \in Dtos : TextsIn(dto)
<1>1. "links" \notin Scalars /\ "tags" \notin Scalars
  BY DetailAssumption
<1>2. \A l \in TaskLinks : TextsIn([p \in {"links"} |-> l])
  BY <1>1 DEF TextsIn
<1>3. \A g \in SUBSET TagCodes : TextsIn([p \in {"tags"} |-> g])
  BY <1>1 DEF TextsIn
<1>4. \A c \in Scalars, v \in Texts : TextsIn([p \in {c} |-> v])
  BY DEF TextsIn
<1>. TAKE dto \in Dtos
<1>5. CASE \E l \in TaskLinks : dto = [p \in {"links"} |-> l]
  BY <1>2, <1>5
<1>6. CASE \E g \in SUBSET TagCodes : dto = [p \in {"tags"} |-> g]
  BY <1>3, <1>6
<1>7. CASE \E c \in Scalars, v \in Texts : dto = [p \in {c} |-> v]
  BY <1>4, <1>7
<1>. QED BY <1>5, <1>6, <1>7 DEF Dtos

LEMMA DetailKnownStep == HistoryInv /\ LinksInv /\ DetailCounts /\ EntriesBounded /\ DetailKnown
                         /\ [DetailNext]_detailVars => DetailKnown'
<1>. SUFFICES ASSUME HistoryInv, LinksInv, DetailCounts, EntriesBounded, DetailKnown, [DetailNext]_detailVars
              PROVE  DetailKnown'
  OBVIOUS
<1>0. "links" \notin Scalars /\ "tags" \notin Scalars
  BY DetailAssumption
<1>1. ASSUME UNCHANGED <<sheet, tagMaster, twice>>, heard' \subseteq heard,
             \A x \in saves' : x \in saves \/ TextsIn(x.dto)
      PROVE  DetailKnown'
  BY <1>1 DEF DetailKnown
<1>2. ASSUME NEW s \in Sheets, NEW dto, TextsIn(dto), NEW ours \in BOOLEAN, Update(s, dto, ours),
             tagMaster' = tagMaster, heard' \subseteq heard \cup {s},
             \A x \in saves' : TextsIn(x.dto)
      PROVE  DetailKnown'
  <2>1. /\ \A t \in Sheets : sheet'[t].row \in {sheet[t].row, Written(sheet[s].row, dto)}
        /\ twice' \subseteq twice \cup {s}
    BY <1>2, UpdateAdds DEF HistoryInv, SheetKnown, DetailCounts, EntriesBounded
  <2>2. Written(sheet[s].row, dto)["tags"] \subseteq tagMaster /\ TextsIn(Written(sheet[s].row, dto))
    BY <1>2, WrittenFits DEF LinksInv, LinksFit, DetailKnown
  <2>. QED BY <1>2, <2>1, <2>2 DEF DetailKnown
<1>3. CASE UNCHANGED detailVars
  BY <1>1, <1>3 DEF detailVars
<1>4. ASSUME NEW s \in Sheets \cup {Absent}, Show(s) PROVE DetailKnown'
  BY <1>1, <1>4 DEF Show
<1>5. ASSUME NEW c \in Scalars, StartEdit(c) PROVE DetailKnown'
  BY <1>1, <1>5 DEF StartEdit
<1>6. ASSUME NEW i \in 0..MaxLinks, StartEditLink(i) PROVE DetailKnown'
  BY <1>1, <1>6 DEF StartEditLink
<1>7. ASSUME NEW f, NEW v, ChangeField([p \in {f} |-> v]), f \in Scalars => v \in Texts,
             NEW x \in saves'
      PROVE  x \in saves \/ TextsIn(x.dto)
  BY <1>7 DEF ChangeField, TextsIn
<1>8. ASSUME NEW i \in 0..MaxLinks, DeleteLink(i) PROVE DetailKnown'
  <2>1. ChangeField([p \in {"links"} |-> RemoveAt(Known["links"], i)])
    BY <1>8 DEF DeleteLink
  <2>2. \A x \in saves' : x \in saves \/ TextsIn(x.dto)
    BY <1>0, <1>7, <2>1
  <2>. QED BY <1>1, <1>8, <2>2 DEF DeleteLink
<1>9. ASSUME NEW v \in Texts, CommitEdit(v) PROVE DetailKnown'
  <2>1. saves' = saves \/ ChangeField([p \in {editingField} |-> v])
    BY <1>9 DEF CommitEdit
  <2>2. \A x \in saves' : x \in saves \/ TextsIn(x.dto)
    BY <1>7, <2>1
  <2>. QED BY <1>1, <1>9, <2>2 DEF CommitEdit
<1>10. ASSUME NEW l \in TaskLink, SaveLink(l) PROVE DetailKnown'
  <2>1. \E z : ChangeField([p \in {"links"} |-> z])
    BY <1>10 DEF SaveLink
  <2>2. \A x \in saves' : x \in saves \/ TextsIn(x.dto)
    BY <1>0, <1>7, <2>1
  <2>. QED BY <1>1, <1>10, <2>2 DEF SaveLink
<1>11. ASSUME NEW g \in TagCodes, PickTag(g) PROVE DetailKnown'
  <2>1. \E z : ChangeField([p \in {"tags"} |-> z])
    BY <1>11 DEF PickTag
  <2>2. \A x \in saves' : x \in saves \/ TextsIn(x.dto)
    BY <1>0, <1>7, <2>1
  <2>. QED BY <1>1, <1>11, <2>2 DEF PickTag
<1>12. ASSUME NEW g \in TagCodes, RemoveTag(g) PROVE DetailKnown'
  <2>1. \A s \in Sheets : sheet'[s].row = [sheet[s].row EXCEPT !["tags"] = @ \ {g}]
    BY <1>12 DEF RemoveTag, HistoryInv, SheetKnown
  <2>2. \A s \in Sheets : DOMAIN sheet[s].row = SheetFields
    BY DEF LinksInv, LinksFit
  <2>3. \A s \in Sheets : sheet'[s].row["tags"] = sheet[s].row["tags"] \ {g} /\ TextsIn(sheet'[s].row)
    BY <1>0, <2>1, <2>2 DEF SheetFields, TextsIn, DetailKnown
  <2>4. tagMaster' = tagMaster \ {g} /\ UNCHANGED <<twice, saves, heard>>
    BY <1>12 DEF RemoveTag
  <2>. QED BY <2>3, <2>4 DEF DetailKnown
<1>13. CASE CancelEdit
  BY <1>1, <1>13 DEF CancelEdit
<1>14. CASE Tick
  BY <1>1, <1>14 DEF Tick
<1>15. ASSUME NEW x \in saves, ServeSave(x) PROVE DetailKnown'
  <2>. DEFINE y == [x EXCEPT !.served = TRUE]
  <2>1. x.task \in Sheets /\ TextsIn(x.dto) /\ y.dto = x.dto
    BY DEF HistoryInv, SentSave, DetailKnown
  <2>2. /\ Update(x.task, x.dto, TRUE) /\ UNCHANGED <<tagMaster, heard>>
        /\ saves' = (saves \ {x}) \cup {y}
    BY <1>15 DEF ServeSave
  <2>. HIDE DEF y
  <2>3. \A z \in saves' : TextsIn(z.dto)
    BY <2>1, <2>2 DEF DetailKnown
  <2>. QED BY <1>2, <2>1, <2>2, <2>3
<1>16. ASSUME NEW x \in saves, SaveAnswered(x) PROVE DetailKnown'
  BY <1>1, <1>16 DEF SaveAnswered
<1>17. CASE ListRead
  BY <1>1, <1>17 DEF ListRead
<1>18. CASE ListAnswered
  BY <1>1, <1>18 DEF ListAnswered
<1>19. CASE HistoryRead
  BY <1>1, <1>19 DEF HistoryRead
<1>20. CASE HistoryAnswered
  BY <1>1, <1>20 DEF HistoryAnswered
<1>21. ASSUME NEW s \in Sheets, Hear(s) PROVE DetailKnown'
  BY <1>1, <1>21 DEF Hear
<1>22. ASSUME NEW s \in Sheets, NEW dto \in Dtos, OtherUpdate(s, dto) PROVE DetailKnown'
  <2>1. /\ Update(s, dto, FALSE) /\ UNCHANGED <<tagMaster, saves>> /\ heard' = heard \cup {s}
    BY <1>22 DEF OtherUpdate
  <2>2. TextsIn(dto)
    BY TextsOfOthers
  <2>3. \A z \in saves' : TextsIn(z.dto)
    BY <2>1 DEF DetailKnown
  <2>. QED BY <1>2, <2>1, <2>2, <2>3
<1>. QED
  BY <1>3, <1>4, <1>5, <1>6, <1>8, <1>9, <1>10, <1>11, <1>12, <1>13, <1>14, <1>15, <1>16,
     <1>17, <1>18, <1>19, <1>20, <1>21, <1>22 DEF DetailNext

LEMMA EntriesBoundedStep == HistoryInv /\ DetailCounts /\ EntriesBounded
                            /\ [DetailNext]_detailVars => EntriesBounded'
<1>. SUFFICES ASSUME HistoryInv, DetailCounts, EntriesBounded, [DetailNext]_detailVars
              PROVE  EntriesBounded'
  OBVIOUS
<1>. DEFINE waiting == Cardinality(Unserved)
<1>0. sent \in Nat /\ others \in Nat
  BY DetailBounds DEF DetailCounts
<1>1. IsFiniteSet(saves) /\ IsFiniteSet(Unserved) /\ waiting \in Nat
  <2>1. IsFiniteSet(saves) /\ Unserved \subseteq saves
    BY DEF EntriesBounded, Unserved
  <2>. QED BY <2>1, FS_Subset, FS_CardinalityType
<1>2. \A s \in Sheets : /\ sheet[s].count \in Nat /\ sheet[s].count + waiting <= sent + others
                        /\ sheet[s].stamp \in [sec : 0..MaxSecs, sub : Nat]
  BY DEF EntriesBounded
<1>3. ASSUME UNCHANGED <<sheet, saves, sent, others>> PROVE EntriesBounded'
  BY <1>3 DEF EntriesBounded, Unserved
<1>4. ASSUME UNCHANGED <<sheet, others>>, NEW dto, ChangeField(dto) PROVE EntriesBounded'
  <2>. DEFINE x == [n |-> sent, task |-> shownTask, dto |-> dto, served |-> FALSE]
  <2>1. saves' = saves \cup {x} /\ sent' = sent + 1
    BY <1>4 DEF ChangeField
  <2>2. Unserved' = Unserved \cup {x}
    BY <2>1 DEF Unserved
  <2>. HIDE DEF x
  <2>3. IsFiniteSet(saves')
    BY <1>1, <2>1, FS_AddElement
  <2>4. Cardinality(Unserved') \in {waiting, waiting + 1}
    BY <1>1, <2>2, FS_AddElement
  <2>. HIDE DEF waiting
  <2>5. \A s \in Sheets : sheet'[s].count + Cardinality(Unserved') <= sent' + others'
    BY <1>0, <1>1, <1>2, <1>4, <2>1, <2>4
  <2>. QED BY <1>2, <1>4, <2>3, <2>5 DEF EntriesBounded
<1>5. CASE UNCHANGED detailVars
  BY <1>3, <1>5 DEF detailVars
<1>6. ASSUME NEW s \in Sheets \cup {Absent}, Show(s) PROVE EntriesBounded'
  BY <1>3, <1>6 DEF Show
<1>7. ASSUME NEW c \in Scalars, StartEdit(c) PROVE EntriesBounded'
  BY <1>3, <1>7 DEF StartEdit
<1>8. ASSUME NEW i \in 0..MaxLinks, StartEditLink(i) PROVE EntriesBounded'
  BY <1>3, <1>8 DEF StartEditLink
<1>9. ASSUME NEW i \in 0..MaxLinks, DeleteLink(i) PROVE EntriesBounded'
  BY <1>4, <1>9 DEF DeleteLink
<1>10. ASSUME NEW v \in Texts, CommitEdit(v) PROVE EntriesBounded'
  BY <1>3, <1>4, <1>10 DEF CommitEdit
<1>11. ASSUME NEW l \in TaskLink, SaveLink(l) PROVE EntriesBounded'
  BY <1>4, <1>11 DEF SaveLink
<1>12. ASSUME NEW g \in TagCodes, PickTag(g) PROVE EntriesBounded'
  BY <1>4, <1>12 DEF PickTag
<1>13. ASSUME NEW g \in TagCodes, RemoveTag(g) PROVE EntriesBounded'
  <2>1. \A s \in Sheets : sheet'[s].stamp = sheet[s].stamp /\ sheet'[s].count = sheet[s].count
    BY <1>13 DEF RemoveTag, HistoryInv, SheetKnown
  <2>2. UNCHANGED <<saves, sent>> /\ others' = others + 1 /\ Unserved' = Unserved
    BY <1>13 DEF RemoveTag, Other, Unserved
  <2>. HIDE DEF waiting
  <2>3. \A s \in Sheets : sheet'[s].count + waiting <= sent' + others'
    BY <1>0, <1>1, <1>2, <2>1, <2>2
  <2>4. IsFiniteSet(saves')
    BY <1>1, <2>2
  <2>. QED BY <1>2, <2>1, <2>2, <2>3, <2>4 DEF EntriesBounded, waiting
<1>14. CASE CancelEdit
  BY <1>3, <1>14 DEF CancelEdit
<1>15. CASE Tick
  BY <1>3, <1>15 DEF Tick
<1>16. ASSUME NEW x \in saves, ServeSave(x) PROVE EntriesBounded'
  <2>. DEFINE y == [x EXCEPT !.served = TRUE]
  <2>1. x.task \in Sheets /\ y.served
    BY DEF HistoryInv, SentSave
  <2>2. /\ Update(x.task, x.dto, TRUE) /\ UNCHANGED <<sent, others>>
        /\ saves' = (saves \ {x}) \cup {y} /\ ~x.served
    BY <1>16 DEF ServeSave
  <2>. HIDE DEF y
  <2>3. Unserved' = Unserved \ {x} /\ x \in Unserved
    BY <2>1, <2>2 DEF Unserved
  <2>4. Cardinality(Unserved') = waiting - 1
    BY <1>1, <2>3, FS_RemoveElement
  <2>5. IsFiniteSet(saves')
    BY <1>1, <2>2, FS_RemoveElement, FS_AddElement
  <2>6. \A t \in Sheets : /\ sheet'[t].count \in {sheet[t].count, sheet[t].count + 1}
                          /\ sheet'[t].stamp \in [sec : 0..MaxSecs, sub : Nat]
    BY <1>2, <2>1, <2>2, UpdateAdds DEF HistoryInv, SheetKnown, DetailCounts
  <2>. HIDE DEF waiting
  <2>7. \A t \in Sheets : sheet'[t].count \in Nat
                          /\ sheet'[t].count + Cardinality(Unserved') <= sent' + others'
    BY <1>0, <1>1, <1>2, <2>2, <2>4, <2>6
  <2>. QED BY <2>5, <2>6, <2>7 DEF EntriesBounded
<1>17. ASSUME NEW x \in saves, SaveAnswered(x) PROVE EntriesBounded'
  <2>1. UNCHANGED <<sheet, sent, others>> /\ saves' = saves \ {x} /\ x.served
    BY <1>17 DEF SaveAnswered
  <2>2. Unserved' = Unserved
    BY <2>1 DEF Unserved
  <2>3. IsFiniteSet(saves')
    BY <1>1, <2>1, FS_RemoveElement
  <2>. QED BY <1>2, <2>1, <2>2, <2>3 DEF EntriesBounded
<1>18. CASE ListRead
  BY <1>3, <1>18 DEF ListRead
<1>19. CASE ListAnswered
  BY <1>3, <1>19 DEF ListAnswered
<1>20. CASE HistoryRead
  BY <1>3, <1>20 DEF HistoryRead
<1>21. CASE HistoryAnswered
  BY <1>3, <1>21 DEF HistoryAnswered
<1>22. ASSUME NEW s \in Sheets, Hear(s) PROVE EntriesBounded'
  BY <1>3, <1>22 DEF Hear
<1>23. ASSUME NEW s \in Sheets, NEW dto \in Dtos, OtherUpdate(s, dto) PROVE EntriesBounded'
  <2>1. /\ Update(s, dto, FALSE) /\ UNCHANGED <<saves, sent>> /\ others' = others + 1
        /\ Unserved' = Unserved
    BY <1>23 DEF OtherUpdate, Other, Unserved
  <2>2. \A t \in Sheets : /\ sheet'[t].count \in {sheet[t].count, sheet[t].count + 1}
                          /\ sheet'[t].stamp \in [sec : 0..MaxSecs, sub : Nat]
    BY <1>2, <2>1, UpdateAdds DEF HistoryInv, SheetKnown, DetailCounts
  <2>3. IsFiniteSet(saves')
    BY <1>1, <2>1
  <2>. HIDE DEF waiting
  <2>4. \A t \in Sheets : sheet'[t].count \in Nat /\ sheet'[t].count + waiting <= sent' + others'
    BY <1>0, <1>1, <1>2, <2>1, <2>2
  <2>. QED BY <2>1, <2>2, <2>3, <2>4 DEF EntriesBounded, waiting
<1>. QED
  BY <1>5, <1>6, <1>7, <1>8, <1>9, <1>10, <1>11, <1>12, <1>13, <1>14, <1>15, <1>16,
     <1>17, <1>18, <1>19, <1>20, <1>21, <1>22, <1>23 DEF DetailNext

LEMMA PanelTypedStep == HistoryInv /\ LinksInv /\ PanelTyped /\ [DetailNext]_detailVars => PanelTyped'
<1>. SUFFICES ASSUME HistoryInv, LinksInv, PanelTyped, [DetailNext]_detailVars PROVE PanelTyped'
  OBVIOUS
<1>0. Absent \notin Sheets
  BY DetailAssumption
<1>1. /\ listFetch'.state \in {listFetch.state, "idle", "sent", "read"}
      /\ historyFetch'.state \in {historyFetch.state, "idle", "sent", "read"}
  <2>1. listFetch' \in {listFetch, NotAsked, Asking} \/ listFetch'.state = "read"
    <3>1. \/ listFetch' = listFetch \/ ListRead \/ ListAnswered
          \/ (\E x \in saves : SaveAnswered(x)) \/ (\E s \in Sheets : Hear(s))
      BY DEF DetailNext, detailVars, panelState, Show, StartEdit, StartEditLink,
         DeleteLink, CommitEdit, SaveLink, PickTag, RemoveTag, CancelEdit, Tick,
         ServeSave, HistoryRead, HistoryAnswered, OtherUpdate
    <3>. QED BY <3>1 DEF ListRead, ListAnswered, SaveAnswered, Hear
  <2>2. historyFetch' \in {historyFetch, NotAsked, Asking} \/ historyFetch'.state = "read"
    <3>1. \/ historyFetch' = historyFetch \/ HistoryRead \/ HistoryAnswered \/ ListAnswered
          \/ (\E s \in Sheets \cup {Absent} : Show(s)) \/ (\E s \in Sheets : Hear(s))
      BY DEF DetailNext, detailVars, panelState, StartEdit, StartEditLink, DeleteLink,
         CommitEdit, SaveLink, PickTag, RemoveTag, CancelEdit, Tick, ServeSave,
         SaveAnswered, ListRead, OtherUpdate
    <3>. QED BY <3>1 DEF HistoryRead, HistoryAnswered, ListAnswered, Show, Hear
  <2>3. NotAsked.state = "idle" /\ Asking.state = "sent"
    BY DEF NotAsked, Asking
  <2>. QED BY <2>1, <2>2, <2>3
<1>2. editingLinkIndex' \in {editingLinkIndex, Absent} \cup (0..MaxLinks)
  BY DEF DetailNext, detailVars, panelState, Show, StartEdit, StartEditLink, DeleteLink, CommitEdit,
     SaveLink, PickTag, RemoveTag, CancelEdit, Tick, ServeSave, SaveAnswered, ListRead, ListAnswered,
     HistoryRead, HistoryAnswered, Hear, OtherUpdate, EditsDropped
<1>3. shownTask' = Absent => history' = 0 /\ historyFetch'.state = "idle"
  <2>1. CASE shownTask' # shownTask
    <3>1. PICK s \in Sheets \cup {Absent} : Show(s)
      BY <2>1 DEF DetailNext, detailVars, panelState, StartEdit, StartEditLink, DeleteLink, CommitEdit,
         SaveLink, PickTag, RemoveTag, CancelEdit, Tick, ServeSave, SaveAnswered, ListRead, ListAnswered,
         HistoryRead, HistoryAnswered, Hear, OtherUpdate
    <3>. QED BY <3>1 DEF Show, NotAsked
  <2>2. CASE shownTask' = shownTask
    BY <1>0, <2>2 DEF PanelTyped, DetailNext, detailVars, panelState, Show, StartEdit, StartEditLink, DeleteLink,
       CommitEdit, SaveLink, PickTag, RemoveTag, CancelEdit, Tick, ServeSave, SaveAnswered, ListRead,
       ListAnswered, HistoryRead, HistoryAnswered, Hear, OtherUpdate
  <2>. QED BY <2>1, <2>2
<1>. QED BY <1>1, <1>2, <1>3 DEF PanelTyped

(* TaskDetailSlideover.vue, TasksService.update: rows keep to the master of  *)
(* the tags and to what fits a column, whoever writes them and whatever was  *)
(* taken from the master meanwhile; a task has no more entries than saves    *)
(* were sent and others wrote, and the history no more than the task.        *)
THEOREM DetailTypeCorrect == DetailSpec => []DetailTypeOK
<1>. DEFINE Typed == DetailCounts /\ DetailKnown /\ EntriesBounded /\ PanelTyped
<1>1. DetailInit => Typed
  <2>. SUFFICES ASSUME DetailInit PROVE Typed
    OBVIOUS
  <2>1. DetailCounts
    <3>1. /\ turns = 0 /\ starts = 0 /\ sent = 0 /\ others = 0 /\ now = 1
      BY DEF DetailInit, DetailFrom
    <3>. QED BY <3>1, DetailBounds DEF DetailCounts
  <2>2. /\ tagMaster = TagCodes /\ twice = {} /\ heard = {} /\ saves = {}
        /\ listFetch = NotAsked /\ historyFetch = NotAsked /\ history = 0 /\ editingLinkIndex = Absent
    BY DEF DetailInit, DetailFrom
  <2>3. ASSUME NEW s \in Sheets
        PROVE  /\ sheet[s].row["tags"] = {} /\ TextsIn(sheet[s].row)
               /\ sheet[s].count = 0 /\ sheet[s].stamp = [sec |-> 0, sub |-> 0]
    <3>1. (CHOOSE v \in Texts : TRUE) \in Texts
      BY DetailAssumption
    <3>2. "links" \notin Scalars /\ "tags" \notin Scalars
      BY DetailAssumption
    <3>3. sheet[s] = [row |-> [p \in SheetFields |-> IF p = "links" THEN OneLink ELSE IF p = "tags" THEN {}
                                                     ELSE CHOOSE v \in Texts : TRUE],
                      stamp |-> [sec |-> 0, sub |-> 0], entry |-> NoChange,
                      count |-> 0, mine |-> 0, tagged |-> -1]
      BY DEF DetailInit, DetailFrom
    <3>4. \A c \in Scalars : sheet[s].row[c] = CHOOSE v \in Texts : TRUE
      BY <3>2, <3>3 DEF SheetFields
    <3>. QED BY <3>1, <3>3, <3>4 DEF TextsIn, SheetFields
  <2>4. DetailKnown
    BY <2>2, <2>3 DEF DetailKnown
  <2>5. EntriesBounded
    <3>1. Unserved = {} /\ IsFiniteSet(saves) /\ Cardinality(Unserved) = 0
      BY <2>2, FS_EmptySet DEF Unserved
    <3>2. sent = 0 /\ others = 0 /\ 0 \in 0..MaxSecs
      BY DetailBounds DEF DetailInit, DetailFrom
    <3>3. \A s \in Sheets : sheet[s].stamp \in [sec : 0..MaxSecs, sub : Nat]
      BY <2>3, <3>2
    <3>. QED BY <2>3, <3>1, <3>2, <3>3 DEF EntriesBounded
  <2>6. PanelTyped
    BY <2>2 DEF PanelTyped, NotAsked
  <2>. QED BY <2>1, <2>4, <2>5, <2>6
<1>2. (/\ HistoryInv /\ LinksInv /\ Typed /\ [DetailNext]_detailVars) => Typed'
  BY DetailCountsStep, DetailKnownStep, EntriesBoundedStep, PanelTypedStep
<1>3. HistoryInv /\ LinksInv /\ Typed => DetailTypeOK
  <2>. SUFFICES ASSUME HistoryInv, LinksInv, DetailCounts, DetailKnown, EntriesBounded, PanelTyped
                PROVE  DetailTypeOK
    OBVIOUS
  <2>. DEFINE most == MaxSaves + MaxOthers
  <2>1. most \in Nat /\ \A s \in Sheets : sheet[s].count \in 0..most
    <3>1. Cardinality(Unserved) \in Nat
      <4>1. IsFiniteSet(Unserved)
        BY FS_Subset DEF EntriesBounded, Unserved
      <4>. QED BY <4>1, FS_CardinalityType
    <3>2. sent <= MaxSaves /\ others <= MaxOthers /\ sent \in Nat /\ others \in Nat
      BY DetailBounds DEF DetailCounts
    <3>3. \A s \in Sheets : sheet[s].count \in Nat /\ sheet[s].count + Cardinality(Unserved) <= sent + others
      BY DEF EntriesBounded
    <3>. QED BY <3>1, <3>2, <3>3, DetailBounds
  <2>2. \A s \in Sheets : sheet[s].mine \in 0..sheet[s].count
    BY <2>1 DEF HistoryInv, SheetKnown
  <2>. HIDE DEF most
  <2>3. \A s \in Sheets : sheet[s].stamp \in [sec : 0..MaxSecs, sub : 0..most]
    <3>1. \A s \in Sheets : /\ sheet[s].stamp \in [sec : 0..MaxSecs, sub : Nat]
                            /\ sheet[s].stamp.sub <= sheet[s].count
      BY DEF EntriesBounded, HistoryInv, SheetKnown, StampKnown
    <3>2. \A s \in Sheets : sheet[s].stamp.sub \in 0..most
      BY <2>1, <3>1
    <3>. QED BY <3>1, <3>2
  <2>4. history \in 0..most
    <3>1. CASE shownTask = Absent
      BY <2>1, <3>1 DEF PanelTyped
    <3>2. CASE shownTask \in Sheets /\ shownTask # Absent
      <4>1. history \in Nat /\ history <= sheet[shownTask].count
        BY <3>2 DEF HistoryInv, PanelKnown
      <4>. QED BY <2>1, <3>2, <4>1
    <3>. QED BY <3>1, <3>2 DEF HistoryInv
  <2>5. \A s \in Sheets : \A c \in Scalars : sheet[s].row[c] \in Texts
    BY DEF DetailKnown, LinksInv, LinksFit, TextsIn, SheetFields
  <2>6. \A s \in Sheets : sheet[s].row["links"] \in TaskLinks /\ sheet[s].row["tags"] \subseteq tagMaster
    BY DEF DetailKnown, LinksInv, LinksFit
  <2>7. DOMAIN sheet = Sheets /\ shownTask \in Sheets \cup {Absent} /\ editingField \in Scalars \cup {Absent}
    BY DEF HistoryInv, SheetKnown, LinksInv
  <2>8. /\ tagMaster \subseteq TagCodes /\ now \in 1..MaxSecs /\ twice \subseteq Sheets /\ heard \subseteq Sheets
        /\ {listFetch.state, historyFetch.state} \subseteq {"idle", "sent", "read"}
        /\ editingLinkIndex \in (0..MaxLinks) \cup {Absent}
        /\ turns \in 0..MaxTurns /\ starts \in 0..MaxStarts /\ sent \in 0..MaxSaves /\ others \in 0..MaxOthers
    BY DEF DetailKnown, DetailCounts, PanelTyped
  <2>. QED BY <2>1, <2>2, <2>3, <2>4, <2>5, <2>6, <2>7, <2>8 DEF DetailTypeOK, Instant, most
<1>. QED BY <1>1, <1>2, <1>3, DetailInvAlways, PTL DEF DetailSpec

---------------------------------------------------------------------------
(* BulkEdit: what is confirmed and what is written *)

RowsKnown ==
    /\ DOMAIN masters = {"tags", "assignable"}
    /\ DOMAIN rows = Batch
    /\ \A t \in Batch : /\ DOMAIN rows[t] = {"status", "assignee", "tags", "openSubs", "here"}
                        /\ rows[t].tags \subseteq masters.tags
    /\ tasksList \subseteq Batch
    /\ intrusions \in Nat

(* What is confirmed could be applied. *)
DialogKnown ==
    /\ enabled \subseteq Fields /\ DOMAIN picked = Fields /\ tagMode \in {"add", "remove"}
    /\ dialogStep = "confirm" => CanApply

(* The patch has the fields of the summary with their values, and no other.  *)
PatchAsSaid(patch, says) ==
    /\ \A f \in {"status", "assignee"} :
         IF f \in DOMAIN says THEN patch[f] = says[f] /\ says[f] # Undefined
         ELSE patch[f] = Undefined
    /\ IF "tags" \notin DOMAIN says THEN patch.addTagCodes = {} /\ patch.removeTagCodes = {}
       ELSE /\ says["tags"].codes # {}
            /\ says["tags"].mode \in {"add", "remove"}
            /\ patch.addTagCodes = IF says["tags"].mode = "add" THEN says["tags"].codes ELSE {}
            /\ patch.removeTagCodes = IF says["tags"].mode = "add" THEN {} ELSE says["tags"].codes

AsPatched(patch, tags) == (tags \cup patch.addTagCodes) \ patch.removeTagCodes

Stops == {"tags", "read", "member", "subs", "select", "write"}
EntityRead(req) == req.at \notin {"tags", "read"}
SameRow(one, other) == one.status = other.status /\ one.assignee = other.assignee /\ one.here /\ other.here

(* What was read of the first task is what it has, but for tags removed from *)
(* the master since, unless somebody changed the task.                       *)
ReadIsCurrent(req, row, known) ==
    /\ req.at \in Stops
    /\ req.at = "tags" => Touched(req.patch)
    /\ Touched(req.patch) /\ req.at = "write" =>
         AsPatched(req.patch, req.tags) \cap known = req.tags \cap known
    /\ ~req.raced /\ Touched(req.patch) /\ req.at # "tags" =>
         AsPatched(req.patch, req.tags) \cap known = AsPatched(req.patch, row.tags) \cap known
    /\ ~req.raced /\ EntityRead(req) => SameRow(req.ent, row)
    /\ ~req.raced /\ req.at = "write" => SameRow(req.old, row)

RequestAsSaid ==
    /\ DOMAIN request = {"ids", "patch", "at", "tags", "ent", "old", "raced", "state"}
    /\ request.ids \in Seq(promised.tasks)
    /\ promised.tasks \subseteq Batch
    /\ request.raced \in BOOLEAN
    /\ PatchAsSaid(request.patch, promised.says)
    /\ request.ids # <<>> => ReadIsCurrent(request, rows[Current], masters.tags)

BulkInv ==
    /\ RowsKnown
    /\ DialogKnown
    /\ request # Undefined => RequestAsSaid

LEMMA SummaryIsSent ==
    ASSUME DialogKnown, dialogStep = "confirm"
    PROVE  PatchAsSaid(BuildPatch, Summary)
<1>1. \A f \in enabled : IF f = "tags" THEN picked.tags # {} ELSE picked[f] # Undefined
  BY DEF DialogKnown, CanApply
<1>2. DOMAIN Summary = enabled /\ \A f \in enabled \ {"tags"} : Summary[f] = picked[f]
  BY DEF Summary
<1>3. "tags" \in enabled => Summary["tags"] = [mode |-> tagMode, codes |-> picked.tags]
  BY DEF Summary
<1>. QED BY <1>1, <1>2, <1>3 DEF DialogKnown, PatchAsSaid, BuildPatch

(* A task about to be taken has nothing read of it. *)
LEMMA TurnedFits ==
    ASSUME NEW ids, NEW patch, NEW row, NEW known
    PROVE  ReadIsCurrent(Turned(ids, patch), row, known)
BY DEF Turned, ReadIsCurrent, Stops, EntityRead

Level(one, other) == one.status = other.status /\ one.assignee = other.assignee /\ one.here = other.here

LEMMA TaskTurned ==
    ASSUME RequestAsSaid, request.ids # <<>>, NextTask, UNCHANGED promised
    PROVE  RequestAsSaid'
<1>1. /\ DOMAIN request' = {"ids", "patch", "at", "tags", "ent", "old", "raced", "state"}
      /\ request'.ids = Tail(request.ids) /\ request'.patch = request.patch
      /\ request'.raced = FALSE
  BY DEF NextTask, Turned
<1>2. ReadIsCurrent(request', rows[Current]', masters'.tags)
  BY TurnedFits DEF NextTask
<1>3. Tail(request.ids) \in Seq(promised.tasks)
  BY DEF RequestAsSaid
<1>. QED BY <1>1, <1>2, <1>3 DEF RequestAsSaid

LEMMA StateOnly ==
    ASSUME RequestAsSaid, NEW state, request' = [request EXCEPT !.state = state],
           UNCHANGED <<rows, masters, promised>>
    PROVE  RequestAsSaid'
BY DEF RequestAsSaid, ReadIsCurrent, EntityRead, Current

(* One save gives a task what was said. *)
LEMMA SavedAsSaid ==
    ASSUME RowsKnown, RequestAsSaid, request.ids # <<>>, request.at = "write",
           NEW t \in Batch, t = Current, Touches => request.tags \subseteq masters.tags
    PROVE  /\ AsSaid(rows[t], Saved(rows[t]), promised.says)
           /\ DOMAIN Saved(rows[t]) = DOMAIN rows[t]
           /\ Saved(rows[t]).tags \subseteq masters.tags
<1>. DEFINE row == Saved(rows[t])
            says == promised.says
            patch == request.patch
            Kept(f) == request.old.here /\ Wanted(f) = request.old[f]
<1>1. /\ DOMAIN row = DOMAIN rows[t] /\ row.here = TRUE
      /\ row.status = IF Kept("status") THEN rows[t].status ELSE Wanted("status")
      /\ row.assignee = IF Kept("assignee") THEN rows[t].assignee ELSE Wanted("assignee")
      /\ row.tags = IF Touches THEN request.tags ELSE rows[t].tags
  BY DEF Saved, RowsKnown
<1>2. /\ PatchAsSaid(patch, says) /\ rows[t].tags \subseteq masters.tags
      /\ ReadIsCurrent(request, rows[t], masters.tags)
  BY DEF RequestAsSaid, RowsKnown
<1>3. ASSUME NEW f \in {"status", "assignee"}
      PROVE  \/ row[f] = IF f \in DOMAIN says THEN says[f] ELSE rows[t][f]
             \/ request.raced /\ row[f] = IF f \in DOMAIN says THEN rows[t][f] ELSE request.ent[f]
  <2>. HIDE DEF row, Kept
  <2>1. row[f] = IF Kept(f) THEN rows[t][f] ELSE Wanted(f)
    BY <1>1
  <2>2. Wanted(f) = IF f \in DOMAIN says THEN says[f] ELSE request.ent[f]
    BY <1>2 DEF Wanted, PatchAsSaid
  <2>3. ~request.raced => request.ent[f] = rows[t][f] /\ request.old[f] = rows[t][f]
    BY <1>2 DEF ReadIsCurrent, EntityRead, SameRow
  <2>. QED BY <2>1, <2>2, <2>3 DEF Kept
<1>4. row.here # rows[t].here => request.raced
  BY <1>1, <1>2 DEF ReadIsCurrent, SameRow
<1>5. CASE "tags" \notin DOMAIN says
  <2>1. ~Touches
    BY <1>2, <1>5 DEF PatchAsSaid, Touches, Touched
  <2>. QED BY <1>1, <1>2, <1>3, <1>4, <1>5, <2>1 DEF AsSaid
<1>6. CASE "tags" \in DOMAIN says
  <2>1. Touched(patch) /\ Touches
    BY <1>2, <1>6 DEF PatchAsSaid, Touches, Touched
  <2>2. row.tags = request.tags /\ request.tags \subseteq masters.tags
    BY <1>1, <2>1
  <2>3. /\ request.tags = AsPatched(patch, request.tags) \cap masters.tags
        /\ ~request.raced => request.tags = AsPatched(patch, rows[t].tags) \cap masters.tags
    BY <1>2, <2>1, <2>2 DEF ReadIsCurrent
  <2>. DEFINE named == says["tags"].codes \cap masters.tags
  <2>4. /\ IF says["tags"].mode = "add" THEN named \subseteq row.tags
           ELSE named \cap row.tags = {}
        /\ ~request.raced => row.tags \ named = rows[t].tags \ named
    <3>. HIDE DEF row, says, patch
    <3>1. CASE says["tags"].mode = "add"
      BY <1>2, <1>6, <2>2, <2>3, <3>1 DEF PatchAsSaid, AsPatched
    <3>2. CASE says["tags"].mode # "add"
      BY <1>2, <1>6, <2>2, <2>3, <3>2 DEF PatchAsSaid, AsPatched
    <3>. QED BY <3>1, <3>2
  <2>. QED BY <1>1, <1>2, <1>3, <1>4, <1>6, <2>2, <2>4 DEF AsSaid
<1>. QED BY <1>5, <1>6

LEMMA BulkStep == BulkInv /\ [BulkNext]_bulkVars => BulkInv'
<1>. SUFFICES ASSUME BulkInv, [BulkNext]_bulkVars PROVE BulkInv'
  OBVIOUS
<1>. USE DEF BulkInv
<1>1. ASSUME UNCHANGED <<rows, masters, tasksList, intrusions>> \/ RowsKnown',
             UNCHANGED <<dialogVars>> \/ DialogKnown',
             UNCHANGED <<request, promised, rows, masters>> \/ (request' # Undefined => RequestAsSaid')
      PROVE  BulkInv'
  <2>1. RowsKnown'
    BY <1>1 DEF RowsKnown
  <2>2. DialogKnown'
    BY <1>1 DEF DialogKnown, dialogVars, CanApply
  <2>3. request' # Undefined => RequestAsSaid'
    BY <1>1 DEF RequestAsSaid, Current
  <2>. QED BY <2>1, <2>2, <2>3
<1>2. CASE UNCHANGED bulkVars
  BY <1>1, <1>2 DEF bulkVars
<1>3. ASSUME NEW t \in Batch, ToggleTaskSelected(t) PROVE BulkInv'
  BY <1>1, <1>3 DEF ToggleTaskSelected, Press
<1>4. CASE ToggleSelectAll
  BY <1>1, <1>4 DEF ToggleSelectAll, Press
<1>5. ASSUME NEW out \in SUBSET Batch, Refilter(out) PROVE BulkInv'
  BY <1>1, <1>5 DEF Refilter, Press
<1>6. CASE OpenBulkEdit
  <2>1. DialogKnown'
    BY <1>6 DEF OpenBulkEdit, DialogKnown, Picked0, Fields
  <2>. QED BY <1>1, <1>6, <2>1 DEF OpenBulkEdit, Press
<1>7. CASE CloseBulkEdit
  BY <1>1, <1>7 DEF CloseBulkEdit, Press
<1>8. ASSUME NEW f \in Fields, ToggleField(f) PROVE BulkInv'
  <2>1. DialogKnown'
    BY <1>8 DEF ToggleField, Entering, DialogKnown
  <2>. QED BY <1>1, <1>8, <2>1 DEF ToggleField, Entering, Press
<1>9. ASSUME NEW f \in Fields, NEW v, PickValue(f, v) PROVE BulkInv'
  <2>1. DialogKnown'
    BY <1>9 DEF PickValue, Entering, DialogKnown
  <2>. QED BY <1>1, <1>9, <2>1 DEF PickValue, Entering, Press
<1>10. ASSUME NEW l \in LabelCodes, ToggleTag(l) PROVE BulkInv'
  <2>1. DialogKnown'
    BY <1>10 DEF ToggleTag, Entering, DialogKnown
  <2>. QED BY <1>1, <1>10, <2>1 DEF ToggleTag, Entering, Press
<1>11. CASE SwitchMode
  <2>1. DialogKnown'
    BY <1>11 DEF SwitchMode, Entering, DialogKnown
  <2>. QED BY <1>1, <1>11, <2>1 DEF SwitchMode, Entering, Press
<1>12. CASE GoConfirm
  <2>1. DialogKnown'
    BY <1>12 DEF GoConfirm, DialogKnown, CanApply
  <2>. QED BY <1>1, <1>12, <2>1 DEF GoConfirm, Follows
<1>13. CASE BackToEdit
  <2>1. DialogKnown'
    BY <1>13 DEF BackToEdit, DialogKnown
  <2>. QED BY <1>1, <1>13, <2>1 DEF BackToEdit, Follows
<1>14. CASE ApplyBulkEdit
  <2>1. TargetTaskIds \subseteq Batch /\ IsFiniteSet(TargetTaskIds)
    BY BulkAssumption, FS_Subset DEF TargetTaskIds, Selectable, RowsKnown
  <2>2. SetToSeq(TargetTaskIds) \in Seq(TargetTaskIds)
    BY <2>1, InARow
  <2>3. PatchAsSaid(BuildPatch, Summary)
    BY <1>14, SummaryIsSent DEF ApplyBulkEdit
  <2>4. /\ request' = Turned(SetToSeq(TargetTaskIds), BuildPatch)
        /\ promised'.tasks = TargetTaskIds /\ promised'.says = Summary
        /\ UNCHANGED <<rows, masters, tasksList, dialogVars, intrusions>>
    BY <1>14 DEF ApplyBulkEdit, TargetTaskIds, Follows
  <2>5. RequestAsSaid'
    BY <2>1, <2>2, <2>3, <2>4, TurnedFits DEF RequestAsSaid, Turned
  <2>. QED BY <1>1, <2>4, <2>5
<1>15. ASSUME Serving, UNCHANGED rows, RequestAsSaid' PROVE BulkInv'
  <2>1. UNCHANGED <<rows, masters, tasksList, dialogVars, promised, intrusions>>
    BY <1>15 DEF Serving, Follows
  <2>. QED BY <1>1, <1>15, <2>1
<1>16. CASE ReadTags \/ FindEntity \/ AssertAssignable \/ CountIncomplete \/ SelectForSave
  <2>1. /\ Serving /\ request # Undefined /\ request.ids # <<>> /\ UNCHANGED rows
        /\ UNCHANGED <<masters, promised>>
    BY <1>16 DEF ReadTags, FindEntity, AssertAssignable, CountIncomplete, SelectForSave, Serves,
       Serving, Goes
  <2>2. /\ RequestAsSaid /\ Current \in Batch /\ ReadIsCurrent(request, rows[Current], masters.tags)
    BY <2>1 DEF RequestAsSaid, Current
  <2>3. CASE NextTask
    BY <2>1, <2>2, <2>3, TaskTurned, <1>15
  <2>4. ASSUME NEW req, request' = req, DOMAIN req = DOMAIN request, req.ids = request.ids,
               req.patch = request.patch, req.raced = request.raced,
               ReadIsCurrent(req, rows[Current], masters.tags)
        PROVE  BulkInv'
    <3>1. RequestAsSaid'
      BY <2>1, <2>2, <2>4 DEF RequestAsSaid, Current
    <3>. QED BY <2>1, <3>1, <1>15
  <2>5. CASE ReadTags
    <3>. DEFINE req == [request EXCEPT !.at = "read", !.tags = rows[Current].tags]
    <3>1. ReadIsCurrent(req, rows[Current], masters.tags)
      BY <2>2 DEF RequestAsSaid, ReadIsCurrent, EntityRead, Stops
    <3>2. request' = req
      BY <2>5 DEF ReadTags
    <3>3. DOMAIN req = DOMAIN request /\ req.ids = request.ids /\ req.patch = request.patch
          /\ req.raced = request.raced
      BY <2>2 DEF RequestAsSaid
    <3>. HIDE DEF req
    <3>. QED BY <2>4, <3>1, <3>2, <3>3
  <2>6. CASE FindEntity /\ ~NextTask
    <3>. DEFINE req == [request EXCEPT !.at = "member", !.ent = rows[Current]]
    <3>1. request.at = "read" /\ rows[Current].here /\ request' = req
      BY <2>6 DEF FindEntity, Serves
    <3>2. ReadIsCurrent(req, rows[Current], masters.tags)
      BY <2>2, <3>1 DEF RequestAsSaid, ReadIsCurrent, EntityRead, Stops, SameRow
    <3>3. DOMAIN req = DOMAIN request /\ req.ids = request.ids /\ req.patch = request.patch
          /\ req.raced = request.raced
      BY <2>2 DEF RequestAsSaid
    <3>. HIDE DEF req
    <3>. QED BY <2>4, <3>1, <3>2, <3>3
  <2>7. CASE (AssertAssignable \/ CountIncomplete) /\ ~NextTask
    <3>1. PICK next \in {"subs", "select"} : request' = [request EXCEPT !.at = next]
      BY <2>7 DEF AssertAssignable, CountIncomplete, Goes
    <3>. DEFINE req == [request EXCEPT !.at = next]
    <3>2. request.at \in {"member", "subs"}
      BY <2>7 DEF AssertAssignable, CountIncomplete, Serves
    <3>3. ReadIsCurrent(req, rows[Current], masters.tags)
      BY <2>2, <3>2 DEF RequestAsSaid, ReadIsCurrent, EntityRead, Stops
    <3>. QED BY <2>2, <2>4, <3>1, <3>3 DEF RequestAsSaid
  <2>8. CASE SelectForSave
    <3>. DEFINE req == [request EXCEPT !.at = "write", !.old = rows[Current],
                                       !.tags = Renewed(@) \cap masters.tags]
    <3>1. request.at = "select" /\ request' = req
      BY <2>8 DEF SelectForSave, Serves
    <3>2. ReadIsCurrent(req, rows[Current], masters.tags)
      <4>1. /\ req.at = "write" /\ req.old = rows[Current] /\ req.ent = request.ent
            /\ req.patch = request.patch /\ req.raced = request.raced
            /\ req.tags = AsPatched(request.patch, request.tags) \cap masters.tags
        BY <2>2 DEF RequestAsSaid, Renewed, AsPatched
      <4>2. AsPatched(request.patch, req.tags) \cap masters.tags = req.tags \cap masters.tags
        BY <4>1 DEF AsPatched
      <4>3. req.tags \cap masters.tags = AsPatched(request.patch, request.tags) \cap masters.tags
        BY <4>1
      <4>. HIDE DEF req
      <4>. QED BY <2>2, <3>1, <4>1, <4>2, <4>3 DEF ReadIsCurrent, EntityRead, Stops, SameRow
    <3>3. DOMAIN req = DOMAIN request /\ req.ids = request.ids /\ req.patch = request.patch
          /\ req.raced = request.raced
      BY <2>2 DEF RequestAsSaid
    <3>. HIDE DEF req
    <3>. QED BY <2>4, <3>1, <3>2, <3>3
  <2>. QED BY <1>16, <2>3, <2>5, <2>6, <2>7, <2>8
<1>17. CASE WriteTask
  <2>1. /\ Serving /\ request # Undefined /\ request.ids # <<>> /\ request.at = "write"
        /\ UNCHANGED <<masters, tasksList, dialogVars, promised, intrusions>>
    BY <1>17 DEF WriteTask, Serves, Serving, Follows
  <2>2. RequestAsSaid /\ Current \in Batch
    BY <2>1 DEF RequestAsSaid, Current
  <2>3. CASE NextTask /\ UNCHANGED rows
    BY <2>1, <2>2, <2>3, TaskTurned, <1>15
  <2>4. CASE /\ NextTask /\ rows' = [rows EXCEPT ![Current] = Saved(rows[Current])]
             /\ Touches => request.tags \subseteq masters.tags
    <3>. DEFINE t == Current
    <3>1. t \in Batch /\ rows' = [rows EXCEPT ![t] = Saved(rows[t])]
      BY <2>2, <2>4
    <3>2. /\ DOMAIN Saved(rows[t]) = DOMAIN rows[t]
          /\ Saved(rows[t]).tags \subseteq masters.tags
      BY <2>1, <2>2, <2>4, SavedAsSaid
    <3>. HIDE DEF t
    <3>3. RowsKnown'
      BY <2>1, <3>1, <3>2 DEF RowsKnown
    <3>4. RequestAsSaid'
      BY <2>1, <2>2, <2>4, TaskTurned
    <3>. QED BY <1>1, <2>1, <3>3, <3>4
  <2>5. CASE request' = [request EXCEPT !.state = "failed"] /\ UNCHANGED rows
    <3>1. RequestAsSaid'
      BY <2>1, <2>2, <2>5, StateOnly
    <3>. QED BY <2>1, <2>5, <3>1, <1>15
  <2>. QED BY <1>17, <2>3, <2>4, <2>5 DEF WriteTask
<1>18. CASE BulkFails \/ BulkDone
  <2>1. /\ Serving /\ request # Undefined /\ UNCHANGED <<rows, masters, promised>>
        /\ \E state \in {"failed", "done"} : request' = [request EXCEPT !.state = state]
    BY <1>18 DEF BulkFails, BulkDone, Serving
  <2>2. RequestAsSaid'
    BY <2>1, StateOnly
  <2>. QED BY <2>1, <2>2, <1>15
<1>19. CASE BulkAnswered
  <2>1. /\ request # Undefined
        /\ \/ request' = [request EXCEPT !.state = "refreshing"] /\ UNCHANGED promised
           \/ request' = Undefined
        /\ UNCHANGED <<rows, masters, tasksList, dialogVars, intrusions>>
    BY <1>19 DEF BulkAnswered, Follows
  <2>2. request' # Undefined => RequestAsSaid'
    BY <2>1, StateOnly
  <2>. QED BY <1>1, <2>1, <2>2
<1>20. CASE RefreshedAfter
  BY <1>1, <1>20 DEF RefreshedAfter, Follows, RowsKnown, NotClosed
<1>21. CASE HeardOfOthers
  BY <1>1, <1>21 DEF HeardOfOthers, Intrusion, RowsKnown, NotClosed
<1>22. ASSUME NEW t \in Batch, OtherEdit(t) PROVE BulkInv'
  <2>1. PICK row : /\ RowChanged(t, row)
                   /\ DOMAIN row = DOMAIN rows[t] /\ row.tags \subseteq masters.tags
    <3>. DEFINE Fits(row) == DOMAIN row = DOMAIN rows[t] /\ row.tags \subseteq masters.tags
    <3>1. ASSUME NEW l \in masters.tags
          PROVE  Fits([rows[t] EXCEPT !.tags = IF l \in @ THEN @ \ {l} ELSE @ \cup {l}])
      BY DEF RowsKnown
    <3>2. ASSUME NEW s PROVE Fits([rows[t] EXCEPT !.status = s])
      BY DEF RowsKnown
    <3>3. /\ Fits([rows[t] EXCEPT !.openSubs = ~@])
          /\ Fits([rows[t] EXCEPT !.here = FALSE, !.openSubs = FALSE, !.tags = {}])
      BY DEF RowsKnown
    <3>. HIDE DEF Fits
    <3>4. \E row : RowChanged(t, row) /\ Fits(row)
      BY <1>22, <3>1, <3>2, <3>3 DEF OtherEdit
    <3>. QED BY <3>4 DEF Fits
  <2>2. /\ rows' = [rows EXCEPT ![t] = row]
        /\ request' = IF request = Undefined THEN request
                      ELSE [request EXCEPT !.raced = request.raced \/ Meanwhile(t)]
        /\ UNCHANGED <<masters, tasksList, dialogVars, promised>> /\ intrusions' = intrusions + 1
    BY <2>1 DEF RowChanged, Intruded, Intrusion
  <2>3. RowsKnown'
    BY <2>1, <2>2 DEF RowsKnown
  <2>4. request' # Undefined => RequestAsSaid'
    <3>1. SUFFICES ASSUME request # Undefined PROVE RequestAsSaid'
      BY <2>2
    <3>. DEFINE req == [request EXCEPT !.raced = request.raced \/ Meanwhile(t)]
    <3>2. RequestAsSaid
      BY <3>1
    <3>3. /\ DOMAIN req = DOMAIN request /\ req.ids = request.ids /\ req.patch = request.patch
          /\ req.raced \in BOOLEAN /\ req.at = request.at /\ req.tags = request.tags
          /\ req.ent = request.ent /\ req.old = request.old
          /\ ~req.raced => ~request.raced /\ ~Meanwhile(t)
      BY <3>2 DEF RequestAsSaid, Meanwhile
    <3>4. ASSUME request.ids # <<>> PROVE ReadIsCurrent(req, rows'[Current], masters.tags)
      <4>1. Current \in Batch /\ ReadIsCurrent(request, rows[Current], masters.tags)
        BY <3>2, <3>4 DEF RequestAsSaid, Current
      <4>2. CASE t # Current
        <5>1. rows'[Current] = rows[Current]
          BY <2>2, <4>1, <4>2
        <5>. HIDE DEF req
        <5>. QED BY <3>3, <4>1, <5>1 DEF ReadIsCurrent, EntityRead
      <4>3. CASE t = Current
        <5>1. ~req.raced => request.at = IF Touched(request.patch) THEN "tags" ELSE "read"
          BY <3>3, <3>4, <4>3 DEF Meanwhile, Turned
        <5>. HIDE DEF req
        <5>. QED BY <3>3, <4>1, <5>1 DEF ReadIsCurrent, EntityRead
      <4>. QED BY <4>2, <4>3
    <3>5. request' = req
      BY <2>2, <3>1
    <3>. HIDE DEF req
    <3>. QED BY <2>2, <3>2, <3>3, <3>4, <3>5 DEF RequestAsSaid, Current
  <2>. QED BY <1>1, <2>2, <2>3, <2>4
<1>23. CASE MasterChanged
  <2>1. /\ UNCHANGED <<request, tasksList, dialogVars, promised>> /\ intrusions' = intrusions + 1
        /\ DOMAIN masters' = {"tags", "assignable"}
        /\ \/ \E l \in masters.tags : /\ masters'.tags = masters.tags \ {l}
                                       /\ rows' = [u \in Batch |-> [rows[u] EXCEPT !.tags = rows[u].tags \ {l}]]
           \/ masters'.tags = masters.tags /\ rows' = rows
    BY <1>23 DEF MasterChanged, Intruded, Intrusion, RowsKnown
  <2>2. PICK gone \in SUBSET masters.tags :
          /\ masters'.tags = masters.tags \ gone
          /\ DOMAIN rows' = Batch
          /\ \A u \in Batch : /\ DOMAIN rows'[u] = DOMAIN rows[u] /\ rows'[u].tags = rows[u].tags \ gone
                             /\ Level(rows[u], rows'[u])
    <3>1. ASSUME NEW l \in masters.tags, masters'.tags = masters.tags \ {l},
                 rows' = [u \in Batch |-> [rows[u] EXCEPT !.tags = rows[u].tags \ {l}]]
          PROVE  /\ {l} \in SUBSET masters.tags
                 /\ DOMAIN rows' = Batch
                 /\ \A u \in Batch : /\ DOMAIN rows'[u] = DOMAIN rows[u]
                                     /\ rows'[u].tags = rows[u].tags \ {l}
                                     /\ Level(rows[u], rows'[u])
      BY <3>1 DEF RowsKnown, Level
    <3>2. CASE masters'.tags = masters.tags /\ rows' = rows
      <4>1. /\ masters'.tags = masters.tags \ {} /\ DOMAIN rows' = Batch
            /\ \A u \in Batch : /\ DOMAIN rows'[u] = DOMAIN rows[u]
                                /\ rows'[u].tags = rows[u].tags \ {}
                                /\ Level(rows[u], rows'[u])
        BY <3>2 DEF RowsKnown, Level
      <4>. QED BY <4>1
    <3>. QED BY <2>1, <3>1, <3>2
  <2>3. RowsKnown'
    BY <2>1, <2>2 DEF RowsKnown
  <2>4. request' # Undefined => RequestAsSaid'
    <3>1. SUFFICES ASSUME request # Undefined, request.ids # <<>>
                   PROVE  ReadIsCurrent(request, rows'[Current], masters'.tags)
      BY <2>1 DEF RequestAsSaid, Current
    <3>2. Current \in Batch /\ ReadIsCurrent(request, rows[Current], masters.tags)
      BY <3>1 DEF RequestAsSaid, Current
    <3>. DEFINE row == rows[Current]
    <3>3. \A tags : AsPatched(request.patch, tags) \cap masters'.tags
                     = (AsPatched(request.patch, tags) \cap masters.tags) \ gone
      BY <2>2
    <3>4. AsPatched(request.patch, rows'[Current].tags) \cap masters'.tags
            = (AsPatched(request.patch, row.tags) \cap masters.tags) \ gone
      BY <2>2, <3>2 DEF AsPatched
    <3>5. request.tags \cap masters'.tags = (request.tags \cap masters.tags) \ gone
      BY <2>2
    <3>6. Level(row, rows'[Current])
      BY <2>2, <3>2
    <3>. QED BY <3>2, <3>3, <3>4, <3>5, <3>6 DEF ReadIsCurrent, EntityRead, SameRow, Level
  <2>. QED BY <1>1, <2>1, <2>3, <2>4
<1>. QED
  BY <1>2, <1>3, <1>4, <1>5, <1>6, <1>7, <1>8, <1>9, <1>10, <1>11, <1>12, <1>13, <1>14,
     <1>16, <1>17, <1>18, <1>19, <1>20, <1>21, <1>22, <1>23 DEF BulkNext, Fields

(* BulkEditDialog.vue and TasksService.bulkUpdate: what the server writes is *)
(* what was confirmed, of a task that was ticked and on the screen, whatever *)
(* was unticked, hidden, entered anew or removed from the masters since, and *)
(* of a task another changes meanwhile besides what update had read of it.   *)
THEOREM BulkAsConfirmedAlways == BulkSpec => BulkAsConfirmed
<1>1. BulkInit => BulkInv
  <2>. SUFFICES ASSUME BulkInit PROVE BulkInv
    OBVIOUS
  <2>1. PICK one \in Batch :
          BulkFrom([t \in Batch |-> [Fresh EXCEPT !.tags = IF t = one THEN LabelCodes ELSE {},
                                                   !.openSubs = t # one]])
    BY DEF BulkInit
  <2>2. RowsKnown
    BY <2>1 DEF BulkFrom, RowsKnown, Fresh, NotClosed
  <2>3. DialogKnown
    BY <2>1 DEF BulkFrom, DialogKnown, Picked0, Fields
  <2>. QED BY <2>1, <2>2, <2>3 DEF BulkFrom, BulkInv
<1>2. BulkInv /\ [BulkNext]_bulkVars =>
        [\A t \in Batch :
           request # Undefined /\ request' # request /\ rows'[t] # rows[t]
              /\ intrusions' = intrusions
           => t \in promised.tasks /\ AsSaid(rows[t], rows'[t], promised.says)]_bulkVars
  <2>. SUFFICES ASSUME BulkInv, BulkNext, NEW t \in Batch,
                       request # Undefined, request' # request, rows'[t] # rows[t],
                       intrusions' = intrusions
                PROVE  t \in promised.tasks /\ AsSaid(rows[t], rows'[t], promised.says)
    OBVIOUS
  <2>1. RowsKnown /\ RequestAsSaid /\ rows' # rows
    BY DEF BulkInv
  <2>2. intrusions' # intrusions + 1
    BY <2>1 DEF RowsKnown
  <2>3. WriteTask
    BY <2>1, <2>2 DEF BulkNext, ToggleTaskSelected, ToggleSelectAll, Refilter, OpenBulkEdit,
       CloseBulkEdit, ToggleField, PickValue, ToggleTag, SwitchMode, Entering, GoConfirm, BackToEdit,
       ApplyBulkEdit, ReadTags, FindEntity, AssertAssignable, CountIncomplete, SelectForSave, Goes,
       BulkFails, BulkDone, BulkAnswered, RefreshedAfter, HeardOfOthers, MasterChanged, OtherEdit,
       RowChanged, Intruded, Intrusion
  <2>. DEFINE first == Current
  <2>4. /\ request.ids # <<>> /\ request.at = "write"
        /\ Touches => request.tags \subseteq masters.tags
        /\ rows' = [rows EXCEPT ![first] = Saved(rows[first])]
    BY <2>1, <2>3 DEF WriteTask, Serves
  <2>5. first \in promised.tasks /\ first \in Batch
    BY <2>1, <2>4 DEF RequestAsSaid, Current
  <2>. HIDE DEF first
  <2>6. t = first /\ rows'[t] = Saved(rows[t])
    BY <2>1, <2>4, <2>5 DEF RowsKnown
  <2>. QED BY <2>1, <2>4, <2>5, <2>6, SavedAsSaid DEF first
<1>. QED BY <1>1, <1>2, BulkStep, PTL DEF BulkSpec, BulkAsConfirmed

(* Types: what the dialog holds, what is sent of it, and how far the server  *)
(* has got with it.                                                          *)
BulkCounts == presses \in 0..MaxPresses /\ intrusions \in 0..MaxIntrusions

ListKnown ==
    /\ tasksList \subseteq Batch /\ hidden \subseteq Batch /\ selectedTaskIds \subseteq Batch
    /\ bulkEditOpen \in BOOLEAN /\ dialogStep \in {"edit", "confirm"}

PickedKnown ==
    /\ DOMAIN picked = Fields /\ enabled \subseteq Fields /\ tagMode \in {"add", "remove"}
    /\ picked["status"] \in Stages \cup {Undefined}
    /\ picked["assignee"] \in Assignees \cup {Undefined} /\ picked["tags"] \subseteq LabelCodes

TableKnown ==
    /\ DOMAIN masters = {"tags", "assignable"} /\ rows \in [Batch -> TaskRow]
    /\ masters.tags \subseteq LabelCodes /\ NoAssignee \in masters.assignable

RequestKnown ==
    /\ DOMAIN request = {"ids", "patch", "at", "tags", "ent", "old", "raced", "state"}
    /\ request.patch.status \in Stages \cup {Undefined}
    /\ request.patch.assignee \in Assignees \cup {Undefined}
    /\ request.ids \in Seq(Batch)
    /\ request.at \in Stops /\ request.tags \subseteq LabelCodes
    /\ request.ent \in TaskRow \cup {Undefined} /\ request.old \in TaskRow \cup {Undefined}
    /\ request.at \in {"member", "subs", "select", "write"} => request.ent \in TaskRow
    /\ request.at = "write" => request.old \in TaskRow
    /\ request.state \in {"serving", "done", "failed", "refreshing"}

BulkTypes ==
    /\ ListKnown /\ PickedKnown /\ TableKnown
    /\ request # Undefined => RequestKnown

LEMMA BulkBounds == MaxPresses \in Nat /\ MaxIntrusions \in Nat
  BY BulkAssumption

LEMMA BulkCountsStep == BulkCounts /\ [BulkNext]_bulkVars => BulkCounts'
<1>. SUFFICES ASSUME BulkCounts, [BulkNext]_bulkVars PROVE BulkCounts'
  OBVIOUS
<1>1. Press \/ Intrusion \/ Follows
  BY DEF BulkNext, bulkVars, ToggleTaskSelected, ToggleSelectAll, Refilter, OpenBulkEdit,
     CloseBulkEdit, ToggleField, PickValue, ToggleTag, SwitchMode, Entering, GoConfirm, BackToEdit,
     ApplyBulkEdit, ReadTags, FindEntity, AssertAssignable, CountIncomplete, SelectForSave,
     Goes, Serves, WriteTask, Serving, BulkFails, BulkDone,
     BulkAnswered, RefreshedAfter, HeardOfOthers, MasterChanged, OtherEdit, RowChanged, Intruded, Follows
<1>. QED BY <1>1, BulkBounds DEF Press, Intrusion, Follows, BulkCounts

LEMMA NotClosedOf == NotClosed \subseteq Batch
  BY DEF NotClosed

LEMMA PickedStep ==
    ASSUME PickedKnown, [BulkNext]_bulkVars
    PROVE  PickedKnown'
<1>. USE DEF PickedKnown
<1>1. CASE UNCHANGED <<picked, enabled, tagMode>>
  BY <1>1
<1>2. CASE OpenBulkEdit
  BY <1>2 DEF OpenBulkEdit, Picked0, Fields
<1>3. ASSUME NEW f \in Fields, ToggleField(f) PROVE PickedKnown'
  BY <1>3 DEF ToggleField
<1>4. ASSUME NEW s \in Stages, PickValue("status", s) PROVE PickedKnown'
  BY <1>4 DEF PickValue, Fields
<1>5. ASSUME NEW a \in Assignees, PickValue("assignee", a) PROVE PickedKnown'
  BY <1>5 DEF PickValue, Fields
<1>6. ASSUME NEW l \in LabelCodes, ToggleTag(l) PROVE PickedKnown'
  BY <1>6 DEF ToggleTag, Fields
<1>7. CASE SwitchMode
  BY <1>7 DEF SwitchMode
<1>8. ASSUME ~OpenBulkEdit, \A f \in Fields : ~ToggleField(f), \A l \in LabelCodes : ~ToggleTag(l),
             ~SwitchMode, \A s \in Stages : ~PickValue("status", s),
             \A a \in Assignees : ~PickValue("assignee", a)
      PROVE  UNCHANGED <<picked, enabled, tagMode>>
  BY <1>8 DEF BulkNext, bulkVars, dialogVars, ToggleTaskSelected, ToggleSelectAll, Refilter,
     CloseBulkEdit, GoConfirm, BackToEdit, ApplyBulkEdit, ReadTags, FindEntity, AssertAssignable, CountIncomplete, SelectForSave,Goes, Serves, WriteTask,
     Serving, BulkFails, BulkDone, BulkAnswered, RefreshedAfter, HeardOfOthers, MasterChanged, OtherEdit, RowChanged,
     Intruded
<1>. QED BY <1>1, <1>2, <1>3, <1>4, <1>5, <1>6, <1>7, <1>8

LEMMA ListStep ==
    ASSUME ListKnown, [BulkNext]_bulkVars
    PROVE  ListKnown'
<1>. USE DEF ListKnown
<1>1. CASE UNCHANGED bulkVars
  BY <1>1 DEF bulkVars, dialogVars
<1>2. ASSUME NEW t \in Batch, ToggleTaskSelected(t) PROVE ListKnown'
  BY <1>2 DEF ToggleTaskSelected, dialogVars
<1>3. CASE ToggleSelectAll
  BY <1>3 DEF ToggleSelectAll, dialogVars, Selectable
<1>4. ASSUME NEW out \in SUBSET Batch, Refilter(out) PROVE ListKnown'
  BY <1>4 DEF Refilter, dialogVars
<1>5. CASE OpenBulkEdit \/ CloseBulkEdit
  BY <1>5 DEF OpenBulkEdit, CloseBulkEdit, dialogVars
<1>6. CASE Entering
  BY <1>6 DEF Entering
<1>7. CASE GoConfirm \/ BackToEdit
  BY <1>7 DEF GoConfirm, BackToEdit
<1>8. CASE ApplyBulkEdit
  BY <1>8 DEF ApplyBulkEdit, dialogVars
<1>9. CASE Serving
  BY <1>9 DEF Serving, dialogVars
<1>10. CASE BulkAnswered
  BY <1>10 DEF BulkAnswered, dialogVars
<1>11. CASE RefreshedAfter \/ HeardOfOthers
  BY <1>11, NotClosedOf DEF RefreshedAfter, HeardOfOthers, dialogVars
<1>12. CASE Intruded
  BY <1>12 DEF Intruded, dialogVars
<1>. QED
  BY <1>1, <1>2, <1>3, <1>4, <1>5, <1>6, <1>7, <1>8, <1>9, <1>10, <1>11, <1>12 DEF BulkNext,
     ToggleField, PickValue, ToggleTag, SwitchMode, ReadTags, FindEntity, AssertAssignable,
     CountIncomplete, SelectForSave, Serves, WriteTask, BulkFails, BulkDone,
     MasterChanged, OtherEdit, RowChanged

LEMMA SavedTyped ==
    ASSUME TableKnown, RequestKnown, request.at = "write", NEW t \in Batch
    PROVE  Saved(rows[t]) \in TaskRow
<1>. DEFINE row == rows[t]
            Kept(f) == request.old.here /\ Wanted(f) = request.old[f]
            status == IF Kept("status") THEN row["status"] ELSE Wanted("status")
            assignee == IF Kept("assignee") THEN row["assignee"] ELSE Wanted("assignee")
            tags == IF Touches THEN request.tags ELSE row.tags
<1>1. row \in TaskRow /\ request.ent \in TaskRow
  BY DEF TableKnown, RequestKnown
<1>2. Wanted("status") \in Stages /\ Wanted("assignee") \in Assignees
  BY <1>1 DEF RequestKnown, Wanted, TaskRow
<1>3. Saved(row) = [row EXCEPT !.status = status, !.assignee = assignee, !.here = TRUE, !.tags = tags]
  BY DEF Saved
<1>4. status \in Stages /\ assignee \in Assignees /\ tags \subseteq LabelCodes
  <2>1. row.status \in Stages /\ row.assignee \in Assignees /\ row.tags \subseteq LabelCodes
    BY <1>1 DEF TaskRow
  <2>2. request.tags \subseteq LabelCodes
    BY DEF RequestKnown
  <2>. HIDE DEF Kept, row
  <2>. QED BY <1>2, <2>1, <2>2
<1>. HIDE DEF row, status, assignee, tags
<1>5. [row EXCEPT !.status = status, !.assignee = assignee, !.here = TRUE, !.tags = tags] \in TaskRow
  BY <1>1, <1>4 DEF TaskRow
<1>. QED BY <1>3, <1>5 DEF row

LEMMA TableStep ==
    ASSUME TableKnown, request # Undefined => RequestKnown, [BulkNext]_bulkVars
    PROVE  TableKnown'
<1>1. CASE UNCHANGED <<rows, masters>>
  BY <1>1 DEF TableKnown
<1>2. CASE WriteTask
  <2>. DEFINE t == Current
  <2>1. /\ request # Undefined /\ request.ids # <<>> /\ request.at = "write" /\ UNCHANGED masters
        /\ rows' = rows \/ rows' = [rows EXCEPT ![t] = Saved(rows[t])]
    BY <1>2 DEF WriteTask, Serves, Serving
  <2>2. t \in Batch
    BY <2>1 DEF RequestKnown, Current
  <2>. HIDE DEF t
  <2>3. Saved(rows[t]) \in TaskRow
    BY <2>1, <2>2, SavedTyped
  <2>. QED BY <2>1, <2>2, <2>3 DEF TableKnown
<1>3. ASSUME NEW t \in Batch, OtherEdit(t) PROVE TableKnown'
  <2>1. PICK row \in TaskRow : RowChanged(t, row)
    <3>1. rows[t] \in TaskRow /\ masters.tags \subseteq LabelCodes
      BY DEF TableKnown
    <3>2. ASSUME NEW l \in masters.tags
          PROVE  [rows[t] EXCEPT !.tags = IF l \in @ THEN @ \ {l} ELSE @ \cup {l}] \in TaskRow
      BY <3>1 DEF TaskRow
    <3>3. ASSUME NEW s \in Stages PROVE [rows[t] EXCEPT !.status = s] \in TaskRow
      BY <3>1 DEF TaskRow
    <3>4. /\ [rows[t] EXCEPT !.openSubs = ~@] \in TaskRow
          /\ [rows[t] EXCEPT !.here = FALSE, !.openSubs = FALSE, !.tags = {}] \in TaskRow
      BY <3>1 DEF TaskRow
    <3>. QED BY <1>3, <3>2, <3>3, <3>4 DEF OtherEdit
  <2>2. rows' = [rows EXCEPT ![t] = row] /\ UNCHANGED masters
    BY <2>1 DEF RowChanged
  <2>. QED BY <2>2 DEF TableKnown
<1>4. CASE MasterChanged
  <2>1. CASE \E l \in masters.tags : /\ masters' = [masters EXCEPT !.tags = @ \ {l}]
                                     /\ rows' = [t \in Batch |-> [rows[t] EXCEPT !.tags = @ \ {l}]]
    <3>1. PICK l \in masters.tags : /\ masters' = [masters EXCEPT !.tags = @ \ {l}]
                                    /\ rows' = [t \in Batch |-> [rows[t] EXCEPT !.tags = @ \ {l}]]
      BY <2>1
    <3>2. ASSUME NEW t \in Batch PROVE [rows[t] EXCEPT !.tags = @ \ {l}] \in TaskRow
      BY DEF TaskRow, TableKnown
    <3>. QED BY <3>1, <3>2 DEF TableKnown
  <2>2. CASE \E a \in masters.assignable \ {NoAssignee} :
               masters' = [masters EXCEPT !.assignable = @ \ {a}] /\ UNCHANGED rows
    BY <2>2 DEF TableKnown
  <2>. QED BY <1>4, <2>1, <2>2 DEF MasterChanged
<1>. QED
  BY <1>1, <1>2, <1>3, <1>4 DEF BulkNext, bulkVars, ToggleTaskSelected, ToggleSelectAll, Refilter,
     OpenBulkEdit, CloseBulkEdit, ToggleField, PickValue, ToggleTag, SwitchMode, Entering, GoConfirm,
     BackToEdit, ApplyBulkEdit, ReadTags, FindEntity, AssertAssignable, CountIncomplete, SelectForSave,
     Goes, Serves, Serving, BulkFails, BulkDone, BulkAnswered, RefreshedAfter, HeardOfOthers

Served ==
    \/ ReadTags \/ FindEntity \/ AssertAssignable \/ CountIncomplete \/ SelectForSave \/ WriteTask
    \/ BulkFails \/ BulkDone

LEMMA RequestStep ==
    ASSUME ListKnown, PickedKnown, TableKnown, request # Undefined => RequestKnown,
           [BulkNext]_bulkVars, request' # Undefined
    PROVE  RequestKnown'
<1>1. CASE UNCHANGED <<request, promised>>
  BY <1>1 DEF RequestKnown
<1>2. CASE ApplyBulkEdit
  <2>1. TargetTaskIds \subseteq Batch /\ IsFiniteSet(TargetTaskIds)
    BY BulkAssumption, FS_Subset DEF TargetTaskIds, Selectable, ListKnown
  <2>2. SetToSeq(TargetTaskIds) \in Seq(Batch)
    BY <2>1, InARow
  <2>3. BuildPatch.status \in Stages \cup {Undefined} /\ BuildPatch.assignee \in Assignees \cup {Undefined}
    BY DEF BuildPatch, PickedKnown, Fields
  <2>4. request' = Turned(SetToSeq(TargetTaskIds), BuildPatch)
    BY <1>2 DEF ApplyBulkEdit
  <2>. QED BY <2>2, <2>3, <2>4 DEF RequestKnown, Turned, Stops
<1>3. CASE NextTask /\ request # Undefined /\ request.ids # <<>>
  <2>1. Tail(request.ids) \in Seq(Batch)
    BY <1>3 DEF RequestKnown
  <2>. QED BY <1>3, <2>1 DEF NextTask, Turned, RequestKnown, Stops
<1>4. ASSUME Served, ~(NextTask /\ request.ids # <<>>) PROVE RequestKnown'
  <2>1. request # Undefined /\ RequestKnown
    BY <1>4 DEF Served, ReadTags, FindEntity, AssertAssignable, CountIncomplete, SelectForSave,
       WriteTask, Serves, BulkFails, BulkDone, Serving
  <2>2. CASE WriteTask \/ BulkFails \/ BulkDone
    <3>1. PICK state \in {"failed", "done"} : request' = [request EXCEPT !.state = state]
      BY <1>4, <2>2 DEF WriteTask, Serves, BulkFails, BulkDone
    <3>. QED BY <2>1, <3>1 DEF RequestKnown
  <2>3. CASE ReadTags
    <3>1. rows[Current].tags \subseteq LabelCodes
      BY <2>1, <2>3 DEF ReadTags, Serves, TableKnown, TaskRow, RequestKnown, Current
    <3>. QED BY <2>1, <2>3, <3>1 DEF ReadTags, RequestKnown, Stops
  <2>4. CASE FindEntity
    <3>1. rows[Current] \in TaskRow
      BY <2>1, <2>4 DEF FindEntity, Serves, TableKnown, RequestKnown, Current
    <3>2. request' = [request EXCEPT !.at = "member", !.ent = rows[Current]]
      BY <1>4, <2>4 DEF FindEntity, Serves
    <3>. QED BY <2>1, <3>1, <3>2 DEF RequestKnown, Stops
  <2>5. CASE AssertAssignable \/ CountIncomplete
    <3>1. PICK next \in {"subs", "select"} : request' = [request EXCEPT !.at = next]
      BY <1>4, <2>5 DEF AssertAssignable, CountIncomplete, Goes, Serves
    <3>2. request.ent \in TaskRow
      BY <2>1, <2>5 DEF AssertAssignable, CountIncomplete, Serves, RequestKnown
    <3>. QED BY <2>1, <3>1, <3>2 DEF RequestKnown, Stops
  <2>6. CASE SelectForSave
    <3>1. rows[Current] \in TaskRow /\ request.ent \in TaskRow
      BY <2>1, <2>6 DEF SelectForSave, Serves, TableKnown, RequestKnown, Current
    <3>2. request' = [request EXCEPT !.at = "write", !.old = rows[Current],
                                     !.tags = Renewed(@) \cap masters.tags]
      BY <2>6 DEF SelectForSave
    <3>3. Renewed(request.tags) \cap masters.tags \subseteq LabelCodes
      BY DEF TableKnown
    <3>. HIDE DEF Renewed
    <3>. QED BY <2>1, <3>1, <3>2, <3>3 DEF RequestKnown, Stops
  <2>. QED BY <1>4, <2>2, <2>3, <2>4, <2>5, <2>6 DEF Served
<1>5. CASE BulkAnswered
  BY <1>5 DEF BulkAnswered, RequestKnown
<1>6. CASE RefreshedAfter
  BY <1>6 DEF RefreshedAfter
<1>7. ASSUME NEW t \in Batch, OtherEdit(t) PROVE RequestKnown'
  <2>1. PICK raced : /\ UNCHANGED promised /\ request # Undefined
                     /\ request' = [request EXCEPT !.raced = raced]
    BY <1>7 DEF OtherEdit, RowChanged, Intruded
  <2>. QED BY <2>1 DEF RequestKnown
<1>8. CASE Served
  <2>1. request # Undefined
    BY <1>8 DEF Served, ReadTags, FindEntity, AssertAssignable, CountIncomplete, SelectForSave,
       WriteTask, Serves, BulkFails, BulkDone, Serving
  <2>. QED BY <1>3, <1>4, <1>8, <2>1
<1>. QED
  BY <1>1, <1>2, <1>5, <1>6, <1>7, <1>8 DEF BulkNext, bulkVars, Served, ToggleTaskSelected,
     ToggleSelectAll, Refilter, OpenBulkEdit, CloseBulkEdit, ToggleField, PickValue, ToggleTag,
     SwitchMode, Entering, GoConfirm, BackToEdit, HeardOfOthers, MasterChanged, Intruded

(* BulkEditDialog.vue and TasksService.bulkUpdate: what list, dialog, request *)
(* and tables hold, however far the server has got.                           *)
THEOREM BulkTypeCorrect == BulkSpec => []BulkTypeOK
<1>1. BulkInit => BulkTypes /\ BulkCounts
  <2>. SUFFICES ASSUME BulkInit PROVE BulkTypes /\ BulkCounts
    OBVIOUS
  <2>. DEFINE first(one) == [t \in Batch |-> [Fresh EXCEPT !.tags = IF t = one THEN LabelCodes ELSE {},
                                                           !.openSubs = t # one]]
  <2>1. PICK one \in Batch : BulkFrom(first(one))
    BY DEF BulkInit
  <2>2. Fresh \in TaskRow
    <3>1. (CHOOSE s \in Stages \ Terminal : TRUE) \in Stages
      BY BulkAssumption
    <3>. QED BY <3>1, BulkAssumption DEF Fresh, TaskRow
  <2>3. DOMAIN first(one) = Batch /\ \A t \in Batch : first(one)[t] \in TaskRow
    BY <2>2 DEF TaskRow
  <2>9. first(one) \in [Batch -> TaskRow]
    BY <2>3
  <2>. HIDE DEF first
  <2>4. TableKnown
    BY <2>1, <2>9, BulkAssumption DEF BulkFrom, TableKnown
  <2>5. ListKnown
    BY <2>1, NotClosedOf DEF BulkFrom, ListKnown
  <2>6. PickedKnown
    BY <2>1 DEF BulkFrom, PickedKnown, Picked0, Fields
  <2>7. BulkCounts
    BY <2>1, BulkBounds DEF BulkFrom, BulkCounts
  <2>8. request = Undefined
    BY <2>1 DEF BulkFrom
  <2>. QED BY <2>4, <2>5, <2>6, <2>7, <2>8 DEF BulkTypes
<1>2. BulkTypes /\ [BulkNext]_bulkVars => BulkTypes'
  BY ListStep, PickedStep, TableStep, RequestStep DEF BulkTypes
<1>3. BulkTypes /\ BulkCounts => BulkTypeOK
  <2>. SUFFICES ASSUME BulkTypes, BulkCounts PROVE BulkTypeOK
    OBVIOUS
  <2>1. rows \in [Batch -> TaskRow]
    BY DEF BulkTypes, TableKnown
  <2>2. request # Undefined => ToSet(request.ids) \subseteq Batch
    BY DEF BulkTypes, RequestKnown, ToSet
  <2>3. picked.status = picked["status"] /\ picked.assignee = picked["assignee"]
        /\ picked.tags = picked["tags"]
    OBVIOUS
  <2>. QED BY <2>1, <2>2, <2>3 DEF BulkTypes, BulkCounts, BulkTypeOK, ListKnown, PickedKnown,
              TableKnown, RequestKnown, Stops
<1>. QED BY <1>1, <1>2, <1>3, BulkCountsStep, PTL DEF BulkSpec

---------------------------------------------------------------------------
(* Notices: the bell *)

Row == [id : Nat, to : Accounts, actor : Accounts, kind : Tellings, change : Nat, site : Places,
        read : BOOLEAN]

(* Rows are numbered in the order they are written.                          *)
NotesKnown ==
    /\ notes \subseteq Row /\ IsFiniteSet(notes)
    /\ \A n \in notes : n.id <= Cardinality(notes)
    /\ \A m, n \in notes : m.id = n.id => m = n
HookKnown(h) ==
    /\ DOMAIN h = {"actor", "change", "site", "queue", "filtered"}
    /\ h.actor \in Accounts /\ h.site \in Places

(* A row that is to be shown when it comes is not counted yet; all others are. *)
Coming(i) == i \notin DOMAIN items /\ \E j \in DOMAIN pushed : pushed[j].id = i
CountedRows == {n \in Mine : ~n.read /\ ~Coming(n.id)}

(* The bell shows the newest of what there is, but for the rows on their way  *)
(* to it and the one whose marking (a set of at most one) is still to be      *)
(* answered.                                                                  *)
BellShows(marking) ==
    /\ \A i \in DOMAIN items : \E n \in Mine : n.id = i
    /\ \A n \in Mine : IF n.id \in DOMAIN items THEN n.read <=> items[n.id] \/ n.id \in marking
                       ELSE IF Coming(n.id) THEN ~n.read ELSE ~Newest(n)
    /\ unread = Cardinality(CountedRows) + (IF marking = {} THEN 0 ELSE 1)

(* What a request has found is so, and what it has done not yet shown.       *)
RefreshTrue(c) ==
    /\ DOMAIN c = {"kind", "n", "list", "count"}
    /\ c.list # Nobody => /\ c.list.ids = {n.id : n \in {n \in Mine : Newest(n)}}
                          /\ c.list.read = {n.id : n \in {n \in Mine : n.read}}
    /\ c.count # Nobody => c.count.n = Cardinality({n \in Mine : ~n.read})
ReadTrue(c) ==
    /\ DOMAIN c = {"kind", "n", "id", "held", "served"}
    /\ c.held /\ c.id \in DOMAIN items /\ ~items[c.id]
    /\ IF c.served THEN BellShows({c.id}) ELSE BellShows({})
ReadAllTrue(c) ==
    /\ DOMAIN c = {"kind", "n", "served"}
    /\ pushed = <<>>
    /\ IF c.served THEN /\ \A i \in DOMAIN items : \E n \in Mine : n.id = i
                        /\ \A n \in Mine : n.read /\ (n.id \notin DOMAIN items => ~Newest(n))
       ELSE BellShows({})
CallTrue(c) ==
    \/ c.kind = "refresh" /\ RefreshTrue(c)
    \/ c.kind = "read" /\ ReadTrue(c)
    \/ c.kind = "readAll" /\ ReadAllTrue(c)

(* Nothing is lost sight of while there is at most one request at a time.    *)
InSight ==
    /\ stream.state # "closed" /\ (stream.state = "open" => stream.sees = visible)
    /\ \A j \in DOMAIN pushed : \E n \in Mine : n.id = pushed[j].id
    /\ \/ calls = {} /\ BellShows({})
       \/ \E c : calls = {c} /\ CallTrue(c)

BellInv ==
    /\ NotesKnown
    /\ \A h \in hooks : HookKnown(h)
    /\ pushed \in Seq(Row)
    /\ items \in [DOMAIN items -> BOOLEAN]
    /\ astray \in BOOLEAN
    /\ DOMAIN stream = {"state", "sees"}
    /\ stream.state = "closed" => /\ calls = {} /\ pushed = <<>> /\ DOMAIN items = {} /\ unread = 0
                                  /\ astray
    /\ ~astray => InSight

LEMMA MarksKeepRows ==
    ASSUME NotesKnown, NEW marks, notes' = Marked(marks), visible' = visible
    PROVE  /\ NotesKnown'
           /\ \A n \in Mine : \E m \in Mine' : m.id = n.id /\ m.read = (n.read \/ n \in marks)
           /\ \A m \in Mine' : \E n \in Mine : m.id = n.id /\ m.read = (n.read \/ n \in marks)
           /\ {m \in Mine' : ~m.read} = {n \in Mine : ~n.read} \ marks
           /\ MineIds' = MineIds
<1>. DEFINE mark(n) == [n EXCEPT !.read = n.read \/ n \in marks]
            f == [n \in notes |-> mark(n)]
<1>1. ASSUME NEW n \in notes
      PROVE  /\ mark(n) \in Row
             /\ mark(n).id = n.id /\ mark(n).to = n.to /\ mark(n).site = n.site
             /\ mark(n).read = (n.read \/ n \in marks)
             /\ n.read \/ n \in marks \/ mark(n) = n
  BY DEF NotesKnown, Row
<1>2. notes' = {mark(n) : n \in notes}
  BY DEF Marked
<1>. HIDE DEF mark
<1>3. f \in Bijection(notes, notes')
  <2>1. f \in Injection(notes, notes')
    BY <1>1, <1>2 DEF NotesKnown, Injection, IsInjective
  <2>2. f \in Surjection(notes, notes')
    BY <1>2 DEF Surjection
  <2>. QED BY <2>1, <2>2 DEF Bijection
<1>4. IsFiniteSet(notes') /\ Cardinality(notes') = Cardinality(notes)
  <2>1. ExistsBijection(notes, notes')
    BY <1>3 DEF ExistsBijection
  <2>. QED BY <2>1, FS_Bijection DEF NotesKnown
<1>5. NotesKnown'
  <2>1. notes' \subseteq Row
    BY <1>1, <1>2
  <2>2. \A n \in notes : n.id <= Cardinality(notes)
    BY DEF NotesKnown
  <2>3. \A m \in notes' : m.id <= Cardinality(notes')
    BY <1>1, <1>2, <1>4, <2>2
  <2>4. ASSUME NEW m \in notes', NEW n \in notes', m.id = n.id PROVE m = n
    <3>1. PICK k \in notes, l \in notes : m = mark(k) /\ n = mark(l)
      BY <1>2
    <3>2. k = l
      BY <1>1, <2>4, <3>1 DEF NotesKnown
    <3>. QED BY <3>1, <3>2
  <2>. QED BY <1>4, <2>1, <2>3, <2>4 DEF NotesKnown
<1>6. Mine' = {mark(n) : n \in Mine}
  BY <1>1, <1>2 DEF Mine
<1>7. \A n \in Mine : n \in notes
  BY DEF Mine
<1>8. {m \in Mine' : ~m.read} = {n \in Mine : ~n.read} \ marks
  <2>1. ASSUME NEW m \in Mine', ~m.read PROVE m \in {n \in Mine : ~n.read} \ marks
    <3>1. PICK n \in Mine : m = mark(n)
      BY <1>6
    <3>2. ~n.read /\ n \notin marks
      BY <1>1, <1>7, <2>1, <3>1
    <3>3. m = n
      BY <1>1, <1>7, <3>1, <3>2
    <3>. QED BY <3>2, <3>3
  <2>2. ASSUME NEW n \in Mine, ~n.read, n \notin marks PROVE n \in Mine'
    BY <1>1, <1>6, <1>7, <2>2
  <2>. QED BY <2>1, <2>2
<1>9. \A n \in Mine : \E m \in Mine' : m.id = n.id /\ m.read = (n.read \/ n \in marks)
  BY <1>1, <1>6, <1>7
<1>10. \A m \in Mine' : \E n \in Mine : m.id = n.id /\ m.read = (n.read \/ n \in marks)
  BY <1>1, <1>6, <1>7
<1>11. MineIds' = MineIds
  BY <1>9, <1>10 DEF MineIds
<1>. QED BY <1>5, <1>8, <1>9, <1>10, <1>11

LEMMA OnwardKnown ==
    ASSUME NEW h, HookKnown(h), NEW k \in Onward(h)
    PROVE  HookKnown(k)
BY DEF Onward, HookKnown

(* What concerns neither what Me may see nor the bell.                       *)
LEMMA BellUndisturbed ==
    ASSUME BellInv, NotesKnown', Mine' = Mine, \A h \in hooks' : h \in hooks \/ HookKnown(h),
           UNCHANGED <<visible, stream, pushed, items, unread, calls>>, astray' \in {astray, TRUE}
    PROVE  BellInv'
<1>1. InSight => InSight'
  <2>1. \A c : RefreshTrue(c) => RefreshTrue(c)'
    BY DEF RefreshTrue, Newest, MineIds
  <2>2. \A m : BellShows(m) => BellShows(m)'
    BY DEF BellShows, CountedRows, Coming, Newest, MineIds
  <2>3. \A c : ReadTrue(c) => ReadTrue(c)'
    BY <2>2 DEF ReadTrue
  <2>4. \A c : ReadAllTrue(c) => ReadAllTrue(c)'
    BY <2>2 DEF ReadAllTrue, Newest, MineIds
  <2>. QED BY <2>1, <2>2, <2>3, <2>4 DEF InSight, CallTrue
<1>2. \A h \in hooks' : HookKnown(h)
  BY DEF BellInv
<1>. QED BY <1>1, <1>2 DEF BellInv, HookKnown

LEMMA ChangesDisturbNoBell ==
    ASSUME BellInv, NEW s \in Places, NEW a \in Accounts, NEW q, Begin(s, a, q)
    PROVE  BellInv'
<1>. DEFINE hook == [actor |-> a, change |-> changes + 1, site |-> s, queue |-> q, filtered |-> FALSE]
<1>1. HookKnown(hook)
  BY DEF HookKnown
<1>2. \A k \in Onward(hook) : HookKnown(k)
  BY <1>1, OnwardKnown
<1>3. /\ hooks' = hooks \cup Onward(hook) /\ UNCHANGED <<notes, visible, bellVars>>
  BY DEF Begin
<1>. HIDE DEF hook
<1>4. NotesKnown' /\ Mine' = Mine
  BY <1>3 DEF BellInv, NotesKnown, Mine
<1>. QED BY <1>2, <1>3, <1>4, BellUndisturbed DEF bellVars

LEMMA FilterDisturbsNoBell ==
    ASSUME BellInv, NEW h \in hooks, FilterByPreference(h)
    PROVE  BellInv'
<1>. DEFINE left == {u \in Head(h.queue).to : <<u, Head(h.queue).kind>> \notin off}
            hook == [h EXCEPT !.queue[1].to = left, !.filtered = TRUE]
<1>1. HookKnown(hook)
  BY DEF HookKnown, BellInv
<1>2. \A k \in Onward(hook) : HookKnown(k)
  BY <1>1, OnwardKnown
<1>3. hooks' = (hooks \ {h}) \cup Onward(hook) /\ UNCHANGED <<notes, visible, bellVars>>
  BY DEF FilterByPreference
<1>. HIDE DEF hook
<1>4. NotesKnown' /\ Mine' = Mine
  BY <1>3 DEF BellInv, NotesKnown, Mine
<1>. QED BY <1>2, <1>3, <1>4, BellUndisturbed DEF bellVars

(* Rows that come push others further down.                                  *)
LEMMA FewerNewer ==
    ASSUME MineIds \subseteq MineIds', IsFiniteSet(MineIds'), NEW n, ~Newest(n)
    PROVE  ~Newest(n)'
<1>. DEFINE newer == {i \in MineIds : i > n.id}
            newerNow == {i \in MineIds' : i > n.id}
<1>1. newer \subseteq newerNow /\ newerNow \subseteq MineIds'
  OBVIOUS
<1>2. ~(Cardinality(newer) < Limit)
  BY DEF Newest
<1>. HIDE DEF newer, newerNow
<1>3. /\ Cardinality(newer) \in Nat /\ Cardinality(newerNow) \in Nat
      /\ Cardinality(newer) <= Cardinality(newerNow)
  BY <1>1, FS_Subset, FS_CardinalityType
<1>4. Limit \in Nat
  BY NoticesAssumption
<1>5. ~(Cardinality(newerNow) < Limit)
  BY <1>2, <1>3, <1>4
<1>. QED BY <1>5 DEF newerNow, Newest

LEMMA SaveKeepsBell ==
    ASSUME BellInv, ToldInv, NEW h \in hooks, NEW u \in Accounts, SaveAndPush(h, u)
    PROVE  BellInv'
<1>. DEFINE e == Head(h.queue)
            note == [id |-> Cardinality(notes) + 1, to |-> u, actor |-> h.actor, kind |-> e.kind,
                     change |-> h.change, site |-> h.site, read |-> FALSE]
            hook == [h EXCEPT !.queue[1].to = @ \ {u}]
<1>1. /\ notes' = notes \cup {note}
      /\ hooks' = (hooks \ {h}) \cup Onward(hook)
      /\ pushed' = IF u = Me /\ stream.state = "open" /\ note.site \in stream.sees
                   THEN Append(pushed, note) ELSE pushed
      /\ astray' = (astray \/ (u = Me /\ Busy))
      /\ UNCHANGED <<visible, stream, items, unread, calls>>
  BY DEF SaveAndPush, IsVisibleFor
<1>2. note \in Row /\ IsFiniteSet(notes) /\ Cardinality(notes) \in Nat
  <2>1. e.kind \in Tellings
    <3>1. h.queue \in Seq(Emitted) /\ h.queue # <<>>
      BY DEF ToldInv, TellsOnce
    <3>2. e \in Emitted
      BY <3>1
    <3>. QED BY <3>2 DEF Emitted
  <2>2. h.change \in Nat /\ h.actor \in Accounts /\ h.site \in Places
    BY DEF BellInv, HookKnown, ToldInv
  <2>3. IsFiniteSet(notes) /\ Cardinality(notes) \in Nat
    BY FS_CardinalityType DEF BellInv, NotesKnown
  <2>. HIDE DEF e
  <2>. QED BY <2>1, <2>2, <2>3 DEF Row
<1>3. \A k \in Onward(hook) : HookKnown(k)
  <2>1. HookKnown(hook)
    BY DEF HookKnown, BellInv
  <2>. QED BY <2>1, OnwardKnown
<1>4. note.id = Cardinality(notes) + 1 /\ note.to = u /\ ~note.read
  OBVIOUS
<1>. HIDE DEF note, hook
<1>5. NotesKnown' /\ note \notin notes
  <2>1. note \notin notes
    BY <1>2, <1>4 DEF BellInv, NotesKnown, Row
  <2>2. Cardinality(notes') = Cardinality(notes) + 1 /\ IsFiniteSet(notes')
    BY <1>1, <1>2, <2>1, FS_AddElement
  <2>3. \A n \in notes : n.id \in Nat /\ n.id <= Cardinality(notes)
    BY DEF BellInv, NotesKnown, Row
  <2>4. \A n \in notes' : n.id <= Cardinality(notes')
    BY <1>1, <1>2, <1>4, <2>2, <2>3
  <2>5. \A m, n \in notes' : m.id = n.id => m = n
    BY <1>1, <1>2, <1>4, <2>3 DEF BellInv, NotesKnown
  <2>. QED BY <1>1, <1>2, <2>1, <2>2, <2>4, <2>5 DEF BellInv, NotesKnown
<1>6. Mine' = IF u = Me /\ note.site \in visible THEN Mine \cup {note} ELSE Mine
  BY <1>1, <1>4 DEF Mine
<1>7. \A g \in hooks' : HookKnown(g)
  BY <1>1, <1>3 DEF BellInv
<1>8. pushed' \in Seq(Row) /\ astray' \in BOOLEAN
  BY <1>1, <1>2 DEF BellInv
<1>9. CASE astray'
  BY <1>1, <1>5, <1>7, <1>8, <1>9 DEF BellInv
<1>10. CASE ~astray' /\ ~(u = Me /\ note.site \in visible)
  <2>1. Mine' = Mine /\ pushed' = pushed
    BY <1>1, <1>6, <1>10 DEF BellInv, InSight
  <2>. QED BY <1>1, <1>5, <1>7, <1>8, <1>10, <2>1, BellUndisturbed DEF BellInv
<1>11. CASE ~astray' /\ u = Me /\ note.site \in visible
  <2>1. /\ calls = {} /\ stream.state = "open" /\ stream.sees = visible
        /\ BellShows({}) /\ InSight
    BY <1>1, <1>11 DEF BellInv, Busy, InSight
  <2>2. Mine' = Mine \cup {note} /\ pushed' = Append(pushed, note)
    BY <1>1, <1>6, <1>11, <2>1
  <2>3. /\ \A j \in DOMAIN pushed : j \in DOMAIN pushed' /\ pushed'[j] = pushed[j]
        /\ \E j \in DOMAIN pushed' : pushed'[j] = note
        /\ \A j \in DOMAIN pushed' : j \in DOMAIN pushed \/ pushed'[j] = note
    <3>1. pushed \in Seq(Row)
      BY DEF BellInv
    <3>. QED BY <1>2, <2>2, <3>1
  <2>4. note.id \notin DOMAIN items
    BY <1>2, <1>4, <2>1 DEF BellShows, Mine, BellInv, NotesKnown, Row
  <2>0. PICK fresh : fresh = note
    OBVIOUS
  <2>5. /\ \A i : i # fresh.id => (Coming(i)' <=> Coming(i))
        /\ Coming(fresh.id)'
    <3>1. items' = items
      BY <1>1
    <3>2. \A j \in DOMAIN pushed : j \in DOMAIN pushed' /\ pushed'[j] = pushed[j]
      BY <2>3
    <3>3. \A j \in DOMAIN pushed' : j \in DOMAIN pushed \/ pushed'[j] = fresh
      BY <2>0, <2>3
    <3>4. \E j \in DOMAIN pushed' : pushed'[j] = fresh
      BY <2>0, <2>3
    <3>5. fresh.id \notin DOMAIN items
      BY <2>0, <2>4
    <3>. QED BY <3>1, <3>2, <3>3, <3>4, <3>5 DEF Coming
  <2>6. BellShows({})'
    <3>1. \A n \in Mine : n.id # fresh.id
      BY <1>2, <1>4, <2>0 DEF Mine, BellInv, NotesKnown, Row
    <3>2. Mine' = Mine \cup {fresh}
      BY <2>0, <2>2
    <3>3. CountedRows' = CountedRows
      BY <2>5, <3>1, <3>2 DEF CountedRows
    <3>4. \A n \in Mine : ~Newest(n) => ~Newest(n)'
      <4>1. MineIds \subseteq MineIds'
        BY <3>2 DEF MineIds
      <4>2. MineIds' \subseteq 0..Cardinality(notes')
        BY <1>5 DEF MineIds, Mine, NotesKnown, Row
      <4>3. Cardinality(notes') \in Nat
        BY <1>5, FS_CardinalityType DEF NotesKnown
      <4>4. IsFiniteSet(MineIds')
        <5>1. PICK k : k = Cardinality(notes')
          OBVIOUS
        <5>2. IsFiniteSet(0..k)
          BY <4>3, <5>1, FS_Interval
        <5>. QED BY <4>2, <5>1, <5>2, FS_Subset
      <4>. QED BY <4>1, <4>4, FewerNewer
    <3>5. \A n \in Mine : IF n.id \in DOMAIN items' THEN n.read <=> items'[n.id] \/ n.id \in {}
                         ELSE IF Coming(n.id)' THEN ~n.read ELSE ~Newest(n)'
      BY <1>1, <2>1, <2>5, <3>1, <3>4 DEF BellShows
    <3>6. \A i \in DOMAIN items' : \E n \in Mine' : n.id = i
      BY <1>1, <2>1, <2>2 DEF BellShows
    <3>7. unread' = Cardinality(CountedRows') + 0
      BY <1>1, <2>1, <3>3 DEF BellShows
    <3>8. fresh.id \notin DOMAIN items' /\ Coming(fresh.id)' /\ ~fresh.read
      BY <1>1, <1>4, <2>0, <2>4, <2>5
    <3>. QED BY <3>2, <3>5, <3>6, <3>7, <3>8 DEF BellShows
  <2>7. \A j \in DOMAIN pushed' : \E n \in Mine' : n.id = pushed'[j].id
    BY <2>1, <2>2, <2>3 DEF InSight
  <2>8. InSight'
    BY <1>1, <2>1, <2>6, <2>7 DEF InSight
  <2>. QED BY <1>1, <1>5, <1>7, <1>8, <2>1, <2>8 DEF BellInv
<1>. QED BY <1>8, <1>9, <1>10, <1>11

LEMMA CountedIsFinite ==
    ASSUME NotesKnown
    PROVE  /\ IsFiniteSet(CountedRows) /\ Cardinality(CountedRows) \in Nat
           /\ \A n \in Mine : n \in notes
<1>1. CountedRows \subseteq notes
  BY DEF CountedRows, Mine
<1>2. IsFiniteSet(CountedRows)
  BY <1>1, FS_Subset DEF NotesKnown
<1>. QED BY <1>2, FS_CardinalityType DEF Mine

(* Where no row is written or marked.                                        *)
LEMMA BellOfTheSameRows ==
    ASSUME BellInv, UNCHANGED <<notes, hooks>>, pushed' \in Seq(Row),
           items' \in [DOMAIN items' -> BOOLEAN], astray' \in BOOLEAN,
           DOMAIN stream' = {"state", "sees"}, stream'.state # "closed", ~astray' => InSight'
    PROVE  BellInv'
<1>1. NotesKnown' /\ \A h \in hooks' : HookKnown(h)
  BY DEF BellInv, NotesKnown
<1>. QED BY <1>1 DEF BellInv

(* The answer of the server: the one request is the same request, answered.  *)
LEMMA BellAnswered ==
    ASSUME BellInv, NotesKnown', {n.id : n \in Mine'} = {n.id : n \in Mine}, NEW c \in calls,
           NEW d, ServedWith(c, d), InSight /\ calls = {c} => CallTrue(d)'
    PROVE  BellInv'
<1>1. /\ calls' = (calls \ {c}) \cup {d}
      /\ UNCHANGED <<visible, hooks, stream, pushed, items, unread, astray>>
  BY DEF ServedWith
<1>2. \A h \in hooks' : HookKnown(h)
  BY <1>1 DEF BellInv
<1>3. stream.state # "closed"
  BY DEF BellInv
<1>4. ASSUME ~astray' PROVE InSight'
  <2>1. InSight
    BY <1>1, <1>4 DEF BellInv
  <2>2. calls = {c} /\ calls' = {d}
    BY <1>1, <2>1 DEF InSight
  <2>3. \A i : (\E n \in Mine : n.id = i) => \E n \in Mine' : n.id = i
    OBVIOUS
  <2>. QED BY <1>1, <2>1, <2>2, <2>3 DEF InSight
<1>. QED BY <1>1, <1>2, <1>3, <1>4 DEF BellInv

LEMMA ListServedKeepsBell ==
    ASSUME BellInv, NEW c \in calls, ServeList(c) \/ ServeCount(c)
    PROVE  BellInv'
<1>1. NotesKnown' /\ Mine' = Mine /\ \A n : Newest(n)' <=> Newest(n)
  BY DEF ServeList, ServeCount, ServedWith, BellInv, NotesKnown, Mine, MineIds, Newest
<1>2. ASSUME InSight, calls = {c}, c.kind = "refresh" PROVE RefreshTrue(c)
  BY <1>2 DEF InSight, CallTrue
<1>3. CASE ServeList(c)
  <2>0. PICK d : d = [c EXCEPT !.list = [ids |-> {n.id : n \in {n \in Mine : Newest(n)}},
                                           read |-> {n.id : n \in {n \in Mine : n.read}}]]
    OBVIOUS
  <2>1. ServedWith(c, d) /\ c.kind = "refresh"
    BY <1>3, <2>0 DEF ServeList
  <2>2. RefreshTrue(c) => RefreshTrue(d)' /\ d.kind = "refresh"
    BY <1>1, <2>0, <2>1 DEF RefreshTrue
  <2>3. InSight /\ calls = {c} => CallTrue(d)'
    BY <1>2, <2>1, <2>2 DEF CallTrue
  <2>. QED BY <1>1, <2>1, <2>3, BellAnswered
<1>4. CASE ServeCount(c)
  <2>0. PICK d : d = [c EXCEPT !.count = [n |-> Cardinality({n \in Mine : ~n.read})]]
    OBVIOUS
  <2>1. ServedWith(c, d) /\ c.kind = "refresh"
    BY <1>4, <2>0 DEF ServeCount
  <2>2. RefreshTrue(c) => RefreshTrue(d)' /\ d.kind = "refresh"
    BY <1>1, <2>0, <2>1 DEF RefreshTrue
  <2>3. InSight /\ calls = {c} => CallTrue(d)'
    BY <1>2, <2>1, <2>2 DEF CallTrue
  <2>. QED BY <1>1, <2>1, <2>3, BellAnswered
<1>. QED BY <1>3, <1>4

LEMMA ReadServedKeepsBell ==
    ASSUME BellInv, NEW c \in calls, ServeRead(c)
    PROVE  BellInv'
<1>. DEFINE marks == {n \in notes : n.to = Me /\ n.id = c.id}
            d == [c EXCEPT !.served = TRUE]
<1>1. c.kind = "read" /\ ~c.served /\ notes' = Marked(marks) /\ ServedWith(c, d)
  BY DEF ServeRead
<1>2. UNCHANGED <<visible, pushed, items, unread>>
  BY <1>1 DEF ServedWith
<1>. HIDE DEF marks
<1>3. /\ NotesKnown'
      /\ \A n \in Mine : \E m \in Mine' : m.id = n.id /\ m.read = (n.read \/ n \in marks)
      /\ \A m \in Mine' : \E n \in Mine : m.id = n.id /\ m.read = (n.read \/ n \in marks)
      /\ {m \in Mine' : ~m.read} = {n \in Mine : ~n.read} \ marks
      /\ MineIds' = MineIds
  BY <1>1, <1>2, MarksKeepRows DEF BellInv
<1>4. {n.id : n \in Mine'} = {n.id : n \in Mine}
  BY <1>3
<1>5. ASSUME InSight, calls = {c} PROVE CallTrue(d)'
  <2>1. ReadTrue(c)
    BY <1>1, <1>5 DEF InSight, CallTrue
  <2>2. /\ BellShows({}) /\ c.id \in DOMAIN items /\ ~items[c.id] /\ c.held
        /\ DOMAIN c = {"kind", "n", "id", "held", "served"}
    BY <1>1, <2>1 DEF ReadTrue
  <2>3. PICK one \in Mine : one.id = c.id
    BY <2>2 DEF BellShows
  <2>4. ~one.read /\ one \in notes
    BY <2>2, <2>3 DEF BellShows, Mine
  <2>5. marks = {one}
    BY <2>3, <2>4 DEF marks, Mine, BellInv, NotesKnown
  <2>6. CountedRows' = CountedRows \ {one} /\ one \in CountedRows
    <3>1. \A i : Coming(i)' <=> Coming(i)
      BY <1>2 DEF Coming
    <3>. QED BY SMTT(40), <1>3, <2>2, <2>3, <2>4, <2>5, <3>1 DEF CountedRows, Coming
  <2>7. Cardinality(CountedRows') = Cardinality(CountedRows) - 1
    BY <2>6, CountedIsFinite, FS_RemoveElement DEF BellInv
  <2>8. unread' = Cardinality(CountedRows') + 1
    <3>1. unread = Cardinality(CountedRows) + 0
      BY <2>2 DEF BellShows
    <3>2. Cardinality(CountedRows) \in Nat
      BY CountedIsFinite DEF BellInv
    <3>. QED BY <1>2, <2>7, <3>1, <3>2
  <2>9. \A i \in DOMAIN items' : \E n \in Mine' : n.id = i
    BY <1>2, <1>3, <2>2 DEF BellShows
  <2>10. ASSUME NEW m \in Mine'
         PROVE  IF m.id \in DOMAIN items' THEN m.read <=> items'[m.id] \/ m.id \in {c.id}
                ELSE IF Coming(m.id)' THEN ~m.read ELSE ~Newest(m)'
    <3>1. PICK n \in Mine : m.id = n.id /\ m.read = (n.read \/ n \in marks)
      BY <1>3
    <3>2. n \in marks <=> n.id = c.id
      BY <2>3, <2>5 DEF Mine, BellInv, NotesKnown
    <3>3. n.read \in BOOLEAN
      BY DEF Mine, BellInv, NotesKnown, Row
    <3>4. CASE n.id \in DOMAIN items
      <4>1. n.read <=> items[n.id]
        BY <2>2, <3>4 DEF BellShows
      <4>. QED BY <1>2, <3>1, <3>2, <3>3, <3>4, <4>1
    <3>5. CASE n.id \notin DOMAIN items
      <4>1. IF Coming(n.id) THEN ~n.read ELSE ~Newest(n)
        BY <2>2, <3>5 DEF BellShows
      <4>2. n.id # c.id
        BY <2>2, <3>5
      <4>3. (Coming(m.id)' <=> Coming(n.id)) /\ (Newest(m)' <=> Newest(n))
        BY <1>2, <1>3, <3>1 DEF Coming, Newest
      <4>. QED BY <1>2, <3>1, <3>2, <3>3, <3>5, <4>1, <4>2, <4>3
    <3>. QED BY <3>4, <3>5
  <2>11. BellShows({c.id})'
    BY <2>8, <2>9, <2>10, <1>2 DEF BellShows
  <2>12. ReadTrue(d)' /\ d.kind = "read"
    BY <1>1, <1>2, <2>2, <2>11 DEF ReadTrue
  <2>. QED BY <2>12 DEF CallTrue
<1>. HIDE DEF d
<1>. QED BY <1>1, <1>3, <1>4, <1>5, BellAnswered

LEMMA AllReadServedKeepsBell ==
    ASSUME BellInv, NEW c \in calls, ServeReadAll(c)
    PROVE  BellInv'
<1>. DEFINE marks == {n \in notes : n.to = Me}
            d == [c EXCEPT !.served = TRUE]
<1>1. c.kind = "readAll" /\ ~c.served /\ notes' = Marked(marks) /\ ServedWith(c, d)
  BY DEF ServeReadAll
<1>2. UNCHANGED <<visible, pushed, items, unread>>
  BY <1>1 DEF ServedWith
<1>. HIDE DEF marks
<1>3. /\ NotesKnown'
      /\ \A n \in Mine : \E m \in Mine' : m.id = n.id /\ m.read = (n.read \/ n \in marks)
      /\ \A m \in Mine' : \E n \in Mine : m.id = n.id /\ m.read = (n.read \/ n \in marks)
      /\ MineIds' = MineIds
  BY <1>1, <1>2, MarksKeepRows DEF BellInv
<1>4. {n.id : n \in Mine'} = {n.id : n \in Mine}
  BY <1>3
<1>5. ASSUME InSight, calls = {c} PROVE CallTrue(d)'
  <2>1. ReadAllTrue(c)
    BY <1>1, <1>5 DEF InSight, CallTrue
  <2>2. BellShows({}) /\ pushed = <<>> /\ DOMAIN c = {"kind", "n", "served"}
    BY <1>1, <2>1 DEF ReadAllTrue
  <2>3. \A i \in DOMAIN items' : \E m \in Mine' : m.id = i
    <3>1. \A i \in DOMAIN items : \E n \in Mine : n.id = i
      BY <2>2 DEF BellShows
    <3>. QED BY <1>2, <1>3, <3>1
  <2>4. \A m \in Mine' : m.id \notin DOMAIN items' => ~Newest(m)'
    <3>1. SUFFICES ASSUME NEW m \in Mine', m.id \notin DOMAIN items' PROVE ~Newest(m)'
      OBVIOUS
    <3>2. PICK n \in Mine : m.id = n.id
      BY <1>3
    <3>3. ~Coming(n.id)
      BY <2>2 DEF Coming
    <3>4. ~Newest(n)
      BY <1>2, <2>2, <3>1, <3>2, <3>3 DEF BellShows
    <3>. QED BY <1>3, <3>2, <3>4 DEF Newest
  <2>5. \A m \in Mine' : m.read
    <3>1. \A n \in Mine : n \in marks
      BY DEF Mine, marks
    <3>. QED BY <1>3, <3>1
  <2>6. ReadAllTrue(d)' /\ d.kind = "readAll"
    BY <1>1, <1>2, <2>2, <2>3, <2>4, <2>5 DEF ReadAllTrue
  <2>. QED BY <2>6 DEF CallTrue
<1>. HIDE DEF d
<1>. QED BY <1>1, <1>3, <1>4, <1>5, BellAnswered

LEMMA ShownStaysShown ==
    ASSUME UNCHANGED <<notes, visible, pushed, items, unread>>
    PROVE  /\ Mine' = Mine
           /\ \A m : BellShows(m) => BellShows(m)'
           /\ \A c : CallTrue(c) => CallTrue(c)'
<1>1. Mine' = Mine /\ \A n : Newest(n)' <=> Newest(n)
  BY DEF Mine, MineIds, Newest
<1>2. \A m : BellShows(m) => BellShows(m)'
  BY <1>1 DEF BellShows, CountedRows, Coming
<1>3. \A c : RefreshTrue(c) => RefreshTrue(c)'
  BY <1>1 DEF RefreshTrue
<1>4. \A c : ReadTrue(c) => ReadTrue(c)'
  BY <1>2 DEF ReadTrue
<1>5. \A c : ReadAllTrue(c) => ReadAllTrue(c)'
  BY <1>1, <1>2 DEF ReadAllTrue
<1>. QED BY <1>1, <1>2, <1>3, <1>4, <1>5 DEF CallTrue

LEMMA MountKeepsBell ==
    ASSUME BellInv, MountBell
    PROVE  BellInv'
<1>1. /\ UNCHANGED <<notes, hooks, visible, pushed, items, unread>>
      /\ stream' = IF stream.state = "closed" THEN [stream EXCEPT !.state = "connecting"]
                   ELSE stream
      /\ calls' = calls \cup {RefreshCall}
      /\ astray' = IF stream.state = "closed" THEN FALSE ELSE astray \/ calls # {}
  BY DEF MountBell, Bell, Mixed
<1>2. PICK d : d = RefreshCall
  OBVIOUS
<1>3. CallTrue(d)'
  BY <1>2 DEF RefreshCall, CallTrue, RefreshTrue
<1>4. /\ DOMAIN stream' = {"state", "sees"} /\ stream'.state # "closed"
      /\ pushed' \in Seq(Row) /\ items' \in [DOMAIN items' -> BOOLEAN] /\ astray' \in BOOLEAN
  BY <1>1 DEF BellInv
<1>5. ASSUME ~astray' PROVE InSight'
  <2>1. CASE stream.state = "closed"
    <3>1. calls' = {d} /\ pushed' = <<>> /\ stream'.state = "connecting"
      BY <1>1, <1>2, <2>1 DEF BellInv
    <3>. QED BY <1>3, <3>1 DEF InSight
  <2>2. CASE stream.state # "closed"
    <3>1. InSight /\ stream' = stream /\ calls' = {d}
      BY <1>1, <1>2, <1>5, <2>2 DEF BellInv
    <3>. QED BY <1>1, <1>3, <3>1, ShownStaysShown DEF InSight
  <2>. QED BY <2>1, <2>2
<1>. QED BY <1>1, <1>4, <1>5, BellOfTheSameRows

LEMMA StreamKeepsBell ==
    ASSUME BellInv, Subscribed \/ StreamBreaks
    PROVE  BellInv'
<1>1. /\ UNCHANGED <<notes, hooks, visible, items, unread, calls>>
      /\ DOMAIN stream' = {"state", "sees"} /\ stream'.state # "closed"
      /\ astray' \in BOOLEAN /\ pushed' \in Seq(Row)
      /\ ~astray' => ~astray /\ pushed' = pushed
      /\ stream'.state = "open" => stream'.sees = visible
  <2>1. CASE Subscribed
    BY <2>1 DEF Subscribed, Bell, Follow, BellInv
  <2>2. CASE StreamBreaks
    <3>1. /\ UNCHANGED <<notes, hooks, visible, items, unread, calls>>
          /\ stream' = [stream EXCEPT !.state = "connecting"]
          /\ pushed' = <<>> /\ astray' = (astray \/ pushed # <<>>)
      BY <2>2 DEF StreamBreaks, Bell
    <3>2. DOMAIN stream = {"state", "sees"} /\ astray \in BOOLEAN
      BY DEF BellInv
    <3>3. astray' \in BOOLEAN /\ (~astray' => ~astray /\ pushed' = pushed)
      BY <3>1, <3>2
    <3>. QED BY <3>1, <3>2, <3>3
  <2>. QED BY <2>1, <2>2
<1>2. items' \in [DOMAIN items' -> BOOLEAN]
  BY <1>1 DEF BellInv
<1>3. ASSUME ~astray' PROVE InSight'
  <2>1. InSight /\ UNCHANGED <<pushed, calls>>
    BY <1>1, <1>3 DEF BellInv
  <2>. QED BY <1>1, <2>1, ShownStaysShown DEF InSight
<1>. QED BY <1>1, <1>2, <1>3, BellOfTheSameRows

(* A row comes by the stream: it counts unless a refresh has brought it.     *)
LEMMA ComingIsShown ==
    ASSUME BellInv, OnMessage, \A j \in DOMAIN pushed : \E n \in Mine : n.id = pushed[j].id,
           NEW m, BellShows(m), m \subseteq DOMAIN items
    PROVE  BellShows(m)'
<1>1. /\ UNCHANGED <<notes, visible>>
      /\ pushed # <<>> /\ pushed' = Tail(pushed)
      /\ IF Head(pushed).id \in DOMAIN items THEN UNCHANGED <<items, unread>>
         ELSE items' = With(Head(pushed).id, FALSE) /\ unread' = unread + 1
  BY DEF OnMessage, Follow, Bell, AlreadyIn
<1>2. PICK here : here = Head(pushed).id
  OBVIOUS
<1>3. pushed \in Seq(Row) /\ Head(pushed) = pushed[1] /\ 1 \in DOMAIN pushed
  BY <1>1 DEF BellInv
<1>4. \A j \in DOMAIN pushed : pushed[j].id = here \/ \E k \in DOMAIN pushed' : pushed'[k] = pushed[j]
  <2>1. ASSUME NEW j \in DOMAIN pushed, j # 1 PROVE j - 1 \in DOMAIN pushed' /\ pushed'[j - 1] = pushed[j]
    BY <1>1, <1>3, <2>1
  <2>. QED BY <1>2, <1>3, <2>1
<1>5. Mine' = Mine /\ \A n : Newest(n)' <=> Newest(n)
  BY <1>1 DEF Mine, MineIds, Newest
<1>6. \A j \in DOMAIN pushed' : j + 1 \in DOMAIN pushed /\ pushed'[j] = pushed[j + 1]
  BY <1>1, <1>3
<1>7. CASE here \in DOMAIN items
  <2>1. UNCHANGED <<items, unread>>
    BY <1>1, <1>2, <1>7
  <2>2. \A i : Coming(i)' <=> Coming(i)
    BY <1>4, <1>6, <1>7, <2>1 DEF Coming
  <2>3. CountedRows' = CountedRows
    BY <1>5, <2>2 DEF CountedRows
  <2>. QED BY <1>5, <2>1, <2>2, <2>3 DEF BellShows
<1>8. CASE here \notin DOMAIN items
  <2>1. /\ items' = With(here, FALSE) /\ unread' = unread + 1
    BY <1>1, <1>2, <1>8
  <2>2. /\ DOMAIN items' = DOMAIN items \cup {here} /\ ~items'[here]
        /\ \A i \in DOMAIN items : items'[i] = items[i]
    BY <1>8, <2>1 DEF With
  <2>3. PICK one \in Mine : one.id = here
    BY <1>2, <1>3
  <2>4. /\ Coming(here) /\ ~Coming(here)'
        /\ \A i : i # here => (Coming(i)' <=> Coming(i))
    BY <1>2, <1>3, <1>4, <1>6, <1>8, <2>2 DEF Coming
  <2>5. ~one.read
    BY <1>8, <2>3, <2>4 DEF BellShows
  <2>6. \A n \in Mine : n.id = here => n = one
    BY <2>3 DEF Mine, BellInv, NotesKnown
  <2>7. CountedRows' = CountedRows \cup {one} /\ one \notin CountedRows
    BY <1>5, <2>3, <2>4, <2>5, <2>6 DEF CountedRows
  <2>8. unread' = Cardinality(CountedRows') + (IF m = {} THEN 0 ELSE 1)
    <3>1. unread = Cardinality(CountedRows) + (IF m = {} THEN 0 ELSE 1)
      BY DEF BellShows
    <3>2. IsFiniteSet(CountedRows) /\ Cardinality(CountedRows) \in Nat
      BY CountedIsFinite DEF BellInv
    <3>3. PICK k : k = Cardinality(CountedRows)
      OBVIOUS
    <3>4. unread = k + (IF m = {} THEN 0 ELSE 1) /\ k \in Nat
      BY <3>1, <3>2, <3>3
    <3>5. Cardinality(CountedRows') = k + 1
      BY <2>7, <3>2, <3>3, FS_AddElement
    <3>6. unread + 1 = k + 1 + (IF m = {} THEN 0 ELSE 1)
      BY <3>4
    <3>. QED BY <2>1, <3>5, <3>6
  <2>9. \A i \in DOMAIN items' : \E n \in Mine' : n.id = i
    BY <1>5, <2>2, <2>3 DEF BellShows
  <2>10. ASSUME NEW n \in Mine
         PROVE  IF n.id \in DOMAIN items' THEN n.read <=> items'[n.id] \/ n.id \in m
                ELSE IF Coming(n.id)' THEN ~n.read ELSE ~Newest(n)'
    <3>1. CASE n.id = here
      BY <1>8, <2>2, <2>3, <2>5, <2>6, <3>1
    <3>2. CASE n.id # here /\ n.id \in DOMAIN items
      BY <2>2, <3>2 DEF BellShows
    <3>3. CASE n.id # here /\ n.id \notin DOMAIN items
      <4>1. IF Coming(n.id) THEN ~n.read ELSE ~Newest(n)
        BY <3>3 DEF BellShows
      <4>. QED BY <1>5, <2>2, <2>4, <3>3, <4>1
    <3>. QED BY <3>1, <3>2, <3>3
  <2>. QED BY <1>5, <2>8, <2>9, <2>10 DEF BellShows
<1>. QED BY <1>7, <1>8

LEMMA MessageKeepsBell ==
    ASSUME BellInv, OnMessage
    PROVE  BellInv'
<1>1. /\ UNCHANGED <<notes, hooks, visible, stream, calls, astray>>
      /\ pushed # <<>> /\ pushed' = Tail(pushed)
      /\ \/ items' = items
         \/ items' = With(Head(pushed).id, FALSE)
  BY DEF OnMessage, Follow, Bell
<1>2. pushed' \in Seq(Row) /\ \A j \in DOMAIN pushed' : \E i \in DOMAIN pushed : pushed'[j] = pushed[i]
  <2>1. pushed \in Seq(Row)
    BY DEF BellInv
  <2>2. ASSUME NEW j \in DOMAIN pushed' PROVE j + 1 \in DOMAIN pushed /\ pushed'[j] = pushed[j + 1]
    BY <1>1, <2>1
  <2>. QED BY <1>1, <2>1, <2>2
<1>3. items' \in [DOMAIN items' -> BOOLEAN] /\ DOMAIN items \subseteq DOMAIN items'
      /\ \A i \in DOMAIN items : items'[i] = items[i] \/ i = Head(pushed).id
  BY <1>1 DEF BellInv, With
<1>4. stream.state # "closed" /\ DOMAIN stream = {"state", "sees"} /\ astray \in BOOLEAN
  BY <1>1 DEF BellInv
<1>5. ASSUME ~astray' PROVE InSight'
  <2>1. InSight
    BY <1>1, <1>5 DEF BellInv
  <2>2. Mine' = Mine /\ \A n : Newest(n)' <=> Newest(n)
    BY <1>1 DEF Mine, MineIds, Newest
  <2>3. \A j \in DOMAIN pushed' : \E n \in Mine' : n.id = pushed'[j].id
    BY <1>2, <2>1, <2>2 DEF InSight
  <2>4. \A m : BellShows(m) /\ m \subseteq DOMAIN items => BellShows(m)'
    BY <2>1, ComingIsShown DEF InSight
  <2>5. BellShows({}) => BellShows({})'
    BY <2>4
  <2>6. ASSUME NEW c, CallTrue(c) PROVE CallTrue(c)'
    <3>1. RefreshTrue(c) => RefreshTrue(c)'
      BY <2>2 DEF RefreshTrue
    <3>2. ReadTrue(c) => ReadTrue(c)'
      <4>1. SUFFICES ASSUME ReadTrue(c) PROVE ReadTrue(c)'
        OBVIOUS
      <4>2. BellShows({c.id}) => BellShows({c.id})'
        BY <2>4, <4>1 DEF ReadTrue
      <4>3. c.id \in DOMAIN items' /\ ~items'[c.id]
        BY <1>1, <4>1 DEF ReadTrue, With
      <4>. QED BY <2>5, <4>1, <4>2, <4>3 DEF ReadTrue
    <3>3. ~ReadAllTrue(c)
      BY <1>1 DEF ReadAllTrue
    <3>. QED BY <2>6, <3>1, <3>2, <3>3 DEF CallTrue
  <2>. QED BY <1>1, <2>1, <2>3, <2>5, <2>6 DEF InSight
<1>. QED BY <1>1, <1>2, <1>3, <1>4, <1>5, BellOfTheSameRows

LEMMA RefreshedKeepsBell ==
    ASSUME BellInv, NEW c \in calls, Refreshed(c)
    PROVE  BellInv'
<1>1. /\ UNCHANGED <<notes, hooks, visible, stream, pushed>>
      /\ c.kind = "refresh" /\ c.list # Nobody /\ c.count # Nobody
      /\ items' = [i \in c.list.ids |-> i \in c.list.read]
      /\ unread' = c.count.n
      /\ calls' = Replaced(calls \ {c})
      /\ astray' = (astray \/ \E j \in DOMAIN pushed : pushed[j].id \notin c.list.ids)
  BY DEF Refreshed, Follow, Bell
<1>2. /\ DOMAIN stream = {"state", "sees"} /\ stream.state # "closed"
      /\ pushed \in Seq(Row) /\ astray \in BOOLEAN
  BY DEF BellInv
<1>3. items' \in [DOMAIN items' -> BOOLEAN] /\ astray' \in BOOLEAN
  BY <1>1, <1>2
<1>4. ASSUME ~astray' PROVE InSight'
  <2>1. InSight /\ calls = {c} /\ RefreshTrue(c)
    BY <1>1, <1>4 DEF BellInv, InSight, CallTrue
  <2>2. Mine' = Mine /\ \A n : Newest(n)' <=> Newest(n)
    BY <1>1 DEF Mine, MineIds, Newest
  <2>3. /\ c.list.ids = {n.id : n \in {n \in Mine : Newest(n)}}
        /\ c.list.read = {n.id : n \in {n \in Mine : n.read}}
        /\ c.count.n = Cardinality({n \in Mine : ~n.read})
    BY <1>1, <2>1 DEF RefreshTrue
  <2>4. DOMAIN items' = c.list.ids
    BY <1>1
  <2>5. \A n \in Mine : n.read \in BOOLEAN /\ \A m \in Mine : m.id = n.id => m = n
    BY DEF Mine, BellInv, NotesKnown, Row
  <2>6. \A n \in Mine : n.id \in DOMAIN items' => (n.read <=> items'[n.id])
    BY <1>1, <2>3, <2>5
  <2>7. \A i : ~Coming(i)'
    BY <1>1, <1>4, <2>4 DEF Coming
  <2>8. CountedRows' = {n \in Mine : ~n.read}
    BY <2>2, <2>7 DEF CountedRows
  <2>9. unread' = Cardinality(CountedRows') + 0
    <3>1. {n \in Mine : ~n.read} \subseteq notes
      BY DEF Mine
    <3>2. Cardinality({n \in Mine : ~n.read}) \in Nat
      BY <3>1, FS_Subset, FS_CardinalityType DEF BellInv, NotesKnown
    <3>3. PICK k : k = Cardinality({n \in Mine : ~n.read})
      OBVIOUS
    <3>4. Cardinality(CountedRows') = k
      BY <2>8, <3>3
    <3>. QED BY <1>1, <2>3, <3>2, <3>3, <3>4
  <2>10. BellShows({})'
    <3>1. \A i \in DOMAIN items' : \E n \in Mine : n.id = i
      BY <2>3, <2>4
    <3>2. \A n \in Mine : n.id \notin DOMAIN items' => ~Newest(n)
      BY <2>3, <2>4
    <3>. QED BY <2>2, <2>6, <2>7, <2>9, <3>1, <3>2 DEF BellShows
  <2>11. calls' = {}
    BY <1>1, <2>1 DEF Replaced
  <2>. QED BY <1>1, <2>1, <2>2, <2>10, <2>11 DEF InSight
<1>. QED BY <1>1, <1>2, <1>3, <1>4, BellOfTheSameRows

LEMMA MarkingKeepsBell ==
    ASSUME BellInv, MarkAllRead \/ \E i : MarkRead(i)
    PROVE  BellInv'
<1>1. /\ UNCHANGED <<notes, hooks, visible, stream, pushed, items, unread>>
      /\ stream.state # "closed" /\ astray' \in BOOLEAN
      /\ ~astray' => ~astray /\ calls = {}
  <2>1. CASE MarkAllRead
    <3>1. /\ UNCHANGED <<notes, hooks, visible, stream, pushed, items, unread>>
          /\ unread > 0 /\ astray' = ((astray \/ calls # {}) \/ pushed # <<>>)
      BY <2>1 DEF MarkAllRead, Bell, Mixed
    <3>2. stream.state # "closed"
      BY <3>1 DEF BellInv
    <3>3. astray' \in BOOLEAN /\ (~astray' => ~astray /\ calls = {})
      BY <3>1
    <3>. QED BY <3>1, <3>2, <3>3
  <2>2. CASE \E i : MarkRead(i)
    BY <2>2 DEF MarkRead, Bell, Mixed, BellInv
  <2>. QED BY <2>1, <2>2
<1>2. ASSUME ~astray' PROVE InSight'
  <2>1. InSight /\ BellShows({}) /\ calls = {}
    BY <1>1, <1>2 DEF BellInv, InSight
  <2>2. \E c : calls' = {c} /\ CallTrue(c)
    <3>1. CASE MarkAllRead
      <4>1. PICK c : c = [kind |-> "readAll", n |-> doings, served |-> FALSE]
        OBVIOUS
      <4>2. calls' = {c} /\ pushed = <<>>
        BY <1>2, <2>1, <3>1, <4>1 DEF MarkAllRead
      <4>3. CallTrue(c)
        BY <2>1, <4>1, <4>2 DEF CallTrue, ReadAllTrue
      <4>. QED BY <4>2, <4>3
    <3>2. CASE \E i : MarkRead(i)
      <4>1. PICK i : MarkRead(i)
        BY <3>2
      <4>2. PICK c : c = [kind |-> "read", n |-> doings, id |-> i, held |-> TRUE, served |-> FALSE]
        OBVIOUS
      <4>3. calls' = {c} /\ i \in DOMAIN items /\ ~items[i]
        BY <2>1, <4>1, <4>2 DEF MarkRead
      <4>4. CallTrue(c)
        BY <2>1, <4>2, <4>3 DEF CallTrue, ReadTrue
      <4>. QED BY <4>3, <4>4
    <3>. QED BY <3>1, <3>2
  <2>. QED BY <1>1, <2>1, <2>2, ShownStaysShown DEF InSight
<1>3. /\ DOMAIN stream' = {"state", "sees"} /\ stream'.state # "closed"
      /\ pushed' \in Seq(Row) /\ items' \in [DOMAIN items' -> BOOLEAN]
  BY <1>1 DEF BellInv
<1>. QED BY <1>1, <1>2, <1>3, BellOfTheSameRows

LEMMA MarkedOneKeepsBell ==
    ASSUME BellInv, NEW c \in calls, MarkedRead(c)
    PROVE  BellInv'
<1>1. /\ UNCHANGED <<notes, hooks, visible, stream, pushed, astray>>
      /\ c.kind = "read" /\ c.served
      /\ items' = IF c.held THEN With(c.id, TRUE) ELSE items
      /\ unread' = IF unread = 0 THEN 0 ELSE unread - 1
      /\ calls' = calls \ {c}
  BY DEF MarkedRead, Follow, Bell
<1>2. /\ DOMAIN stream = {"state", "sees"} /\ stream.state # "closed"
      /\ pushed \in Seq(Row) /\ astray \in BOOLEAN
  BY DEF BellInv
<1>3. items' \in [DOMAIN items' -> BOOLEAN]
  BY <1>1 DEF BellInv, With
<1>4. ASSUME ~astray' PROVE InSight'
  <2>1. InSight /\ calls = {c} /\ ReadTrue(c)
    BY <1>1, <1>4 DEF BellInv, InSight, CallTrue
  <2>2. BellShows({c.id}) /\ c.held /\ c.id \in DOMAIN items
    BY <1>1, <2>1 DEF ReadTrue
  <2>3. /\ DOMAIN items' = DOMAIN items /\ items'[c.id]
        /\ \A i \in DOMAIN items : i # c.id => items'[i] = items[i]
    BY <1>1, <2>2 DEF With
  <2>4. Mine' = Mine /\ \A n : Newest(n)' <=> Newest(n)
    BY <1>1 DEF Mine, MineIds, Newest
  <2>5. CountedRows' = CountedRows /\ \A i : Coming(i)' <=> Coming(i)
    BY <1>1, <2>3, <2>4 DEF CountedRows, Coming
  <2>6. unread' = Cardinality(CountedRows') + 0
    <3>1. PICK k : k = Cardinality(CountedRows)
      OBVIOUS
    <3>2. k \in Nat
      BY <3>1, CountedIsFinite DEF BellInv
    <3>3. unread = k + 1
      BY <2>2, <3>1 DEF BellShows
    <3>4. unread' = k + 0
      BY <1>1, <3>2, <3>3
    <3>. QED BY <2>5, <3>1, <3>4
  <2>7. ASSUME NEW n \in Mine, n.id \in DOMAIN items PROVE n.read <=> items'[n.id]
    <3>1. n.read <=> items[n.id] \/ n.id \in {c.id}
      BY <2>2, <2>7 DEF BellShows
    <3>. QED BY <2>3, <2>7, <3>1
  <2>8. \A n \in Mine : n.id \notin DOMAIN items => IF Coming(n.id) THEN ~n.read ELSE ~Newest(n)
    BY <2>2 DEF BellShows
  <2>9. BellShows({})'
    <3>1. \A i \in DOMAIN items' : \E n \in Mine' : n.id = i
      BY <2>2, <2>3, <2>4 DEF BellShows
    <3>. QED BY <2>3, <2>4, <2>5, <2>6, <2>7, <2>8, <3>1 DEF BellShows
  <2>10. calls' = {}
    BY <1>1, <2>1
  <2>. QED BY <1>1, <2>1, <2>4, <2>9, <2>10 DEF InSight
<1>. QED BY <1>1, <1>2, <1>3, <1>4, BellOfTheSameRows

LEMMA MarkedAllKeepsBell ==
    ASSUME BellInv, NEW c \in calls, MarkedAllRead(c)
    PROVE  BellInv'
<1>1. /\ UNCHANGED <<notes, hooks, visible, stream, pushed, astray>>
      /\ c.kind = "readAll" /\ c.served
      /\ items' = [i \in DOMAIN items |-> TRUE] /\ unread' = 0
      /\ calls' = Replaced(calls \ {c})
  BY DEF MarkedAllRead, Follow, Bell
<1>2. /\ DOMAIN stream = {"state", "sees"} /\ stream.state # "closed"
      /\ pushed \in Seq(Row) /\ astray \in BOOLEAN
  BY DEF BellInv
<1>3. ASSUME ~astray' PROVE InSight'
  <2>1. InSight /\ calls = {c} /\ ReadAllTrue(c)
    BY <1>1, <1>3 DEF BellInv, InSight, CallTrue
  <2>2. /\ \A i \in DOMAIN items : \E n \in Mine : n.id = i
        /\ \A n \in Mine : n.read /\ (n.id \notin DOMAIN items => ~Newest(n))
        /\ pushed = <<>>
    BY <1>1, <2>1 DEF ReadAllTrue
  <2>3. DOMAIN items' = DOMAIN items /\ \A i \in DOMAIN items : items'[i]
    BY <1>1
  <2>4. Mine' = Mine /\ \A n : Newest(n)' <=> Newest(n)
    BY <1>1 DEF Mine, MineIds, Newest
  <2>5. CountedRows' = {} /\ \A i : ~Coming(i)'
    BY <1>1, <2>2, <2>4 DEF CountedRows, Coming
  <2>6. unread' = Cardinality(CountedRows') + 0
    BY <1>1, <2>5, FS_EmptySet
  <2>7. BellShows({})'
    BY <2>2, <2>3, <2>4, <2>5, <2>6 DEF BellShows
  <2>8. calls' = {}
    BY <1>1, <2>1 DEF Replaced
  <2>. QED BY <1>1, <2>1, <2>4, <2>7, <2>8 DEF InSight
<1>4. items' \in [DOMAIN items' -> BOOLEAN]
  BY <1>1
<1>. QED BY <1>1, <1>2, <1>3, <1>4, BellOfTheSameRows

LEMMA FailedCallKeepsBell ==
    ASSUME BellInv, NEW c \in calls, CallFails(c)
    PROVE  BellInv'
<1>1. /\ UNCHANGED <<notes, hooks, visible, stream, pushed, items, unread>>
      /\ calls' = calls \ {c}
      /\ astray' = (astray \/ c.kind = "refresh" \/ c.served)
  BY DEF CallFails, Follow, Bell
<1>2. /\ DOMAIN stream = {"state", "sees"} /\ stream.state # "closed"
      /\ pushed \in Seq(Row) /\ items \in [DOMAIN items -> BOOLEAN]
  BY DEF BellInv
<1>3. astray' \in BOOLEAN
  BY <1>1 DEF BellInv
<1>4. ASSUME ~astray' PROVE InSight'
  <2>1. InSight /\ calls = {c} /\ CallTrue(c) /\ ~c.served /\ c.kind # "refresh"
    BY <1>1, <1>4 DEF BellInv, InSight
  <2>2. BellShows({})
    BY <2>1 DEF CallTrue, ReadTrue, ReadAllTrue
  <2>3. calls' = {}
    BY <1>1, <2>1
  <2>. QED BY <1>1, <2>1, <2>2, <2>3, ShownStaysShown DEF InSight
<1>. QED BY <1>1, <1>2, <1>3, <1>4, BellOfTheSameRows

LEMMA BellStep == ToldInv /\ BellInv /\ [NoticesNext]_noticeVars => BellInv'
<1>. SUFFICES ASSUME ToldInv, BellInv, [NoticesNext]_noticeVars PROVE BellInv'
  OBVIOUS
<1>1. CASE UNCHANGED noticeVars
  <2>1. /\ UNCHANGED <<notes, visible, hooks, stream, pushed, items, unread, calls, astray>>
    BY <1>1 DEF noticeVars, bellVars
  <2>2. NotesKnown' /\ Mine' = Mine /\ \A h \in hooks' : h \in hooks
    BY <2>1 DEF BellInv, NotesKnown, Mine
  <2>. QED BY <2>1, <2>2, BellUndisturbed
<1>2. ASSUME NEW s \in Places, NEW a \in Accounts, NEW p, NEW q, NEW r, NEW m,
             OnTaskCreated(s, a, p) \/ OnSubtaskAssigned(s, a, p) \/ OnCommentMentioned(s, a, p)
             \/ OnTaskChanged(s, a, p, q, r, m)
      PROVE  BellInv'
  <2>1. \E queue : Begin(s, a, queue)
    BY <1>2 DEF OnTaskCreated, OnSubtaskAssigned, OnCommentMentioned, OnTaskChanged
  <2>. QED BY <2>1, ChangesDisturbNoBell
<1>3. ASSUME NEW h \in hooks, HookFails(h) PROVE BellInv'
  <2>1. hooks' = hooks \ {h} /\ UNCHANGED <<notes, visible, stream, pushed, items, unread, calls, astray>>
    BY <1>3 DEF HookFails, bellVars
  <2>2. NotesKnown' /\ Mine' = Mine
    BY <2>1 DEF BellInv, NotesKnown, Mine
  <2>. QED BY <2>1, <2>2, BellUndisturbed
<1>4. ASSUME NEW u \in Accounts, NEW k \in Kinds, SetPreference(u, k) PROVE BellInv'
  <2>1. UNCHANGED <<notes, visible, hooks, stream, pushed, items, unread, calls, astray>>
    BY <1>4 DEF SetPreference, bellVars
  <2>2. NotesKnown' /\ Mine' = Mine
    BY <2>1 DEF BellInv, NotesKnown, Mine
  <2>. QED BY <2>1, <2>2, BellUndisturbed
<1>5. ASSUME NEW s \in Places, SetView(s) PROVE BellInv'
  <2>1. UNCHANGED <<notes, hooks, stream, pushed, items, unread, calls>> /\ astray'
    BY <1>5 DEF SetView
  <2>2. astray' \in BOOLEAN
    BY <1>5 DEF SetView
  <2>. QED BY <2>1, <2>2 DEF BellInv, NotesKnown, HookKnown
<1>. QED
  BY <1>1, <1>2, <1>3, <1>4, <1>5, FilterDisturbsNoBell, SaveKeepsBell, ListServedKeepsBell,
     ReadServedKeepsBell, AllReadServedKeepsBell, MountKeepsBell, StreamKeepsBell, MessageKeepsBell,
     RefreshedKeepsBell, MarkingKeepsBell, MarkedOneKeepsBell, MarkedAllKeepsBell, FailedCallKeepsBell
  DEF NoticesNext

LEMMA NoticesInvAlways == NoticesSpec => [](ToldInv /\ BellInv)
<1>1. NoticesInit => ToldInv
  BY DEF NoticesInit, ToldInv, ToldOnce
<1>2. NoticesInit => BellInv
  <2>. SUFFICES ASSUME NoticesInit PROVE BellInv
    OBVIOUS
  <2>1. NotesKnown /\ hooks = {}
    BY FS_EmptySet DEF NoticesInit, NotesKnown
  <2>2. stream = [state |-> "closed", sees |-> {}] /\ pushed = <<>> /\ astray = TRUE
    BY DEF NoticesInit
  <2>3. items = [i \in {} |-> TRUE] /\ unread = 0 /\ calls = {}
    BY DEF NoticesInit
  <2>. QED BY <2>1, <2>2, <2>3 DEF BellInv
<1>3. ToldInv /\ BellInv /\ [NoticesNext]_noticeVars => ToldInv' /\ BellInv'
  BY ToldStep, BellStep
<1>. QED BY <1>1, <1>2, <1>3, PTL DEF NoticesSpec

(* useNotifications.ts: when nothing is under way and nothing has happened    *)
(* that the bell cannot know of, it shows rows of its person only, as read as *)
(* they are, the newest that a list holds among them, and the number of all   *)
(* unread, listed or not, whatever the number of accounts, projects, rows and *)
(* requests and the limit of a list: however a refresh, a row that is pushed  *)
(* and a marking follow on each other.                                        *)
THEOREM BellIsRightAlways == NoticesSpec => []BellIsRight
<1>1. BellInv => BellIsRight
  <2>. SUFFICES ASSUME BellInv, calls = {}, pushed = <<>>, ~astray
                PROVE  /\ DOMAIN items \subseteq MineIds
                       /\ \A n \in Mine : IF n.id \in DOMAIN items THEN items[n.id] = n.read
                                          ELSE ~Newest(n)
                       /\ unread = Cardinality({n \in Mine : ~n.read})
    BY DEF BellIsRight
  <2>1. BellShows({}) /\ \A i : ~Coming(i)
    BY DEF BellInv, InSight, Coming
  <2>2. DOMAIN items \subseteq MineIds
    BY <2>1 DEF BellShows, MineIds
  <2>3. ASSUME NEW n \in Mine, n.id \in DOMAIN items PROVE items[n.id] = n.read
    <3>1. n.read <=> items[n.id]
      BY <2>1, <2>3 DEF BellShows
    <3>2. n.read \in BOOLEAN
      BY DEF Mine, BellInv, NotesKnown, Row
    <3>3. \A i \in DOMAIN items : items[i] \in BOOLEAN
      BY DEF BellInv
    <3>. QED BY <2>3, <3>1, <3>2, <3>3
  <2>4. \A n \in Mine : n.id \notin DOMAIN items => ~Newest(n)
    BY <2>1 DEF BellShows
  <2>5. CountedRows = {n \in Mine : ~n.read}
    BY <2>1 DEF CountedRows
  <2>6. unread = Cardinality(CountedRows)
    <3>1. Cardinality(CountedRows) \in Nat
      BY CountedIsFinite DEF BellInv
    <3>2. unread = Cardinality(CountedRows) + 0
      BY <2>1 DEF BellShows
    <3>. QED BY <3>1, <3>2
  <2>. QED BY <2>2, <2>3, <2>4, <2>5, <2>6
<1>. QED BY <1>1, NoticesInvAlways, PTL

---------------------------------------------------------------------------
(* Notices: types and bounds *)

ToMe == {n \in notes : n.to = Me}

CountsKnown == changes \in 0..MaxChanges /\ doings \in 0..MaxDoings

CallKnown(c) ==
    \/ /\ c.kind = "refresh" /\ DOMAIN c = {"kind", "n", "list", "count"}
       /\ c.list # Nobody => c.list.ids \subseteq Ids
       /\ c.count # Nobody => c.count.n \in Nat /\ c.count.n <= Cardinality(ToMe)
    \/ c.kind = "read" /\ DOMAIN c = {"kind", "n", "id", "held", "served"} /\ c.id \in Ids
    \/ c.kind = "readAll" /\ DOMAIN c = {"kind", "n", "served"}

(* Each row is pushed once, so what is shown as unread exceeds what a count   *)
(* has found by no more than the rows that came meanwhile.                    *)
BellKnown ==
    /\ DOMAIN stream = {"state", "sees"}
    /\ stream.state \in {"closed", "connecting", "open"} /\ stream.sees \subseteq Places
    /\ pushed \in Seq(Note) /\ DOMAIN items \subseteq Ids
    /\ \A c \in calls : CallKnown(c)
    /\ unread \in Nat /\ Len(pushed) <= Cardinality(ToMe)
    /\ unread + Len(pushed) <= 2 * Cardinality(ToMe)

NoticesKnown ==
    /\ CountsKnown
    /\ off \subseteq Accounts \X Kinds /\ visible \subseteq Places
    /\ hooks \subseteq Hook /\ notes \subseteq Note
    /\ BellKnown

LEMMA NoticeBounds ==
    /\ IsFiniteSet(Accounts) /\ MaxChanges \in Nat /\ MaxDoings \in Nat
    /\ Cardinality(Accounts) \in Nat /\ IsFiniteSet(0..1) /\ Cardinality(0..1) = 2
    /\ IsFiniteSet(1..MaxChanges) /\ Cardinality(1..MaxChanges) = MaxChanges
    /\ Tellings \subseteq Kinds
<1>1. IsFiniteSet(Accounts) /\ MaxChanges \in Nat /\ MaxDoings \in Nat
  BY NoticesAssumption
<1>2. Cardinality(Accounts) \in Nat
  BY <1>1, FS_CardinalityType
<1>3. IsFiniteSet(0..1) /\ Cardinality(0..1) = 2
  <2>. DEFINE a == 0
              b == 1
  <2>1. a \in Int /\ b \in Int /\ a <= b /\ b - a + 1 = 2
    OBVIOUS
  <2>. HIDE DEF a, b
  <2>2. IsFiniteSet(a..b) /\ Cardinality(a..b) = b - a + 1
    BY <2>1, FS_Interval
  <2>. QED BY <2>1, <2>2 DEF a, b
<1>4. IsFiniteSet(1..MaxChanges) /\ Cardinality(1..MaxChanges) = MaxChanges
  BY <1>1, FS_Interval
<1>5. Tellings \subseteq Kinds
  BY NoticesAssumption DEF Tellings
<1>. QED BY <1>1, <1>2, <1>3, <1>4, <1>5

(* Nobody is told more than twice of a change, so that there are no more rows *)
(* than twice as many as changes, for each account.                           *)
LEMMA RowsBounded ==
    ASSUME ToldInv, NotesKnown, CountsKnown
    PROVE  /\ Cardinality(notes) \in Nat /\ Cardinality(notes) <= MaxChanges * Cardinality(Accounts) * 2
           /\ IsFiniteSet(ToMe) /\ Cardinality(ToMe) \in Nat
           /\ 2 * Cardinality(ToMe) <= MaxChanges * Cardinality(Accounts) * 2
<1>. DEFINE moved(n) == IF n.kind = "status_changed" THEN 1 ELSE 0
            f == [n \in notes |-> <<<<n.to, n.change>>, moved(n)>>]
            g == [n \in ToMe |-> <<n.change, moved(n)>>]
            T == (Accounts \X (1..MaxChanges)) \X (0..1)
            U == (1..MaxChanges) \X (0..1)
            m == Cardinality(Accounts)
<1>1. \A n \in notes : n.to \in Accounts /\ n.change \in 1..MaxChanges
  <2>1. \A n \in notes : n.to \in Accounts /\ n.change \in 1..changes
    BY DEF ToldInv, NotesKnown, Row
  <2>2. 1..changes \subseteq 1..MaxChanges
    BY NoticeBounds DEF CountsKnown
  <2>. QED BY <2>1, <2>2
<1>2. ASSUME NEW n \in notes, NEW o \in notes, n.to = o.to, n.change = o.change, moved(n) = moved(o)
      PROVE  n = o
  <2>1. n # o => {n.kind, o.kind} = {"assigned", "status_changed"}
    BY <1>2 DEF ToldInv, ToldOnce
  <2>. QED BY <1>2, <2>1
<1>3. f \in Injection(notes, T)
  <2>1. f \in [notes -> T]
    BY <1>1
  <2>2. \A n, o \in notes : f[n] = f[o] => n = o
    BY <1>2
  <2>. HIDE DEF f, T
  <2>. QED BY <2>1, <2>2 DEF Injection, IsInjective
<1>4. g \in Injection(ToMe, U)
  <2>0. \A n \in ToMe : n \in notes /\ n.to = Me
    BY DEF ToMe
  <2>1. g \in [ToMe -> U]
    BY <1>1, <2>0
  <2>2. \A n, o \in ToMe : g[n] = g[o] => n = o
    BY <1>2, <2>0
  <2>. HIDE DEF g, U
  <2>. QED BY <2>1, <2>2 DEF Injection, IsInjective
<1>5. IsFiniteSet(T) /\ Cardinality(T) = (m * MaxChanges) * 2
  <2>1. IsFiniteSet(Accounts \X (1..MaxChanges)) /\ Cardinality(Accounts \X (1..MaxChanges)) = m * MaxChanges
    BY NoticeBounds, FS_Product
  <2>. DEFINE V == Accounts \X (1..MaxChanges)
  <2>. HIDE DEF V
  <2>2. IsFiniteSet(V \X (0..1)) /\ Cardinality(V \X (0..1)) = Cardinality(V) * 2
    BY <2>1, NoticeBounds, FS_Product, ZenonT(60) DEF V
  <2>. QED BY <2>1, <2>2 DEF V
<1>6. IsFiniteSet(U) /\ Cardinality(U) = MaxChanges * 2
  BY NoticeBounds, FS_Product, ZenonT(60)
<1>. HIDE DEF f, g, T, U, moved
<1>7. Cardinality(notes) <= Cardinality(T) /\ Cardinality(notes) \in Nat
  BY <1>3, <1>5, FS_Injection, FS_CardinalityType
<1>8. IsFiniteSet(ToMe) /\ Cardinality(ToMe) <= Cardinality(U) /\ Cardinality(ToMe) \in Nat
  BY <1>4, <1>6, FS_Injection, FS_CardinalityType
<1>9. m \in Nat /\ MaxChanges \in Nat
  BY NoticeBounds
<1>10. 2 * Cardinality(ToMe) <= MaxChanges * m * 2
  <2>1. CASE ToMe = {}
    <3>1. Cardinality(ToMe) = 0
      BY <2>1, FS_EmptySet
    <3>. HIDE DEF m
    <3>2. MaxChanges * m \in Nat
      BY <1>9
    <3>. QED BY <3>1, <3>2
  <2>2. CASE ToMe # {}
    <3>1. PICK n \in ToMe : TRUE
      BY <2>2
    <3>2. n.actor \in Accounts /\ n.actor # Me /\ Me \in Accounts
      BY MeIsOne DEF ToMe, ToldInv, ToldOnce, NotesKnown, Row
    <3>3. m >= 2
      <4>1. {n.actor} \in SUBSET Accounts /\ {n.actor} # Accounts /\ m \in Nat
        BY <3>2, NoticeBounds
      <4>2. IsFiniteSet({n.actor}) /\ Cardinality({n.actor}) = 1
        BY FS_Singleton
      <4>3. 1 <= m /\ m # 1
        BY <4>1, <4>2, NoticeBounds, FS_Subset
      <4>. QED BY <4>1, <4>3
    <3>. HIDE DEF m
    <3>4. MaxChanges * 2 <= MaxChanges * m
      <4>1. PICK k \in Nat : m = 2 + k
        <5>1. m - 2 \in Nat /\ m = 2 + (m - 2)
          BY <1>9, <3>3
        <5>. QED BY <5>1
      <4>2. MaxChanges * m = MaxChanges * 2 + MaxChanges * k /\ MaxChanges * k \in Nat
        BY <1>9, <4>1
      <4>. QED BY <1>9, <4>2
    <3>. DEFINE p == MaxChanges * m
    <3>5. p \in Nat
      BY <1>9
    <3>. HIDE DEF p
    <3>6. Cardinality(ToMe) <= p
      BY <1>6, <1>8, <1>9, <3>4, <3>5 DEF p
    <3>7. 2 * Cardinality(ToMe) <= p * 2
      BY <1>8, <3>5, <3>6
    <3>. QED BY <3>7 DEF p
  <2>. QED BY <2>1, <2>2
<1>. HIDE DEF m
<1>11. (m * MaxChanges) * 2 = MaxChanges * m * 2
  BY <1>9
<1>. QED BY <1>5, <1>7, <1>8, <1>10, <1>11 DEF m

LEMMA OnwardTyped ==
    ASSUME NEW h \in Hook, NEW k \in Onward(h)
    PROVE  k \in Hook
<1>1. PICK i \in DOMAIN h.queue :
         k = [h EXCEPT !.queue = SubSeq(@, i, Len(@)), !.filtered = @ /\ i = 1]
  BY DEF Onward
<1>2. h.queue \in Seq(Emission)
  BY DEF Hook
<1>3. SubSeq(h.queue, i, Len(h.queue)) \in Seq(Emission)
  BY <1>2
<1>4. (h.filtered /\ i = 1) \in BOOLEAN
  BY DEF Hook
<1>. QED BY <1>1, <1>3, <1>4 DEF Hook

LEMMA NarrowedTyped ==
    ASSUME NEW h \in Hook, 1 \in DOMAIN h.queue, NEW left \in SUBSET Accounts
    PROVE  [h.queue EXCEPT ![1].to = left] \in Seq(Emission)
<1>1. h.queue \in Seq(Emission) /\ h.queue[1] \in Emission
  BY DEF Hook
<1>2. [h.queue[1] EXCEPT !.to = left] \in Emission
  BY <1>1 DEF Emission
<1>. QED BY <1>1, <1>2

LEMMA RowsBoundedThen ==
    ToldInv' /\ NotesKnown' /\ CountsKnown'
    => /\ (Cardinality(notes) \in Nat)'
       /\ (Cardinality(notes) <= MaxChanges * Cardinality(Accounts) * 2)'
<1>. DEFINE Few == Cardinality(notes) <= MaxChanges * Cardinality(Accounts) * 2
            Counted == Cardinality(notes) \in Nat
<1>1. ToldInv /\ NotesKnown /\ CountsKnown => Counted /\ Few
  BY RowsBounded
<1>. HIDE DEF Few, Counted
<1>2. ToldInv' /\ NotesKnown' /\ CountsKnown' => Counted' /\ Few'
  BY <1>1, PTL
<1>. QED BY <1>2 DEF Few, Counted

LEMMA BegunTyped ==
    ASSUME CountsKnown, hooks \subseteq Hook, NEW s \in Places, NEW a \in Accounts,
           NEW q \in Seq(Emission), Begin(s, a, q)
    PROVE  hooks' \subseteq Hook /\ UNCHANGED <<off, visible>>
<1>. DEFINE h == [actor |-> a, change |-> changes + 1, site |-> s, queue |-> q, filtered |-> FALSE]
<1>1. changes + 1 \in 1..MaxChanges
  BY NoticeBounds DEF CountsKnown, Begin
<1>2. h \in Hook
  BY <1>1 DEF Hook
<1>3. hooks' = hooks \cup Onward(h) /\ UNCHANGED <<off, visible>>
  BY DEF Begin
<1>. HIDE DEF h
<1>. QED BY <1>2, <1>3, OnwardTyped

LEMMA HooksTypedStep ==
    ASSUME ToldInv, NoticesKnown, [NoticesNext]_noticeVars
    PROVE  hooks' \subseteq Hook /\ off' \subseteq Accounts \X Kinds /\ visible' \subseteq Places
<1>0. /\ CountsKnown /\ hooks \subseteq Hook /\ off \subseteq Accounts \X Kinds
      /\ visible \subseteq Places
  BY DEF NoticesKnown
<1>1. CASE UNCHANGED <<hooks, off, visible>>
  BY <1>0, <1>1
<1>2. ASSUME NEW to \in SUBSET Accounts, NEW kind \in Tellings
      PROVE  Emit(kind, to) \in Emission
  BY NoticeBounds DEF Emit, Emission
<1>3. ASSUME NEW p \in Accounts \cup {Nobody} PROVE PersonOf(p) \subseteq Accounts
  BY DEF PersonOf
<1>4. ASSUME NEW s \in Places, NEW a \in Accounts, NEW p \in Accounts \cup {Nobody},
             \/ OnTaskCreated(s, a, p) \/ OnSubtaskAssigned(s, a, p)
             \/ p # Nobody /\ OnCommentMentioned(s, a, p)
             \/ \E q \in Accounts \cup {Nobody}, reassigned, moved \in BOOLEAN :
                   OnTaskChanged(s, a, p, q, reassigned, moved)
      PROVE  hooks' \subseteq Hook /\ UNCHANGED <<off, visible>>
  <2>. DEFINE yours == Emit("assigned", PersonOf(p) \ {a})
  <2>1. yours \in Emission
    <3>1. PersonOf(p) \ {a} \in SUBSET Accounts /\ "assigned" \in Tellings
      BY <1>3 DEF Tellings
    <3>. QED BY <1>2, <3>1
  <2>2. CASE OnTaskCreated(s, a, p)
    <3>. DEFINE e == Emit("task_created", CreatedTo(a, p))
    <3>1. CreatedTo(a, p) \in SUBSET Accounts /\ "task_created" \in Tellings
      BY DEF Tellings, CreatedTo
    <3>2. e \in Emission
      BY <1>2, <3>1
    <3>3. Begin(s, a, <<yours, e>>)
      BY <2>2 DEF OnTaskCreated
    <3>. HIDE DEF yours, e
    <3>4. <<yours, e>> \in Seq(Emission)
      BY <2>1, <3>2
    <3>. QED BY <1>0, <3>3, <3>4, BegunTyped
  <2>3. CASE OnSubtaskAssigned(s, a, p)
    <3>1. Begin(s, a, <<yours>>)
      BY <2>3 DEF OnSubtaskAssigned
    <3>. HIDE DEF yours
    <3>2. <<yours>> \in Seq(Emission)
      BY <2>1
    <3>. QED BY <1>0, <3>1, <3>2, BegunTyped
  <2>4. CASE p # Nobody /\ OnCommentMentioned(s, a, p)
    <3>. DEFINE e == Emit("mentioned", ({p} \cup Alike(p)) \ {a})
    <3>1. ({p} \cup Alike(p)) \ {a} \in SUBSET Accounts /\ "mentioned" \in Tellings
      BY <2>4, AlikeAreAccounts DEF Tellings
    <3>2. e \in Emission
      BY <1>2, <3>1
    <3>3. Begin(s, a, <<e>>)
      BY <2>4 DEF OnCommentMentioned
    <3>. HIDE DEF e
    <3>4. <<e>> \in Seq(Emission)
      BY <3>2
    <3>. QED BY <1>0, <3>3, <3>4, BegunTyped
  <2>5. ASSUME NEW q \in Accounts \cup {Nobody}, NEW reassigned \in BOOLEAN, NEW moved \in BOOLEAN,
               OnTaskChanged(s, a, p, q, reassigned, moved)
        PROVE  hooks' \subseteq Hook /\ UNCHANGED <<off, visible>>
    <3>. DEFINE e == Emit("status_changed", (PersonOf(p) \cup PersonOf(q)) \ {a})
                x == IF reassigned THEN <<yours>> ELSE <<>>
                y == IF moved THEN <<e>> ELSE <<>>
    <3>1. /\ (PersonOf(p) \cup PersonOf(q)) \ {a} \in SUBSET Accounts
          /\ "status_changed" \in Tellings
      BY <1>3 DEF Tellings
    <3>2. e \in Emission
      BY <1>2, <3>1
    <3>3. Begin(s, a, x \o y)
      BY <2>5 DEF OnTaskChanged
    <3>. HIDE DEF yours, e
    <3>4. x \in Seq(Emission) /\ y \in Seq(Emission)
      BY <2>1, <3>2
    <3>. HIDE DEF x, y
    <3>5. x \o y \in Seq(Emission)
      BY <3>4
    <3>. QED BY <1>0, <3>3, <3>5, BegunTyped
  <2>. QED BY <1>4, <2>2, <2>3, <2>4, <2>5
<1>5. ASSUME NEW h \in hooks, NEW u \in Accounts,
             FilterByPreference(h) \/ HookFails(h) \/ SaveAndPush(h, u)
      PROVE  hooks' \subseteq Hook /\ UNCHANGED <<off, visible>>
  <2>0. /\ h \in Hook /\ 1 \in DOMAIN h.queue
        /\ Head(h.queue) = h.queue[1] /\ h.queue[1] \in Emission
    BY <1>0 DEF ToldInv, Hook
  <2>1. ASSUME NEW left \in SUBSET Accounts, NEW k,
               k = [h EXCEPT !.queue[1].to = left] \/ k = [h EXCEPT !.queue[1].to = left, !.filtered = TRUE]
        PROVE  Onward(k) \subseteq Hook
    <3>. DEFINE q == [h.queue EXCEPT ![1].to = left]
    <3>1. q \in Seq(Emission)
      BY <2>0, NarrowedTyped
    <3>2. k = [h EXCEPT !.queue = q] \/ k = [h EXCEPT !.queue = q, !.filtered = TRUE]
      BY <2>1
    <3>. HIDE DEF q
    <3>3. k \in Hook
      BY <2>0, <3>1, <3>2 DEF Hook
    <3>. QED BY <3>3, OnwardTyped
  <2>2. CASE FilterByPreference(h)
    <3>. DEFINE left == {v \in Head(h.queue).to : <<v, Head(h.queue).kind>> \notin off}
    <3>1. left \in SUBSET Accounts
      BY <2>0 DEF Emission
    <3>2. hooks' = (hooks \ {h}) \cup Onward([h EXCEPT !.queue[1].to = left, !.filtered = TRUE])
          /\ UNCHANGED <<off, visible>>
      BY <2>2 DEF FilterByPreference
    <3>. HIDE DEF left
    <3>. QED BY <1>0, <2>1, <3>1, <3>2
  <2>3. CASE HookFails(h)
    BY <1>0, <2>3 DEF HookFails
  <2>4. CASE SaveAndPush(h, u)
    <3>. DEFINE left == h.queue[1].to \ {u}
    <3>1. left \in SUBSET Accounts
      BY <2>0 DEF Emission
    <3>2. hooks' = (hooks \ {h}) \cup Onward([h EXCEPT !.queue[1].to = left])
          /\ UNCHANGED <<off, visible>>
      BY <2>4 DEF SaveAndPush
    <3>. HIDE DEF left
    <3>. QED BY <1>0, <2>1, <3>1, <3>2
  <2>. QED BY <1>5, <2>2, <2>3, <2>4
<1>6. ASSUME NEW h \in hooks, FilterByPreference(h) \/ HookFails(h)
      PROVE  hooks' \subseteq Hook /\ UNCHANGED <<off, visible>>
  BY <1>5, <1>6, MeIsOne
<1>7. ASSUME NEW u \in Accounts, NEW k \in Kinds, SetPreference(u, k)
      PROVE  UNCHANGED <<hooks, visible>> /\ off' \subseteq Accounts \X Kinds
  BY <1>0, <1>7 DEF SetPreference
<1>8. ASSUME NEW s \in Places, SetView(s)
      PROVE  UNCHANGED <<hooks, off>> /\ visible' \subseteq Places
  BY <1>0, <1>8 DEF SetView
<1>9. ASSUME UNCHANGED noticeVars
             \/ (\E c \in calls : \/ ServeList(c) \/ ServeCount(c) \/ ServeRead(c) \/ ServeReadAll(c)
                                  \/ Refreshed(c) \/ MarkedRead(c) \/ MarkedAllRead(c) \/ CallFails(c))
             \/ MountBell \/ Subscribed \/ StreamBreaks \/ OnMessage \/ MarkAllRead
             \/ (\E i \in Ids : MarkRead(i))
      PROVE  UNCHANGED <<hooks, off, visible>>
  BY <1>9 DEF noticeVars, ServeList, ServeCount, ServeRead, ServeReadAll, ServedWith, Refreshed,
     MarkedRead, MarkedAllRead, CallFails, MountBell, Subscribed, StreamBreaks, OnMessage, MarkAllRead,
     MarkRead, Follow, Bell
<1>. QED BY <1>0, <1>1, <1>4, <1>5, <1>6, <1>7, <1>8, <1>9 DEF NoticesNext

LEMMA NoticeCountsStep ==
    ASSUME CountsKnown, [NoticesNext]_noticeVars
    PROVE  CountsKnown'
<1>. DEFINE Counted == \/ UNCHANGED <<changes, doings>>
                       \/ Doing /\ UNCHANGED changes
                       \/ Doing /\ changes < MaxChanges /\ changes' = changes + 1
<1>1. ASSUME UNCHANGED noticeVars PROVE Counted
  BY <1>1 DEF noticeVars
<1>2. ASSUME NEW s, NEW a, NEW q, Begin(s, a, q) PROVE Counted
  BY <1>2 DEF Begin
<1>3. ASSUME NEW s, NEW a, NEW p, NEW q, NEW reassigned, NEW moved,
             \/ OnTaskCreated(s, a, p) \/ OnSubtaskAssigned(s, a, p)
             \/ OnCommentMentioned(s, a, p) \/ OnTaskChanged(s, a, p, q, reassigned, moved)
      PROVE  Counted
  BY <1>2, <1>3 DEF OnTaskCreated, OnSubtaskAssigned, OnCommentMentioned, OnTaskChanged
<1>4. ASSUME NEW h, NEW u, FilterByPreference(h) \/ HookFails(h) \/ SaveAndPush(h, u) PROVE Counted
  BY <1>4 DEF FilterByPreference, HookFails, SaveAndPush
<1>5. ASSUME NEW u, NEW k, SetPreference(u, k) \/ SetView(u) PROVE Counted
  BY <1>5 DEF SetPreference, SetView
<1>6. ASSUME NEW c, \/ ServeList(c) \/ ServeCount(c) \/ ServeRead(c) \/ ServeReadAll(c)
                    \/ Refreshed(c) \/ MarkedRead(c) \/ MarkedAllRead(c) \/ CallFails(c)
      PROVE  Counted
  BY <1>6 DEF ServeList, ServeCount, ServeRead, ServeReadAll, ServedWith, Refreshed, MarkedRead,
     MarkedAllRead, CallFails, Follow, Bell
<1>7. ASSUME \/ MountBell \/ Subscribed \/ StreamBreaks \/ OnMessage \/ MarkAllRead
             \/ \E i \in Ids : MarkRead(i)
      PROVE  Counted
  BY <1>7 DEF MountBell, Subscribed, StreamBreaks, OnMessage, MarkAllRead, MarkRead, Follow, Bell
<1>. HIDE DEF Counted
<1>8. Counted
  BY <1>1, <1>3, <1>4, <1>5, <1>6, <1>7 DEF NoticesNext
<1>. QED BY <1>8, NoticeBounds DEF Counted, Doing, CountsKnown

LEMMA IdsReach ==
    ASSUME ToldInv, NotesKnown, CountsKnown, NEW i \in Nat, i >= 1, i <= Cardinality(notes)
    PROVE  i \in Ids
<1>1. Cardinality(notes) \in Nat /\ Cardinality(notes) <= MaxChanges * Cardinality(Accounts) * 2
  BY RowsBounded
<1>. DEFINE m == MaxChanges * Cardinality(Accounts) * 2
<1>2. m \in Nat
  BY NoticeBounds
<1>. HIDE DEF m
<1>3. i \in 1..m
  BY <1>1, <1>2 DEF m
<1>. QED BY <1>3 DEF Ids, m

(* The row a hook writes.                                                    *)
LEMMA SavedRow ==
    ASSUME ToldInv, ToldInv', BellInv, BellInv', NoticesKnown, CountsKnown', NEW h \in hooks,
           NEW u \in Accounts, SaveAndPush(h, u)
    PROVE  \E note \in Note : /\ notes' = notes \cup {note} /\ note \notin notes
                              /\ note.to = u
                              /\ pushed' = pushed \/ (u = Me /\ pushed' = Append(pushed, note))
<1>. DEFINE e == Head(h.queue)
            note == [id |-> Cardinality(notes) + 1, to |-> u, actor |-> h.actor, kind |-> e.kind,
                     change |-> h.change, site |-> h.site, read |-> FALSE]
<1>1. /\ notes' = notes \cup {note}
      /\ pushed' = pushed \/ (u = Me /\ pushed' = Append(pushed, note))
  BY DEF SaveAndPush
<1>2. /\ h \in Hook /\ e \in Emission
  BY DEF NoticesKnown, ToldInv, Hook
<1>3. IsFiniteSet(notes) /\ Cardinality(notes) \in Nat
  BY FS_CardinalityType DEF BellInv, NotesKnown
<1>4. note.id = Cardinality(notes) + 1
  OBVIOUS
<1>5. note \notin notes
  BY <1>3, <1>4 DEF BellInv, NotesKnown
<1>6. Cardinality(notes') = Cardinality(notes) + 1
  <2>. HIDE DEF note
  <2>. QED BY <1>1, <1>3, <1>5, FS_AddElement
<1>7. Cardinality(notes) + 1 \in Ids
  <2>1. ToldInv' /\ NotesKnown' /\ CountsKnown'
    BY DEF BellInv
  <2>2. /\ Cardinality(notes') \in Nat
        /\ Cardinality(notes') <= MaxChanges * Cardinality(Accounts) * 2
    BY <2>1, RowsBoundedThen
  <2>. DEFINE m == MaxChanges * Cardinality(Accounts) * 2
              i == Cardinality(notes) + 1
  <2>3. m \in Nat /\ i \in Nat /\ i >= 1
    BY <1>3, NoticeBounds
  <2>4. i <= m
    BY <1>6, <2>2
  <2>. HIDE DEF m, i
  <2>5. i \in 1..m
    BY <2>3, <2>4
  <2>. QED BY <2>5 DEF Ids, m, i
<1>8. note \in Note
  <2>. HIDE DEF e
  <2>. QED BY <1>2, <1>7 DEF Note, Hook, Emission
<1>. QED BY <1>1, <1>5, <1>8

LEMMA NotesTypedStep ==
    ASSUME ToldInv, ToldInv', BellInv, BellInv', NoticesKnown, CountsKnown', [NoticesNext]_noticeVars
    PROVE  notes' \subseteq Note
<1>0. notes \subseteq Note
  BY DEF NoticesKnown
<1>1. ASSUME NEW h \in hooks, NEW u \in Accounts, SaveAndPush(h, u) PROVE notes' \subseteq Note
  BY <1>0, <1>1, SavedRow
<1>2. ASSUME NEW marks, notes' = Marked(marks) PROVE notes' \subseteq Note
  <2>1. \A n \in notes : [n EXCEPT !.read = n.read \/ n \in marks] \in Note
    BY <1>0 DEF Note
  <2>. QED BY <1>2, <2>1 DEF Marked
<1>3. ASSUME NEW c \in calls, ServeRead(c) \/ ServeReadAll(c) PROVE notes' \subseteq Note
  BY <1>2, <1>3 DEF ServeRead, ServeReadAll
<1>4. ASSUME NEW s, NEW a, NEW p, NEW q, NEW reassigned, NEW moved,
             \/ OnTaskCreated(s, a, p) \/ OnSubtaskAssigned(s, a, p)
             \/ OnCommentMentioned(s, a, p) \/ OnTaskChanged(s, a, p, q, reassigned, moved)
      PROVE  UNCHANGED notes
  BY <1>4 DEF OnTaskCreated, OnSubtaskAssigned, OnCommentMentioned, OnTaskChanged, Begin
<1>5. ASSUME \/ UNCHANGED noticeVars
             \/ \E h \in hooks : FilterByPreference(h) \/ HookFails(h)
             \/ \E u \in Accounts, k \in Kinds : SetPreference(u, k)
             \/ \E s \in Places : SetView(s)
             \/ \E c \in calls : \/ ServeList(c) \/ ServeCount(c)
                                 \/ Refreshed(c) \/ MarkedRead(c) \/ MarkedAllRead(c) \/ CallFails(c)
             \/ MountBell \/ Subscribed \/ StreamBreaks \/ OnMessage \/ MarkAllRead
             \/ \E i \in Ids : MarkRead(i)
      PROVE  UNCHANGED notes
  BY <1>5 DEF noticeVars, FilterByPreference, HookFails, SetPreference, SetView, ServeList, ServeCount,
     Refreshed, MarkedRead, MarkedAllRead, CallFails, MountBell, Subscribed, StreamBreaks, OnMessage,
     MarkAllRead, MarkRead, Follow, Bell
<1>. QED BY <1>0, <1>1, <1>3, <1>4, <1>5 DEF NoticesNext

(* Rows are marked, never taken away.                                        *)
LEMMA ToMeGrows ==
    ASSUME NotesKnown, IsFiniteSet(ToMe'), \A n \in notes : \E m \in notes' : m.id = n.id /\ m.to = n.to
    PROVE  Cardinality(ToMe) <= Cardinality(ToMe')
<1>. DEFINE f == [n \in ToMe |-> CHOOSE m \in notes' : m.id = n.id /\ m.to = n.to]
<1>1. \A n \in ToMe : f[n] \in ToMe' /\ f[n].id = n.id
  BY DEF ToMe
<1>2. \A n, o \in ToMe : n.id = o.id => n = o
  BY DEF ToMe, NotesKnown
<1>3. f \in [ToMe -> ToMe']
  BY <1>1
<1>. HIDE DEF f
<1>4. f \in Injection(ToMe, ToMe')
  BY <1>1, <1>2, <1>3 DEF Injection, IsInjective
<1>. QED BY <1>4, FS_Injection

(* What a call has found stays within bounds when rows are added.            *)
LEMMA CallsStayKnown ==
    ASSUME BellKnown, Cardinality(ToMe) \in Nat, Cardinality(ToMe') \in Nat,
           Cardinality(ToMe) <= Cardinality(ToMe'), NEW c, CallKnown(c)
    PROVE  CallKnown(c)'
<1>. DEFINE before == Cardinality(ToMe)
            after == Cardinality(ToMe')
<1>1. ASSUME NEW n \in Nat, n <= before PROVE n <= after
  BY <1>1
<1>. HIDE DEF before, after
<1>. QED BY <1>1 DEF CallKnown, before, after, Ids

(* A step that leaves the numbers alone.                                     *)
LEMMA BellStays ==
    ASSUME BellKnown, Cardinality(ToMe) \in Nat, Cardinality(ToMe') \in Nat,
           Cardinality(ToMe) <= Cardinality(ToMe'), UNCHANGED <<unread, pushed>>,
           DOMAIN items' \subseteq Ids,
           DOMAIN stream' = {"state", "sees"},
           stream'.state \in {"closed", "connecting", "open"}, stream'.sees \subseteq Places,
           \A c \in calls' : CallKnown(c) \/ CallKnown(c)'
    PROVE  BellKnown'
<1>. DEFINE before == Cardinality(ToMe)
            after == Cardinality(ToMe')
<1>1. \A c \in calls' : CallKnown(c)'
  BY CallsStayKnown
<1>2. /\ pushed \in Seq(Note) /\ unread \in Nat /\ Len(pushed) \in Nat
      /\ Len(pushed) <= before /\ unread + Len(pushed) <= 2 * before
  BY DEF BellKnown
<1>. HIDE DEF before, after
<1>3. before \in Nat /\ after \in Nat /\ before <= after
  BY DEF before, after
<1>4. Len(pushed) <= after /\ unread + Len(pushed) <= 2 * after
  BY <1>2, <1>3
<1>5. DOMAIN items' \subseteq Ids'
  BY DEF Ids
<1>6. pushed' \in Seq(Note)'
  BY <1>2 DEF Note, Ids
<1>. QED BY <1>1, <1>2, <1>4, <1>5, <1>6 DEF BellKnown, after

LEMMA ToMeGoesOn ==
    ASSUME ToldInv, ToldInv', BellInv, BellInv', NoticesKnown, CountsKnown', [NoticesNext]_noticeVars
    PROVE  /\ Cardinality(ToMe) \in Nat /\ Cardinality(ToMe') \in Nat
           /\ Cardinality(ToMe) <= Cardinality(ToMe')
           /\ IsFiniteSet(ToMe) /\ IsFiniteSet(ToMe')
<1>1. IsFiniteSet(ToMe) /\ Cardinality(ToMe) \in Nat
  BY RowsBounded DEF BellInv, NoticesKnown
<1>2. IsFiniteSet(ToMe') /\ Cardinality(ToMe') \in Nat
  <2>1. IsFiniteSet(notes') /\ ToMe' \in SUBSET notes'
    BY DEF BellInv, NotesKnown, ToMe
  <2>. QED BY <2>1, FS_Subset, FS_CardinalityType
<1>3. \A n \in notes : \E m \in notes' : m.id = n.id /\ m.to = n.to
  <2>1. CASE notes \subseteq notes'
    BY <2>1
  <2>2. ASSUME NEW marks, notes' = Marked(marks), NEW n \in notes
        PROVE  \E m \in notes' : m.id = n.id /\ m.to = n.to
    <3>. DEFINE m == [n EXCEPT !.read = n.read \/ n \in marks]
    <3>1. m \in notes'
      BY <2>2 DEF Marked
    <3>2. m.id = n.id /\ m.to = n.to
      BY DEF NoticesKnown, Note
    <3>. QED BY <3>1, <3>2
  <2>3. ASSUME NEW c \in calls, ServeRead(c) \/ ServeReadAll(c)
        PROVE  \E marks : notes' = Marked(marks)
    BY <2>3 DEF ServeRead, ServeReadAll
  <2>4. ASSUME NEW h \in hooks, NEW u \in Accounts, SaveAndPush(h, u) PROVE notes \subseteq notes'
    BY <2>4 DEF SaveAndPush
  <2>5. ASSUME NEW s, NEW a, NEW p, NEW q, NEW reassigned, NEW moved,
               \/ OnTaskCreated(s, a, p) \/ OnSubtaskAssigned(s, a, p)
               \/ OnCommentMentioned(s, a, p) \/ OnTaskChanged(s, a, p, q, reassigned, moved)
        PROVE  notes \subseteq notes'
    BY <2>5 DEF OnTaskCreated, OnSubtaskAssigned, OnCommentMentioned, OnTaskChanged, Begin
  <2>6. ASSUME \/ UNCHANGED noticeVars
               \/ \E h \in hooks : FilterByPreference(h) \/ HookFails(h)
               \/ \E u \in Accounts, k \in Kinds : SetPreference(u, k)
               \/ \E s \in Places : SetView(s)
               \/ \E c \in calls : \/ ServeList(c) \/ ServeCount(c)
                                   \/ Refreshed(c) \/ MarkedRead(c) \/ MarkedAllRead(c) \/ CallFails(c)
               \/ MountBell \/ Subscribed \/ StreamBreaks \/ OnMessage \/ MarkAllRead
               \/ \E i \in Ids : MarkRead(i)
        PROVE  notes \subseteq notes'
    BY <2>6 DEF noticeVars, FilterByPreference, HookFails, SetPreference, SetView, ServeList,
       ServeCount, ServedWith, Refreshed, MarkedRead, MarkedAllRead, CallFails, MountBell, Subscribed,
       StreamBreaks, OnMessage, MarkAllRead, MarkRead, Follow, Bell
  <2>7. (\E marks : notes' = Marked(marks)) \/ notes \subseteq notes'
    BY <2>3, <2>4, <2>5, <2>6 DEF NoticesNext
  <2>. QED BY <2>1, <2>2, <2>7
<1>4. Cardinality(ToMe) <= Cardinality(ToMe')
  BY <1>2, <1>3, ToMeGrows DEF BellInv
<1>. QED BY <1>1, <1>2, <1>4

LEMMA BellKnownStep ==
    ASSUME ToldInv, ToldInv', BellInv, BellInv', NoticesKnown, CountsKnown', [NoticesNext]_noticeVars
    PROVE  BellKnown'
<1>. DEFINE before == Cardinality(ToMe)
            after == Cardinality(ToMe')
<1>1. before \in Nat /\ after \in Nat /\ before <= after /\ IsFiniteSet(ToMe) /\ IsFiniteSet(ToMe')
  BY ToMeGoesOn
<1>2. /\ BellKnown /\ notes \subseteq Note /\ visible \subseteq Places
      /\ DOMAIN stream = {"state", "sees"}
      /\ stream.state \in {"closed", "connecting", "open"} /\ stream.sees \subseteq Places
      /\ DOMAIN items \subseteq Ids
      /\ \A c \in calls : CallKnown(c)
  BY DEF NoticesKnown, BellKnown
<1>3. /\ pushed \in Seq(Note) /\ unread \in Nat /\ Len(pushed) \in Nat
      /\ Len(pushed) <= before /\ unread + Len(pushed) <= 2 * before
  BY <1>2 DEF BellKnown
<1>4. Ids' = Ids /\ Note' = Note
  BY DEF Ids, Note
<1>5. ASSUME UNCHANGED <<unread, pushed>>, DOMAIN items' \subseteq Ids,
             DOMAIN stream' = {"state", "sees"},
             stream'.state \in {"closed", "connecting", "open"}, stream'.sees \subseteq Places,
             \A c \in calls' : CallKnown(c) \/ CallKnown(c)'
      PROVE  BellKnown'
  BY <1>1, <1>2, <1>5, BellStays
<1>6. ASSUME pushed' \in Seq(Note), unread' \in Nat, Len(pushed') <= after,
             unread' + Len(pushed') <= 2 * after, DOMAIN items' \subseteq Ids,
             DOMAIN stream' = {"state", "sees"},
             stream'.state \in {"closed", "connecting", "open"}, stream'.sees \subseteq Places,
             \A c \in calls' : CallKnown(c)
      PROVE  BellKnown'
  <2>1. \A c \in calls' : CallKnown(c)'
    BY <1>1, <1>2, <1>6, CallsStayKnown
  <2>. QED BY <1>4, <1>6, <2>1 DEF BellKnown
<1>. HIDE DEF before, after
<1>7. ASSUME UNCHANGED <<stream, pushed, items, unread, calls>> PROVE BellKnown'
  BY <1>2, <1>5, <1>7
<1>8. ASSUME NEW h \in hooks, NEW u \in Accounts, SaveAndPush(h, u) PROVE BellKnown'
  <2>1. PICK note \in Note : /\ notes' = notes \cup {note} /\ note \notin notes /\ note.to = u
                             /\ pushed' = pushed \/ (u = Me /\ pushed' = Append(pushed, note))
    BY <1>8, SavedRow DEF NoticesKnown
  <2>2. UNCHANGED <<stream, items, unread, calls>>
    BY <1>8 DEF SaveAndPush
  <2>3. CASE pushed' = pushed
    BY <1>7, <2>2, <2>3
  <2>4. CASE u = Me /\ pushed' = Append(pushed, note)
    <3>1. ToMe' = ToMe \cup {note} /\ note \notin ToMe
      BY <2>1, <2>4 DEF ToMe
    <3>2. after = before + 1
      BY <1>1, <3>1, FS_AddElement DEF before, after
    <3>3. pushed' \in Seq(Note) /\ Len(pushed') = Len(pushed) + 1
      BY <1>3, <2>4
    <3>. QED BY <1>1, <1>2, <1>3, <1>6, <2>2, <3>2, <3>3
  <2>. QED BY <2>1, <2>3, <2>4
<1>9. ASSUME NEW s \in Places, SetView(s) PROVE BellKnown'
  BY <1>7, <1>9 DEF SetView
<1>10. ASSUME NEW c \in calls, ServeList(c) PROVE BellKnown'
  <2>. DEFINE found == [ids |-> {n.id : n \in {n \in Mine : Newest(n)}},
                        read |-> {n.id : n \in {n \in Mine : n.read}}]
              done == [c EXCEPT !.list = found]
  <2>1. found.ids \subseteq Ids
    BY <1>2 DEF Mine, Note
  <2>2. c.kind = "refresh" /\ calls' = (calls \ {c}) \cup {done}
        /\ UNCHANGED <<stream, pushed, items, unread>>
    BY <1>10 DEF ServeList, ServedWith
  <2>. HIDE DEF found
  <2>3. CallKnown(done)
    BY <1>2, <2>1, <2>2 DEF CallKnown
  <2>. HIDE DEF done
  <2>. QED BY <1>2, <1>5, <2>2, <2>3
<1>11. ASSUME NEW c \in calls, ServeCount(c) PROVE BellKnown'
  <2>. DEFINE fresh == {n \in Mine : ~n.read}
              done == [c EXCEPT !.count = [n |-> Cardinality(fresh)]]
  <2>1. fresh \in SUBSET ToMe
    BY DEF Mine, ToMe
  <2>2. c.kind = "refresh" /\ calls' = (calls \ {c}) \cup {done}
        /\ UNCHANGED <<stream, pushed, items, unread>>
    BY <1>11 DEF ServeCount, ServedWith
  <2>. HIDE DEF fresh
  <2>3. Cardinality(fresh) \in Nat /\ Cardinality(fresh) <= Cardinality(ToMe)
    BY <1>1, <2>1, FS_Subset, FS_CardinalityType
  <2>4. CallKnown(done)
    BY <1>2, <2>2, <2>3 DEF CallKnown
  <2>. HIDE DEF done
  <2>. QED BY <1>2, <1>5, <2>2, <2>4
<1>12. ASSUME NEW c \in calls, ServeRead(c) \/ ServeReadAll(c) PROVE BellKnown'
  <2>. DEFINE done == [c EXCEPT !.served = TRUE]
  <2>1. /\ c.kind \in {"read", "readAll"} /\ calls' = (calls \ {c}) \cup {done}
        /\ UNCHANGED <<stream, pushed, items, unread>>
    BY <1>12 DEF ServeRead, ServeReadAll, ServedWith
  <2>2. CallKnown(done)
    BY <1>2, <2>1 DEF CallKnown
  <2>. HIDE DEF done
  <2>. QED BY <1>2, <1>5, <2>1, <2>2
<1>13. CASE MountBell
  <2>1. CallKnown(RefreshCall)
    BY DEF CallKnown, RefreshCall
  <2>2. /\ stream' \in {stream, [stream EXCEPT !.state = "connecting"]}
        /\ calls' = calls \cup {RefreshCall} /\ UNCHANGED <<pushed, items, unread>>
    BY <1>13 DEF MountBell
  <2>. QED BY <1>2, <1>5, <2>1, <2>2
<1>14. CASE Subscribed
  BY <1>2, <1>5, <1>14 DEF Subscribed
<1>15. CASE StreamBreaks
  <2>1. /\ stream' = [stream EXCEPT !.state = "connecting"]
        /\ pushed' = <<>> /\ UNCHANGED <<items, unread, calls>>
    BY <1>15 DEF StreamBreaks
  <2>2. pushed' \in Seq(Note) /\ Len(pushed') = 0
    BY <2>1
  <2>3. unread <= 2 * after
    BY <1>1, <1>3
  <2>. QED BY <1>1, <1>2, <1>3, <1>6, <2>1, <2>2, <2>3
<1>16. CASE OnMessage
  <2>1. /\ pushed # <<>> /\ pushed' = Tail(pushed) /\ UNCHANGED <<stream, calls>>
        /\ \/ UNCHANGED <<items, unread>>
           \/ items' = With(Head(pushed).id, FALSE) /\ unread' = unread + 1
    BY <1>16 DEF OnMessage
  <2>2. /\ Tail(pushed) \in Seq(Note) /\ Len(Tail(pushed)) = Len(pushed) - 1
        /\ Head(pushed) \in Note
    BY <1>3, <2>1
  <2>3. DOMAIN items' \subseteq Ids
    <3>1. DOMAIN items' \in {DOMAIN items, DOMAIN items \cup {Head(pushed).id}}
      BY <2>1 DEF With
    <3>2. Head(pushed).id \in Ids
      BY <2>2 DEF Note
    <3>3. DOMAIN items \subseteq Ids
      BY <1>2
    <3>. QED BY <3>1, <3>2, <3>3
  <2>4. unread' \in Nat /\ unread' <= unread + 1
    <3>1. unread' \in {unread, unread + 1}
      BY <2>1
    <3>. QED BY <1>3, <3>1
  <2>. QED BY <1>1, <1>2, <1>3, <1>6, <2>1, <2>2, <2>3, <2>4
<1>17. ASSUME NEW c \in calls PROVE \A d \in Replaced(calls \ {c}) : CallKnown(d)
  <2>1. ASSUME NEW d \in calls, d.kind = "read" PROVE CallKnown([d EXCEPT !.held = FALSE])
    BY <1>2, <2>1 DEF CallKnown
  <2>. QED BY <1>2, <2>1 DEF Replaced
<1>18. ASSUME NEW c \in calls, Refreshed(c) PROVE BellKnown'
  <2>1. /\ c.kind = "refresh" /\ c.list # Nobody /\ c.count # Nobody
        /\ DOMAIN items' = c.list.ids /\ unread' = c.count.n /\ calls' = Replaced(calls \ {c})
        /\ UNCHANGED <<stream, pushed>>
    BY <1>18 DEF Refreshed
  <2>2. c.list.ids \subseteq Ids /\ c.count.n \in Nat /\ c.count.n <= before
    BY <1>2, <2>1 DEF CallKnown, before
  <2>3. unread' + Len(pushed) <= 2 * after
    BY <1>1, <1>3, <2>1, <2>2
  <2>4. Len(pushed) <= after
    BY <1>1, <1>3
  <2>. QED BY <1>2, <1>3, <1>6, <1>17, <2>1, <2>2, <2>3, <2>4
<1>19. ASSUME NEW i \in Ids, MarkRead(i) PROVE BellKnown'
  <2>. DEFINE c == [kind |-> "read", n |-> doings, id |-> i, held |-> TRUE, served |-> FALSE]
  <2>1. CallKnown(c)
    BY DEF CallKnown
  <2>2. calls' = calls \cup {c} /\ UNCHANGED <<stream, pushed, items, unread>>
    BY <1>19 DEF MarkRead
  <2>. HIDE DEF c
  <2>. QED BY <1>2, <1>5, <2>1, <2>2
<1>20. ASSUME NEW c \in calls, MarkedRead(c) PROVE BellKnown'
  <2>1. /\ c.kind = "read" /\ items' \in {items, With(c.id, TRUE)}
        /\ unread' = (IF unread = 0 THEN 0 ELSE unread - 1) /\ calls' = calls \ {c}
        /\ UNCHANGED <<stream, pushed>>
    BY <1>20 DEF MarkedRead
  <2>2. DOMAIN items' \subseteq Ids
    <3>1. DOMAIN items' \in {DOMAIN items, DOMAIN items \cup {c.id}}
      BY <2>1 DEF With
    <3>2. c.id \in Ids
      BY <1>2, <2>1 DEF CallKnown
    <3>3. DOMAIN items \subseteq Ids
      BY <1>2
    <3>. QED BY <3>1, <3>2, <3>3
  <2>3. unread' \in Nat /\ unread' <= unread
    BY <1>3, <2>1
  <2>4. Len(pushed) <= after /\ unread' + Len(pushed) <= 2 * after
    BY <1>1, <1>3, <2>3
  <2>. QED BY <1>2, <1>3, <1>6, <2>1, <2>2, <2>3, <2>4
<1>21. CASE MarkAllRead
  <2>. DEFINE c == [kind |-> "readAll", n |-> doings, served |-> FALSE]
  <2>1. CallKnown(c)
    BY DEF CallKnown
  <2>2. calls' = calls \cup {c} /\ UNCHANGED <<stream, pushed, items, unread>>
    BY <1>21 DEF MarkAllRead
  <2>. HIDE DEF c
  <2>. QED BY <1>2, <1>5, <2>1, <2>2
<1>22. ASSUME NEW c \in calls, MarkedAllRead(c) PROVE BellKnown'
  <2>1. /\ DOMAIN items' = DOMAIN items /\ unread' = 0 /\ calls' = Replaced(calls \ {c})
        /\ UNCHANGED <<stream, pushed>>
    BY <1>22 DEF MarkedAllRead
  <2>2. Len(pushed) <= after /\ 0 + Len(pushed) <= 2 * after
    BY <1>1, <1>3
  <2>. QED BY <1>2, <1>3, <1>6, <1>17, <2>1, <2>2
<1>23. ASSUME NEW c \in calls, CallFails(c) PROVE BellKnown'
  BY <1>2, <1>5, <1>23 DEF CallFails
<1>24. ASSUME NEW s, NEW a, NEW p, NEW q, NEW reassigned, NEW moved,
              \/ OnTaskCreated(s, a, p) \/ OnSubtaskAssigned(s, a, p)
              \/ OnCommentMentioned(s, a, p) \/ OnTaskChanged(s, a, p, q, reassigned, moved)
       PROVE  UNCHANGED <<stream, pushed, items, unread, calls>>
  BY <1>24 DEF OnTaskCreated, OnSubtaskAssigned, OnCommentMentioned, OnTaskChanged, Begin, bellVars
<1>25. ASSUME \/ UNCHANGED noticeVars
              \/ \E h \in hooks : FilterByPreference(h) \/ HookFails(h)
              \/ \E u \in Accounts, k \in Kinds : SetPreference(u, k)
       PROVE  UNCHANGED <<stream, pushed, items, unread, calls>>
  BY <1>25 DEF noticeVars, bellVars, FilterByPreference, HookFails, SetPreference
<1>. QED
  BY <1>7, <1>8, <1>9, <1>10, <1>11, <1>12, <1>13, <1>14, <1>15, <1>16, <1>18, <1>19, <1>20, <1>21,
     <1>22, <1>23, <1>24, <1>25 DEF NoticesNext

(* NotificationsService, useNotifications: what the rows, the hooks and the   *)
(* bell hold; there are never more rows than two for each change and account, *)
(* and the number on the bell never passes that, however its counts, the rows *)
(* pushed and the requests overtake one another.                              *)
THEOREM NoticesTypeCorrect == NoticesSpec => []NoticesTypeOK
<1>1. NoticesInit => NoticesKnown
  <2>. SUFFICES ASSUME NoticesInit PROVE NoticesKnown
    OBVIOUS
  <2>1. /\ notes = {} /\ off = {} /\ visible \subseteq Places /\ hooks = {}
        /\ stream = [state |-> "closed", sees |-> {}] /\ pushed = <<>>
        /\ DOMAIN items = {} /\ unread = 0 /\ calls = {} /\ changes = 0 /\ doings = 0
    BY NoticesAssumption DEF NoticesInit
  <2>2. CountsKnown
    BY <2>1, NoticeBounds DEF CountsKnown
  <2>3. Cardinality(ToMe) = 0
    BY <2>1, FS_EmptySet DEF ToMe
  <2>4. pushed \in Seq(Note) /\ Len(pushed) = 0
    BY <2>1
  <2>. QED BY <2>1, <2>2, <2>3, <2>4 DEF NoticesKnown, BellKnown
<1>2. (/\ ToldInv /\ ToldInv' /\ BellInv /\ BellInv'
       /\ NoticesKnown /\ [NoticesNext]_noticeVars) => NoticesKnown'
  <2>. SUFFICES ASSUME ToldInv, ToldInv', BellInv, BellInv', NoticesKnown, [NoticesNext]_noticeVars
                PROVE  NoticesKnown'
    OBVIOUS
  <2>1. CountsKnown'
    BY NoticeCountsStep DEF NoticesKnown
  <2>2. hooks' \subseteq Hook' /\ off' \subseteq Accounts \X Kinds /\ visible' \subseteq Places
    BY HooksTypedStep DEF Hook, Emission
  <2>3. notes' \subseteq Note'
    BY <2>1, NotesTypedStep DEF Note, Ids
  <2>4. BellKnown'
    BY <2>1, BellKnownStep
  <2>. QED BY <2>1, <2>2, <2>3, <2>4 DEF NoticesKnown
<1>3. ToldInv /\ BellInv /\ NoticesKnown => NoticesTypeOK
  <2>. SUFFICES ASSUME ToldInv, BellInv, NoticesKnown PROVE NoticesTypeOK
    OBVIOUS
  <2>. DEFINE top == MaxChanges * Cardinality(Accounts) * 2
  <2>1. 2 * Cardinality(ToMe) <= top /\ Cardinality(ToMe) \in Nat
    BY RowsBounded DEF NoticesKnown, BellInv
  <2>2. top \in Nat
    BY NoticeBounds
  <2>. HIDE DEF top
  <2>3. Cardinality(Ids) = top
    <3>1. Cardinality(1..top) = top
      BY <2>2, FS_Interval
    <3>. QED BY <3>1 DEF Ids, top
  <2>4. /\ unread \in Nat /\ Len(pushed) \in Nat /\ unread + Len(pushed) <= 2 * Cardinality(ToMe)
        /\ pushed \in Seq(Note)
    BY DEF NoticesKnown, BellKnown
  <2>5. unread \in 0..top
    BY <2>1, <2>2, <2>4
  <2>6. \A i \in DOMAIN pushed : pushed[i] \in Note
    BY <2>4
  <2>7. \A i \in DOMAIN items : items[i] \in BOOLEAN
    BY DEF BellInv
  <2>8. \A c \in calls : c.kind \in {"refresh", "read", "readAll"}
    BY DEF NoticesKnown, BellKnown, CallKnown
  <2>. QED BY <2>3, <2>5, <2>6, <2>7, <2>8 DEF NoticesKnown, BellKnown, CountsKnown, BellInv, NoticesTypeOK
<1>. QED BY <1>1, <1>2, <1>3, NoticesInvAlways, PTL DEF NoticesSpec

---------------------------------------------------------------------------
(* The dialogs in one run *)

(* The form, the bell, the panel and the dialog for many share no variable:   *)
(* seen from the one that moves, a run of the dialogs is a run of it.        *)
THEOREM DialogsSideBySide ==
    Spec => /\ DraftSpec /\ NoticesSpec
            /\ focus = "detail" => DetailSpec
            /\ focus = "bulk" => BulkSpec
<1>1. Init => /\ DraftInit /\ NoticesInit
              /\ focus = "detail" => DetailInit
              /\ focus = "bulk" => BulkInit
  BY DEF Init
<1>2. [Next]_vars =>
        /\ [DetailNext]_detailVars /\ [DraftNext]_draftVars
        /\ [BulkNext]_bulkVars /\ [NoticesNext]_noticeVars
  BY DEF Next, vars
<1>. QED BY <1>1, <1>2, PTL DEF Spec, DetailSpec, DraftSpec, BulkSpec, NoticesSpec

(* What is not chosen stays as it began. *)
LEMMA OthersWait ==
    /\ Spec /\ ~(focus = "detail") => [][focus' = focus /\ UNCHANGED detailVars]_vars /\ [](~(focus = "detail"))
    /\ Spec /\ ~(focus = "bulk") => [][focus' = focus /\ UNCHANGED bulkVars]_vars /\ [](~(focus = "bulk"))
    /\ Spec => [](focus \in Focuses)
    /\ Spec /\ focus = "detail" => [](focus = "detail")
    /\ Spec /\ focus = "bulk" => [](focus = "bulk")
<1>1. [Next]_vars =>
        /\ ~(focus = "detail") => (~(focus = "detail"))' /\ [focus' = focus /\ UNCHANGED detailVars]_vars
        /\ ~(focus = "bulk") => (~(focus = "bulk"))' /\ [focus' = focus /\ UNCHANGED bulkVars]_vars
        /\ focus = "detail" => (focus = "detail")'
        /\ focus = "bulk" => (focus = "bulk")'
        /\ focus \in Focuses => (focus \in Focuses)'
  BY DEF Next, vars
<1>2. Init => focus \in Focuses
  BY DEF Init
<1>. QED BY <1>1, <1>2, PTL DEF Spec

(* The type invariant of the run dialogs, for every value of its constants.  *)
THEOREM DialogsTypeCorrect == Spec => []TypeOK
<1>1. focus \in Focuses /\ DraftTypeOK /\ NoticesTypeOK
      /\ (focus = "detail" => DetailTypeOK) /\ (focus = "bulk" => BulkTypeOK) => TypeOK
  BY DEF TypeOK, Focuses
<1>. QED BY <1>1, DialogsSideBySide, OthersWait, DetailTypeCorrect, DraftTypeCorrect,
            BulkTypeCorrect, NoticesTypeCorrect, PTL

(* What is shown of each dialog by itself holds in the run dialogs, whichever *)
(* moves: the history of the panel and the entries it reads, the drafts, what *)
(* the dialog for many does, who is told what, and the bell.                  *)
THEOREM DialogsSafe ==
    Spec => /\ [](OwnEditsInHistory /\ DraftIsWhatWasTyped /\ ToldOnce /\ BellIsRight)
            /\ EntryExplainsEdit /\ BulkAsConfirmed
<1>. DEFINE Explains == \A s \in Sheets :
                           sheet'[s].row # sheet[s].row /\ tagMaster' = tagMaster
                           => /\ sheet'[s].count = sheet[s].count + 1
                              /\ Explained(sheet[s].row, sheet'[s].entry, sheet'[s].row)
            Confirmed == \A t \in Batch :
                           request # Undefined /\ request' # request /\ rows'[t] # rows[t]
                              /\ intrusions' = intrusions
                           => t \in promised.tasks /\ AsSaid(rows[t], rows'[t], promised.says)
<1>1. ~(focus = "detail") /\ Init => OwnEditsInHistory
  BY DEF Init, DetailFrom, OwnEditsInHistory
<1>2. OwnEditsInHistory /\ UNCHANGED detailVars => OwnEditsInHistory'
  BY DEF OwnEditsInHistory, detailVars, panelState
<1>3. [focus' = focus /\ UNCHANGED detailVars]_vars => UNCHANGED detailVars /\ [Explains]_detailVars
  BY DEF vars
<1>4. [focus' = focus /\ UNCHANGED bulkVars]_vars => [Confirmed]_bulkVars
  BY DEF vars
<1>5. Spec /\ ~(focus = "detail") => []OwnEditsInHistory /\ EntryExplainsEdit
  BY <1>1, <1>2, <1>3, OthersWait, PTL DEF Spec, EntryExplainsEdit
<1>6. Spec /\ ~(focus = "bulk") => BulkAsConfirmed
  BY <1>4, OthersWait, PTL DEF BulkAsConfirmed
<1>. QED BY <1>5, <1>6, DialogsSideBySide, OwnEditsInHistoryAlways, EntryExplainsEditAlways,
            DraftIsWhatWasTypedAlways, BulkAsConfirmedAlways, ToldOnceAlways, BellIsRightAlways, PTL

=============================================================================
