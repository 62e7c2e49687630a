------------------------------- MODULE TaskDraft -------------------------------
(***************************************************************************)
(* The form for a new task (TaskCreateSlideover.vue).  What is typed is    *)
(* kept in localStorage, one draft per project, when the form is closed or *)
(* the page left, until the task is created or the draft thrown away.  The *)
(* draft may outlive the status and the tags it names.                     *)
(*                                                                         *)
(* Content stands for the fields one types in, the status for those with a *)
(* default, the tags for those that name rows of a master.                 *)
(***************************************************************************)
EXTENDS Naturals, Sequences, SequencesExt, FiniteSets

CONSTANTS
    Plans,        \* projects
    Words,        \* what can be typed
    Empty,        \* nothing typed
    Steps, Chips, \* codes of statuses and tags
    MaxStrokes,   \* bound: what the user does
    MaxReforms,   \* bound: changes of the masters
    Away          \* no page, no draft

VARIABLES
    at,            \* the project whose page is shown
    slideover, draft, restoredDraft, keepOpen,
    kept,        \* localStorage
    statuses, chips,   \* masters of each project
    submitting,    \* POST of a task
    typed,         \* what was typed since the last creation or discard
    blurred,       \* typed, or the page left, while a POST was on its way
    strokes, reforms

formVars == <<slideover, draft, restoredDraft>>
draftVars == <<at, formVars, keepOpen, kept, statuses, chips, submitting, typed, blurred,
               strokes, reforms>>

Draft == [content : Words \cup {Empty}, status : Steps \cup {Away}, chips : SUBSET Chips]

ASSUME DraftAssumption ==
    /\ IsFiniteSet(Steps) /\ Away \notin Plans \cup Draft
    /\ MaxStrokes \in Nat /\ MaxReforms \in Nat

DraftTypeOK ==
    /\ at \in Plans \cup {Away}
    /\ slideover \in BOOLEAN /\ restoredDraft \in BOOLEAN /\ keepOpen \in BOOLEAN
    /\ draft \in Draft /\ kept \in [Plans -> Draft \cup {Away}]
    /\ \A p \in Plans : statuses[p] \in Seq(Steps) /\ chips[p] \subseteq Chips
    /\ submitting \in [plan : Plans, draft : Draft, here : BOOLEAN] \cup {Away}
    /\ typed \in [Plans -> Words \cup {Empty}] /\ blurred \subseteq Plans
    /\ strokes \in 0..MaxStrokes /\ reforms \in 0..MaxReforms

---------------------------------------------------------------------------

MakeInitialDraft(p) ==
    [content |-> Empty, status |-> IF statuses[p] = <<>> THEN Away ELSE Head(statuses[p]),
     chips |-> {}]

IsDirtyDraft(p, d) == d # MakeInitialDraft(p)

ReadStoredDraft(p) == IF kept[p] = Away THEN MakeInitialDraft(p) ELSE kept[p]

(* The watch on the draft: nothing is kept of a draft that is as it began. *)
Drafted(p, d) ==
    /\ draft' = d
    /\ kept' = [kept EXCEPT ![p] = IF IsDirtyDraft(p, d) THEN d ELSE Away]

SanitizeDraft(p, d) ==
    [d EXCEPT !.status = IF Contains(statuses[p], @) THEN @ ELSE MakeInitialDraft(p).status,
              !.chips = @ \cap chips[p]]

Stroke == strokes < MaxStrokes /\ strokes' = strokes + 1

(* Another project is another page, and its form another instance. *)
VisitPlan(p) ==
    /\ Stroke
    /\ at = Away
    /\ at' = p /\ slideover' = FALSE /\ restoredDraft' = FALSE
    /\ Drafted(p, ReadStoredDraft(p))
    /\ UNCHANGED <<keepOpen, statuses, chips, submitting, typed, blurred, reforms>>

(* The answer to a POST finds nothing to reset; a reload is a leave too. *)
LeavePlan ==
    /\ at # Away
    /\ at' = Away
    /\ IF submitting = Away THEN UNCHANGED <<submitting, blurred>>
       ELSE /\ submitting' = [submitting EXCEPT !.here = FALSE]
            /\ blurred' = blurred \cup {submitting.plan}
    /\ UNCHANGED <<formVars, keepOpen, kept, statuses, chips, typed, strokes, reforms>>

(* What is left of a kept draft is shown, with a banner; the rest begins *)
(* anew with the defaults of today.                                        *)
OpenForm ==
    /\ Stroke
    /\ at # Away /\ ~slideover
    /\ slideover' = TRUE
    /\ LET clean == SanitizeDraft(at, draft)
           left == IsDirtyDraft(at, draft) /\ IsDirtyDraft(at, clean)
       IN /\ restoredDraft' = left
          /\ Drafted(at, IF left THEN clean ELSE MakeInitialDraft(at))
    /\ UNCHANGED <<at, keepOpen, statuses, chips, submitting, typed, blurred, reforms>>

CloseForm ==
    /\ slideover /\ at # Away
    /\ slideover' = FALSE /\ restoredDraft' = FALSE
    /\ UNCHANGED <<at, draft, keepOpen, kept, statuses, chips, submitting, typed, blurred,
                   strokes, reforms>>

Fill(d) ==
    /\ Stroke
    /\ slideover /\ at # Away
    /\ d # draft
    /\ Drafted(at, d)
    /\ UNCHANGED <<at, slideover, restoredDraft, keepOpen, statuses, chips, submitting,
                   reforms>>

Type(w) ==
    /\ Fill([draft EXCEPT !.content = w])
    /\ typed' = [typed EXCEPT ![at] = w]
    /\ blurred' = IF submitting = Away THEN blurred ELSE blurred \cup {at}

Pick ==
    /\ at # Away
    /\ \/ \E s \in ToSet(statuses[at]) : Fill([draft EXCEPT !.status = s])
       \/ \E c \in chips[at] : Fill([draft EXCEPT !.chips =
                                       IF c \in @ THEN @ \ {c} ELSE @ \cup {c}])
    /\ UNCHANGED <<typed, blurred>>

Forgotten(p) == typed' = [typed EXCEPT ![p] = Empty] /\ blurred' = blurred \ {p}

(* The button of the banner, and the one that closes as well. *)
Discard(close) ==
    /\ Stroke
    /\ slideover /\ at # Away /\ (restoredDraft \/ close)
    /\ Drafted(at, MakeInitialDraft(at))
    /\ restoredDraft' = FALSE /\ slideover' = ~close
    /\ Forgotten(at)
    /\ UNCHANGED <<at, keepOpen, statuses, chips, submitting, reforms>>

ToggleKeepOpen ==
    /\ Stroke
    /\ slideover /\ at # Away
    /\ keepOpen' = ~keepOpen
    /\ UNCHANGED <<at, formVars, kept, statuses, chips, submitting, typed, blurred,
                   reforms>>

Submit ==
    /\ Stroke
    /\ slideover /\ at # Away
    /\ draft.content # Empty /\ draft.status # Away
    /\ submitting = Away
    /\ submitting' = [plan |-> at, draft |-> draft, here |-> TRUE]
    /\ UNCHANGED <<at, formVars, keepOpen, kept, statuses, chips, typed, blurred,
                   reforms>>

(* Created: the draft begins anew, the form stays open if asked to. *)
Created_Kept(p) == UNCHANGED <<draft, kept>>
Created(p) == Drafted(p, MakeInitialDraft(p))

SubmitAnswered ==
    /\ submitting # Away
    /\ submitting' = Away
    /\ \/ UNCHANGED <<formVars, kept, typed, blurred>>
       \/ /\ ~submitting.here
          /\ UNCHANGED <<formVars, kept, typed, blurred>>
       \/ /\ submitting.here
          /\ Created(at)
          /\ restoredDraft' = FALSE /\ slideover' = (slideover /\ keepOpen)
          /\ IF at \in blurred THEN blurred' = blurred /\ typed' = typed ELSE Forgotten(at)
    /\ UNCHANGED <<at, keepOpen, statuses, chips, strokes, reforms>>

(* The masters of a project, in another page. *)
Reform(p) ==
    /\ reforms < MaxReforms /\ reforms' = reforms + 1
    /\ \/ \E i \in DOMAIN statuses[p] :
            statuses' = [statuses EXCEPT ![p] = RemoveAt(@, i)] /\ UNCHANGED chips
       \/ \E c \in chips[p] : chips' = [chips EXCEPT ![p] = @ \ {c}] /\ UNCHANGED statuses
    /\ UNCHANGED <<at, formVars, keepOpen, kept, submitting, typed, blurred, strokes>>

DraftInit ==
    /\ at = Away /\ slideover = FALSE /\ restoredDraft = FALSE /\ keepOpen = FALSE
    /\ statuses = [p \in Plans |-> SetToSeq(Steps)] /\ chips = [p \in Plans |-> Chips]
    /\ draft = [content |-> Empty, status |-> Away, chips |-> {}]
    /\ kept = [p \in Plans |-> Away] /\ submitting = Away
    /\ typed = [p \in Plans |-> Empty] /\ blurred = {}
    /\ strokes = 0 /\ reforms = 0

DraftNext ==
    \/ \E p \in Plans : VisitPlan(p) \/ Reform(p)
    \/ LeavePlan \/ OpenForm \/ CloseForm \/ Pick \/ ToggleKeepOpen \/ Submit \/ SubmitAnswered
    \/ \E w \in Words \cup {Empty} : Type(w)
    \/ \E close \in BOOLEAN : Discard(close)

DraftSpec == DraftInit /\ [][DraftNext]_draftVars

---------------------------------------------------------------------------
(* Properties *)

(* The form shows what was typed for the project since a task was created or  *)
(* the draft thrown away, across closing and leaving: nothing typed is lost,  *)
(* and nothing that was created or thrown away comes back.  (Not promised for *)
(* what is typed, and for a page that is left, while a creation is under way.) *)
DraftIsWhatWasTyped ==
    /\ \A p \in Plans \ blurred :
         typed[p] # Empty => kept[p] # Away /\ kept[p].content = typed[p]
    /\ at \notin blurred \cup {Away} => draft.content = typed[at]
=============================================================================
