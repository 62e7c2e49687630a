------------------------------ MODULE SubtaskList ------------------------------
(***************************************************************************)
(* The order of the subtasks of a task: position in SubtasksService, and   *)
(* SubtaskSection.vue, whose list follows a drag before the server does.   *)
(* What else a subtask holds, and its ties to its parent, are in TaskStore.*)
(*                                                                         *)
(* A clerk is a request: it is sent, reads and checks, and writes (one of  *)
(* anybody else matters from its read on).  Those of the section do not    *)
(* wait for one another, but for adding, and the section may go on to      *)
(* another task while they are under way.                                  *)
(***************************************************************************)
EXTENDS Naturals, Sequences, FiniteSets, SequencesExt

CONSTANTS
    Pieces,         \* subtasks there may be
    Parents,        \* tasks
    Clerks,         \* requests under way at a time
    MaxPieceCalls,  \* bound: requests
    MaxSwitches     \* bound: changes of the section's task

ASSUME SubtaskListAssumption ==
    /\ IsFiniteSet(Pieces) /\ Pieces # {}
    /\ Parents # {}
    /\ MaxPieceCalls \in Nat /\ MaxSwitches \in Nat

VARIABLES
    row,        \* the table: of which task each subtask is, and its position
    clerk,      \* the requests under way
    section,    \* SubtaskSection.vue: its task, rows, fetch, and adding
    overlapped, \* history: the tasks two of whose requests below overlapped, and
                \* whose list was not put in order since
    untold,     \* history: something changed the section's list and did not make
                \* it fetch
    pieceCalls,
    switches

subtaskListVars == <<row, clerk, section, overlapped, untold, pieceCalls, switches>>

Gone == [of |-> "nothing"]
Idling == [does |-> "nothing", step |-> "idle"]
Call == [does : {"create", "update", "remove", "reorder"}, of : Parents, own : BOOLEAN,
         step : {"sent", "read"}, piece : Pieces, at : Nat, ids : Seq(Pieces)]

SubtaskListTypeOK ==
    /\ row \in [Pieces -> {Gone} \cup [of : Parents, at : Nat]]
    /\ clerk \in [Clerks -> {Idling} \cup Call]
    /\ section.task \in Parents
    /\ section.rows \in Seq(Pieces)
    /\ section.fetch \in {"idle", "sent", "read"}
    /\ section.answer \in Seq(Pieces)
    /\ section.adding \in {"no", "sent", "loading"}
    /\ overlapped \subseteq Parents
    /\ untold \in BOOLEAN
    /\ pieceCalls \in 0..MaxPieceCalls
    /\ switches \in 0..MaxSwitches

Is(k, does, step) == clerk[k].does = does /\ clerk[k].step = step

There(t) == {s \in Pieces : row[s] # Gone /\ row[s].of = t}

(* Rows of the same position come in any order.                              *)
ListByTask(t) ==
    {q \in SetToSeqs(There(t)) : \A i, j \in DOMAIN q : i < j => row[q[i]].at <= row[q[j]].at}

NextPosition(t) ==
    IF There(t) = {} THEN 0
    ELSE 1 + (CHOOSE n \in {row[s].at : s \in There(t)} : \A s \in There(t) : row[s].at <= n)

(* A request that has read positions and will write some.                    *)
Positioning(k) == clerk[k].step = "read" /\ clerk[k].does # "remove"
Overlap(k, t) ==
    overlapped' = overlapped \cup
        {clerk[c].of : c \in {c \in Clerks \ {k} : Positioning(c) /\ clerk[c].of = t}}

---------------------------------------------------------------------------
(* What the section does when its request has ended: it fetches its list, of *)
(* the task it shows by then, and discards a fetch under way; after a failed *)
(* addition or removal it does not.                                          *)

Refreshes_Heard(does, heard) == heard
Refreshes(does, heard) == heard \/ does \in {"update", "reorder"}

AddingAfter(does, heard) ==
    IF does # "create" THEN section.adding ELSE IF heard THEN "loading" ELSE "no"

Ended(c, heard) ==
    IF ~c.own THEN UNCHANGED section
    ELSE section' = [section EXCEPT
            !.fetch = IF Refreshes(c.does, heard) THEN "sent" ELSE @,
            !.answer = IF Refreshes(c.does, heard) THEN <<>> ELSE @,
            !.adding = AddingAfter(c.does, heard)]

(* The section cannot know of the writes of others, nor of an addition or    *)
(* removal whose answer got lost.                                            *)
Told(c, heard) == c.own /\ (heard \/ c.does \in {"update", "reorder"})

(* The request has written; the answer may get lost.                         *)
Written(k) ==
    /\ clerk' = [clerk EXCEPT ![k] = Idling]
    /\ \E heard \in BOOLEAN :
          /\ Ended(clerk[k], heard)
          /\ untold' = (untold \/ (clerk[k].of = section.task /\ ~Told(clerk[k], heard)))
    /\ UNCHANGED <<pieceCalls, switches>>

---------------------------------------------------------------------------
(* SubtasksService *)

Reads(k, c, s, at) ==
    /\ clerk' = [clerk EXCEPT ![k] = [c EXCEPT !.step = "read", !.piece = s, !.at = at]]
    /\ IF c.does = "remove" THEN UNCHANGED overlapped ELSE Overlap(k, c.of)
    /\ UNCHANGED <<row, section, untold, switches>>

(* Ids are given out anew: none that a request under way has to do with.     *)
Involves(k) == IF clerk[k].does = "reorder" THEN Range(clerk[k].ids) ELSE {clerk[k].piece}

CreateReads(k, c) ==
    /\ c.does = "create"
    /\ \E s \in Pieces :
          /\ row[s] = Gone
          /\ \A d \in Clerks : clerk[d].step = "read" => s \notin Involves(d)
          /\ Reads(k, c, s, NextPosition(c.of))

(* findInTask: the subtask, if it is one of that task.                       *)
FindInTask(k, c) ==
    /\ c.does \in {"update", "remove"}
    /\ c.piece \in There(c.of)
    /\ Reads(k, c, c.piece, row[c.piece].at)

(* The ids must be those of the task's subtasks.                             *)
ReorderReads(k, c) ==
    /\ c.does = "reorder"
    /\ Range(c.ids) = There(c.of)
    /\ Reads(k, c, c.piece, c.at)

Handle(k, c) == CreateReads(k, c) \/ FindInTask(k, c) \/ ReorderReads(k, c)

CreateWrites(k) ==
    /\ Is(k, "create", "read")
    /\ row' = [row EXCEPT ![clerk[k].piece] = [of |-> clerk[k].of, at |-> clerk[k].at]]
    /\ Written(k)
    /\ UNCHANGED overlapped

(* save compares the entity with the row: it writes back the position read,  *)
(* and inserts a row that was removed meanwhile.                             *)
UpdateSaves(k) ==
    /\ Is(k, "update", "read")
    /\ row' = [row EXCEPT ![clerk[k].piece] = [of |-> clerk[k].of, at |-> clerk[k].at]]
    /\ Written(k)
    /\ UNCHANGED overlapped

Removes(k) ==
    /\ Is(k, "remove", "read")
    /\ row' = [row EXCEPT ![clerk[k].piece] = Gone]
    /\ Written(k)
    /\ UNCHANGED overlapped

ReorderWrites(k) ==
    LET ids == clerk[k].ids
        t == clerk[k].of
        alone == ~\E c \in Clerks \ {k} : Positioning(c) /\ clerk[c].of = t
    IN  /\ Is(k, "reorder", "read")
        /\ row' = [s \in Pieces |->
                      IF row[s] = Gone \/ s \notin Range(ids) THEN row[s]
                      ELSE [row[s] EXCEPT !.at = (CHOOSE i \in DOMAIN ids : ids[i] = s) - 1]]
        /\ overlapped' = IF alone /\ Range(ids) = There(t) THEN overlapped \ {t} ELSE overlapped
        /\ Written(k)

(* A request of the section is refused (404 and 400 where the reads above    *)
(* have no step, a parent that is done), fails, or does not arrive: it       *)
(* writes nothing.  One of anybody else is then as good as not there.        *)
CallFails(k) ==
    /\ clerk[k] # Idling
    /\ clerk[k].own
    /\ clerk' = [clerk EXCEPT ![k] = Idling]
    /\ Ended(clerk[k], FALSE)
    /\ UNCHANGED <<row, overlapped, untold, pieceCalls, switches>>

---------------------------------------------------------------------------
(* Requests are sent: by anybody else, or by SubtaskSection.vue *)

Takes(k) ==
    /\ Idling \in Range(clerk)
    /\ k = CHOOSE c \in Clerks : clerk[c] = Idling
    /\ pieceCalls < MaxPieceCalls
    /\ pieceCalls' = pieceCalls + 1

SomePiece == CHOOSE s \in Pieces : TRUE

ACall(does, t, own, s, ids) ==
    [does |-> does, of |-> t, own |-> own, step |-> "sent", piece |-> s, at |-> 0, ids |-> ids]

OtherCalls(t) ==
    {ACall("create", t, FALSE, SomePiece, <<>>)}
    \cup {ACall("update", t, FALSE, s, <<>>) : s \in There(t)}
    \cup {ACall("remove", t, FALSE, s, <<>>) : s \in There(t)}
    \cup {ACall("reorder", t, FALSE, SomePiece, ids) : ids \in SetToSeqs(There(t))}

OtherCall(k, t) == Takes(k) /\ \E c \in OtherCalls(t) : Handle(k, c)

OwnCall(k) == clerk[k].step = "sent" /\ Handle(k, clerk[k]) /\ UNCHANGED pieceCalls

Sends(k, does, s, ids) ==
    /\ Takes(k)
    /\ clerk' = [clerk EXCEPT ![k] = ACall(does, section.task, TRUE, s, ids)]
    /\ UNCHANGED <<row, overlapped, untold, switches>>

AddSubtask(k) ==
    /\ section.adding = "no"
    /\ Sends(k, "create", SomePiece, <<>>)
    /\ section' = [section EXCEPT !.adding = "sent"]

(* Edits and removals of a row, which may be one of the task shown before.   *)
PatchRow(k, s) ==
    /\ s \in Range(section.rows)
    /\ Sends(k, "update", s, <<>>)
    /\ UNCHANGED section

RemoveSubtask(k, s) ==
    /\ s \in Range(section.rows)
    /\ Sends(k, "remove", s, <<>>)
    /\ UNCHANGED section

(* v-model moves the row, then @end sends the ids as they are now.           *)
DragRow(k, i, j) ==
    /\ {i, j} \subseteq 1..Len(section.rows)
    /\ LET rows == InsertAt(RemoveAt(section.rows, i), j, section.rows[i])
       IN  /\ Sends(k, "reorder", SomePiece, rows)
           /\ section' = [section EXCEPT !.rows = rows]

---------------------------------------------------------------------------
(* The section's fetch; its key changes with the task *)

FetchReads ==
    /\ section.fetch = "sent"
    /\ \E q \in ListByTask(section.task) :
          section' = [section EXCEPT !.fetch = "read", !.answer = q]
    /\ untold' = FALSE
    /\ UNCHANGED <<row, clerk, overlapped, pieceCalls, switches>>

Settled == IF section.adding = "loading" THEN "no" ELSE section.adding

FetchShows ==
    /\ section.fetch = "read"
    /\ section' = [section EXCEPT !.fetch = "idle", !.answer = <<>>, !.rows = section.answer,
                                  !.adding = Settled]
    /\ UNCHANGED <<row, clerk, overlapped, untold, pieceCalls, switches>>

(* useAsyncData falls back to its default, an empty list.                    *)
FetchFails ==
    /\ section.fetch # "idle"
    /\ section' = [section EXCEPT !.fetch = "idle", !.answer = <<>>, !.rows = <<>>,
                                  !.adding = Settled]
    /\ untold' = TRUE
    /\ UNCHANGED <<row, clerk, overlapped, pieceCalls, switches>>

(* The section goes on showing the former rows until the answer, or none.    *)
SwitchTo(t) ==
    /\ switches < MaxSwitches
    /\ switches' = switches + 1
    /\ t # section.task
    /\ \E kept \in {<<>>, section.rows} :
          section' = [task |-> t, rows |-> kept, fetch |-> "sent", answer |-> <<>>,
                      adding |-> Settled]
    /\ UNCHANGED <<row, clerk, overlapped, untold, pieceCalls>>

---------------------------------------------------------------------------

(* A task whose subtasks, all but one, were created one after another.       *)
SubtaskListInit ==
    LET t == CHOOSE t \in Parents : TRUE
        first == SetToSeq(Pieces \ {SomePiece})
    IN  /\ row = [s \in Pieces |-> IF s = SomePiece THEN Gone
                    ELSE [of |-> t, at |-> (CHOOSE i \in DOMAIN first : first[i] = s) - 1]]
        /\ clerk = [k \in Clerks |-> Idling]
        /\ section = [task |-> t, rows |-> first, fetch |-> "idle", answer |-> <<>>,
                      adding |-> "no"]
        /\ overlapped = {}
        /\ untold = FALSE
        /\ pieceCalls = 0
        /\ switches = 0

SubtaskListNext ==
    \/ \E k \in Clerks :
          \/ \E t \in Parents : OtherCall(k, t)
          \/ OwnCall(k) \/ CallFails(k)
          \/ CreateWrites(k) \/ UpdateSaves(k) \/ Removes(k) \/ ReorderWrites(k)
          \/ AddSubtask(k)
          \/ \E s \in Pieces : PatchRow(k, s) \/ RemoveSubtask(k, s)
          \/ \E i, j \in 1..Cardinality(Pieces) : DragRow(k, i, j)
    \/ FetchReads \/ FetchShows \/ FetchFails
    \/ \E t \in Parents : SwitchTo(t)

SubtaskListSpec == SubtaskListInit /\ [][SubtaskListNext]_subtaskListVars

---------------------------------------------------------------------------
(* Properties *)

(* subtasks.service.ts, lines 255 to 276 and 398 to 405: two subtasks of a   *)
(* task have the same position only once two requests have overlapped on it, *)
(* and until a reordering of all of them ends alone.                         *)
PositionsDistinct ==
    \A t \in Parents \ overlapped : \A s, r \in There(t) : s # r => row[s].at # row[r].at

(* SubtaskSection.vue, lines 60 to 62, 114 and 184: whatever its requests do *)
(* together and whether they succeed, and however often it has gone on to    *)
(* another task, the section shows the stored list of its task when it waits *)
(* for nothing, unless something changed it was not told of.                 *)
SectionInOrder ==
    (/\ section.fetch = "idle"
     /\ ~untold
     /\ ~\E k \in Clerks : clerk[k].does = "reorder" /\ clerk[k].own)
    => section.rows \in ListByTask(section.task)

(* Both: lists are in order in the table and where they are shown.           *)
SubtasksInOrder == PositionsDistinct /\ SectionInOrder

=============================================================================
