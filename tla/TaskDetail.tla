------------------------------ MODULE TaskDetail ------------------------------
(***************************************************************************)
(* The panel of a task (TaskDetailSlideover.vue) and what an edit from it  *)
(* leaves behind (TasksService.update, task-audit.ts): the row, the entry  *)
(* of the audit trail that tells what changed, and updated_at, by whose    *)
(* change the panel knows that there is a new entry to fetch.              *)
(*                                                                         *)
(* The fields that are compared and stored in the same way are one         *)
(* parameter (Scalars); of tags and flags, which are the same code twice,  *)
(* the tags are here.  A handler is one step (TaskStore takes it apart).   *)
(***************************************************************************)
EXTENDS Integers, Sequences, SequencesExt, FiniteSets

CONSTANTS
    Sheets,       \* tasks
    Scalars,      \* columns of a task, one of them "description"
    Texts,        \* values of a column
    TagCodes, Urls, LinkNames,
    MaxLinks,     \* bound on the links of a task
    MaxSaves,     \* bound: writes of the panel
    MaxOthers,    \* bound: writes of others
    MaxSecs,      \* bound on the clock
    MaxTurns,     \* bound: tasks opened and closed
    MaxStarts,    \* bound: edits begun
    Absent

ASSUME DetailAssumption ==
    /\ MaxLinks \in Nat \ {0} /\ Urls # {} /\ LinkNames # {}
    /\ Absent \notin [url : Urls, label : LinkNames]
    /\ Absent \notin Scalars /\ Absent \notin Sheets /\ {"links", "tags"} \cap Scalars = {} /\ Texts # {}
    /\ MaxSaves \in Nat /\ MaxOthers \in Nat /\ MaxTurns \in Nat /\ MaxStarts \in Nat
    /\ MaxSecs \in Nat \ {0}

VARIABLES
    sheet,        \* table tasks, with what hangs on it and the trail
    tagMaster,    \* table tags
    now,          \* the clock, in seconds
    twice,        \* tasks whose tags changed twice within a second
    copies,       \* tasks.value of the page
    listFetch,
    shownTask,    \* props.task, by name
    history,      \* entries in activities
    historyFetch,
    editingField, editingLinkIndex,
    saves,        \* PATCH requests of this tab
    heard,        \* events on their way
    turns, starts, sent, others

panelState == <<shownTask, history, historyFetch, editingField, editingLinkIndex>>
detailVars == <<sheet, tagMaster, now, twice, copies, listFetch, panelState, saves, heard,
                turns, starts, sent, others>>

TaskLink == [url : Urls, label : LinkNames]
TaskLinks == UNION {[1..n -> TaskLink] : n \in 0..MaxLinks}
SheetFields == Scalars \cup {"links", "tags"}
Instant == [sec : 0..MaxSecs, sub : 0..MaxSaves + MaxOthers]
NotAsked == [state |-> "idle", got |-> Absent]
Asking == [state |-> "sent", got |-> Absent]

DetailTypeOK ==
    /\ DOMAIN sheet = Sheets
    /\ \A s \in Sheets :
         /\ sheet[s].stamp \in Instant /\ sheet[s].count \in 0..MaxSaves + MaxOthers
         /\ sheet[s].mine \in 0..sheet[s].count
         /\ sheet[s].row["links"] \in TaskLinks /\ sheet[s].row["tags"] \subseteq tagMaster
         /\ \A c \in Scalars : sheet[s].row[c] \in Texts
    /\ tagMaster \subseteq TagCodes /\ now \in 1..MaxSecs /\ twice \subseteq Sheets
    /\ shownTask \in Sheets \cup {Absent} /\ history \in 0..MaxSaves + MaxOthers
    /\ {listFetch.state, historyFetch.state} \subseteq {"idle", "sent", "read"}
    /\ editingField \in Scalars \cup {Absent}
    /\ editingLinkIndex \in (0..MaxLinks) \cup {Absent}
    /\ heard \subseteq Sheets
    /\ turns \in 0..MaxTurns /\ starts \in 0..MaxStarts /\ sent \in 0..MaxSaves /\ others \in 0..MaxOthers

---------------------------------------------------------------------------
(* task-audit.ts *)

Nth(links, i) == Cardinality({k \in 1..i : links[k].url = links[i].url})

(* The links that stay, by URL: each new one takes the first old one of the *)
(* same URL that no other took.                                             *)
Pairs(before, after) == (DOMAIN before) \X (DOMAIN after)
Matched_Again(before, after) ==
    {p \in Pairs(before, after) :
        before[p[1]].url = after[p[2]].url /\ Nth(before, p[1]) = 1}
Matched(before, after) ==
    {p \in Pairs(before, after) :
        before[p[1]].url = after[p[2]].url /\ Nth(before, p[1]) = Nth(after, p[2])}

Changed(old, new) == [old |-> old, new |-> new]

(* The changes of some places, from the first to the last. *)
InOrder(changeAt) ==
    LET order == CHOOSE q \in SetToSeqs(DOMAIN changeAt) :
                     \A m, n \in DOMAIN q : m < n => q[m] < q[n]
    IN [n \in DOMAIN order |-> changeAt[order[n]]]

(* buildLinkChanges: renamed, then rewritten in place, removed, added. *)
LinkChanges(before, after) ==
    LET pairs == Matched(before, after)
        kept == {p[1] : p \in pairs}
        stay == {p[2] : p \in pairs}
        inPlace == (DOMAIN before \cap DOMAIN after) \ (kept \cup stay)
        OldOf(j) == before[(CHOOSE p \in pairs : p[2] = j)[1]]
        told ==
            InOrder([j \in {j \in stay : OldOf(j).label # after[j].label} |->
                        Changed(OldOf(j), after[j])])
            \o InOrder([j \in inPlace |-> Changed(before[j], after[j])])
            \o InOrder([i \in DOMAIN before \ (kept \cup inPlace) |-> Changed(before[i], Absent)])
            \o InOrder([j \in DOMAIN after \ (stay \cup inPlace) |-> Changed(Absent, after[j])])
        reordered == \E p, q \in pairs : p[2] < q[2] /\ p[1] > q[1]
    IN IF told = <<>> /\ reordered THEN <<Changed(Absent, Absent)>> ELSE told

(* buildTaskChanges; of a description only that it changed. *)
TaskChanges(before, after) ==
    [scalars |-> {[field |-> c,
                   by |-> IF c = "description" THEN Changed(Absent, Absent)
                          ELSE Changed(before[c], after[c])] :
                     c \in {c \in Scalars : before[c] # after[c]}},
     links |-> LinkChanges(before["links"], after["links"]),
     tags |-> IF before["tags"] = after["tags"] THEN {}
              ELSE {Changed(before["tags"], after["tags"])}]

NoChange == [scalars |-> {}, links |-> <<>>, tags |-> {}]

---------------------------------------------------------------------------
(* TasksService.update *)

(* Codes that are not in the master are ignored (resolveValidTagCodes). *)
Written_Unresolved(row, dto) == [p \in SheetFields |-> IF p \in DOMAIN dto THEN dto[p] ELSE row[p]]
Written(row, dto) ==
    [p \in SheetFields |-> IF p \notin DOMAIN dto THEN row[p]
                     ELSE IF p = "tags" THEN dto[p] \cap tagMaster ELSE dto[p]]

(* save moves updated_at when a column changes, to the microsecond, which no *)
(* two writes share (sub counts them); a tag is no column, so update sets it, *)
(* to the second.                                                            *)
Stamp_SaveOnly(task, changes) ==
    IF changes.tags # {} THEN task.stamp ELSE [sec |-> now, sub |-> task.count + 1]
Stamp(task, changes) ==
    [sec |-> now, sub |-> IF changes.tags # {} THEN 0 ELSE task.count + 1]

Update(s, dto, own) ==
    LET before == sheet[s].row
        after == Written(before, dto)
        changes == TaskChanges(before, after)
        retold == changes.tags # {} /\ sheet[s].tagged = now
    IN IF changes = NoChange THEN UNCHANGED <<sheet, twice>>
       ELSE /\ sheet' = [sheet EXCEPT ![s] =
                           [row |-> after, stamp |-> Stamp(@, changes),
                            entry |-> changes, count |-> @.count + 1,
                            mine |-> IF own THEN @.count + 1 ELSE @.mine,
                            tagged |-> IF changes.tags # {} THEN now ELSE @.tagged]]
            /\ twice' = IF retold THEN twice \cup {s} ELSE twice

---------------------------------------------------------------------------
(* The panel *)

Turn == turns < MaxTurns /\ turns' = turns + 1
Known == copies[shownTask].row

(* Another task: what was being edited is dropped (the watch on its id), the *)
(* entries of its own are fetched.                                           *)
EditsDropped == editingField' = Absent /\ editingLinkIndex' = Absent

Show(s) ==
    /\ Turn
    /\ s # shownTask
    /\ shownTask' = s
    /\ history' = 0 /\ historyFetch' = IF s = Absent THEN NotAsked ELSE Asking
    /\ EditsDropped
    /\ UNCHANGED <<sheet, tagMaster, now, twice, copies, listFetch, saves, heard, starts,
                   sent, others>>

StartEdit(c) ==
    /\ starts < MaxStarts /\ starts' = starts + 1
    /\ shownTask # Absent
    /\ editingField' = c
    /\ UNCHANGED <<sheet, tagMaster, now, twice, copies, listFetch, shownTask, history,
                   historyFetch, editingLinkIndex, saves, heard, turns, sent, others>>

StartEditLink(i) ==
    /\ starts < MaxStarts /\ starts' = starts + 1
    /\ shownTask # Absent
    /\ i = 0 \/ i \in DOMAIN Known["links"]
    /\ editingLinkIndex' = i
    /\ UNCHANGED <<sheet, tagMaster, now, twice, copies, listFetch, shownTask, history,
                   historyFetch, editingField, saves, heard, turns, sent, others>>

(* change-field: the page sends it to the task that is shown. *)
ChangeField(dto) ==
    /\ sent < MaxSaves
    /\ sent' = sent + 1
    /\ saves' = saves \cup {[n |-> sent, task |-> shownTask, dto |-> dto,
                             served |-> FALSE]}

CommitEdit(v) ==
    /\ shownTask # Absent /\ editingField # Absent
    /\ editingField' = Absent
    /\ IF v = Known[editingField] THEN UNCHANGED <<saves, sent>>
       ELSE ChangeField([p \in {editingField} |-> v])
    /\ UNCHANGED <<sheet, tagMaster, now, twice, copies, listFetch, shownTask, history,
                   historyFetch, editingLinkIndex, heard, turns, starts, others>>

(* A link that is gone has no row any more that could be saved. *)
SaveLink(link) ==
    /\ shownTask # Absent /\ editingLinkIndex # Absent
    /\ LET links == Known["links"]
           i == IF editingLinkIndex = 0 THEN Len(links) + 1 ELSE editingLinkIndex
       IN /\ editingLinkIndex \in {0} \cup DOMAIN links /\ i <= MaxLinks
          /\ ChangeField([p \in {"links"} |->
                            IF i \in DOMAIN links THEN ReplaceAt(links, i, link)
                            ELSE Append(links, link)])
    /\ editingLinkIndex' = Absent
    /\ UNCHANGED <<sheet, tagMaster, now, twice, copies, listFetch, shownTask, history,
                   historyFetch, editingField, heard, turns, starts, others>>

DeleteLink(i) ==
    /\ shownTask # Absent
    /\ i \in DOMAIN Known["links"]
    /\ ChangeField([p \in {"links"} |-> RemoveAt(Known["links"], i)])
    /\ UNCHANGED <<sheet, tagMaster, now, twice, copies, listFetch, panelState, heard,
                   turns, starts, others>>

(* The tags of the page's copy, with or without one. *)
PickTag(t) ==
    /\ shownTask # Absent
    /\ ChangeField([p \in {"tags"} |-> IF t \in Known["tags"] THEN Known["tags"] \ {t}
                                      ELSE Known["tags"] \cup {t}])
    /\ UNCHANGED <<sheet, tagMaster, now, twice, copies, listFetch, panelState, heard,
                   turns, starts, others>>

CancelEdit ==
    /\ editingField # Absent \/ editingLinkIndex # Absent
    /\ EditsDropped
    /\ UNCHANGED <<sheet, tagMaster, now, twice, copies, listFetch, shownTask, history,
                   historyFetch, saves, heard, turns, starts, sent, others>>

---------------------------------------------------------------------------
(* The requests and what follows them *)

ServeSave(x) ==
    /\ ~x.served
    /\ Update(x.task, x.dto, TRUE)
    /\ saves' = (saves \ {x}) \cup {[x EXCEPT !.served = TRUE]}
    /\ UNCHANGED <<tagMaster, now, copies, listFetch, panelState, heard, turns, starts,
                   sent, others>>

(* updateTaskField: the answer has the page fetch its list. *)
SaveAnswered(x) ==
    /\ x.served
    /\ saves' = saves \ {x}
    /\ listFetch' = Asking
    /\ UNCHANGED <<sheet, tagMaster, now, twice, copies, panelState, heard, turns,
                   starts, sent, others>>

ListRead ==
    /\ listFetch.state = "sent"
    /\ listFetch' = [state |-> "read",
                     got |-> [s \in Sheets |-> [row |-> sheet[s].row, stamp |-> sheet[s].stamp]]]
    /\ UNCHANGED <<sheet, tagMaster, now, twice, copies, panelState, saves, heard, turns,
                   starts, sent, others>>

(* The watch on updatedAt. *)
ListAnswered ==
    /\ listFetch.state = "read"
    /\ copies' = listFetch.got /\ listFetch' = NotAsked
    /\ historyFetch' = IF shownTask # Absent /\ copies'[shownTask].stamp # copies[shownTask].stamp
                       THEN Asking ELSE historyFetch
    /\ UNCHANGED <<sheet, tagMaster, now, twice, shownTask, history, editingField, editingLinkIndex,
                   saves, heard, turns, starts, sent, others>>

(* useTaskActivities; a fetch that is asked again starts anew. *)
HistoryRead ==
    /\ historyFetch.state = "sent"
    /\ historyFetch' = [state |-> "read", got |-> sheet[shownTask].count]
    /\ UNCHANGED <<sheet, tagMaster, now, twice, copies, listFetch, shownTask, history,
                   editingField, editingLinkIndex, saves, heard, turns, starts, sent, others>>

HistoryAnswered ==
    /\ historyFetch.state = "read"
    /\ history' = historyFetch.got /\ historyFetch' = NotAsked
    /\ UNCHANGED <<sheet, tagMaster, now, twice, copies, listFetch, shownTask,
                   editingField, editingLinkIndex,
                   saves, heard, turns, starts, sent, others>>

(* tasks.changed of another tab: the panel and the page fetch again. *)
Hear(s) ==
    /\ s \in heard
    /\ heard' = heard \ {s}
    /\ listFetch' = Asking
    /\ historyFetch' = IF s = shownTask THEN Asking ELSE historyFetch
    /\ UNCHANGED <<sheet, tagMaster, now, twice, copies, shownTask, history, editingField, editingLinkIndex,
                   saves, turns, starts, sent, others>>

Other == others < MaxOthers /\ others' = others + 1

OtherUpdate(s, dto) ==
    /\ Other
    /\ Update(s, dto, FALSE)
    /\ heard' = heard \cup {s}
    /\ UNCHANGED <<tagMaster, now, copies, listFetch, panelState, saves, turns, starts,
                   sent>>

(* The master of the tags; the rows lose it with no entry. *)
RemoveTag(t) ==
    /\ Other
    /\ t \in tagMaster
    /\ tagMaster' = tagMaster \ {t}
    /\ sheet' = [s \in Sheets |-> [sheet[s] EXCEPT !.row["tags"] = @ \ {t}]]
    /\ UNCHANGED <<now, twice, copies, listFetch, panelState, saves, heard, turns,
                   starts, sent>>

Tick ==
    /\ now < MaxSecs
    /\ now' = now + 1
    /\ UNCHANGED <<sheet, tagMaster, twice, copies, listFetch, panelState, saves, heard,
                   turns, starts, sent, others>>

---------------------------------------------------------------------------

Dtos == {[p \in {"links"} |-> l] : l \in TaskLinks}
        \cup {[p \in {"tags"} |-> t] : t \in SUBSET TagCodes}
        \cup {[p \in {c} |-> v] : c \in Scalars, v \in Texts}

DetailFrom(links) ==
    /\ sheet = [s \in Sheets |->
                  [row |-> [p \in SheetFields |-> IF p = "links" THEN links ELSE IF p = "tags" THEN {}
                                            ELSE CHOOSE v \in Texts : TRUE],
                   stamp |-> [sec |-> 0, sub |-> 0],
                   entry |-> NoChange,
                   count |-> 0, mine |-> 0, tagged |-> -1]]
    /\ tagMaster = TagCodes /\ now = 1 /\ twice = {}
    /\ copies = [s \in Sheets |-> [row |-> sheet[s].row, stamp |-> sheet[s].stamp]]
    /\ listFetch = NotAsked
    /\ shownTask = Absent /\ history = 0 /\ historyFetch = NotAsked
    /\ editingField = Absent /\ editingLinkIndex = Absent
    /\ saves = {} /\ heard = {} /\ turns = 0 /\ starts = 0 /\ sent = 0 /\ others = 0

OneLink == CHOOSE l \in TaskLinks : Len(l) = 1
DetailInit == DetailFrom(OneLink)

DetailNext ==
    \/ \E s \in Sheets \cup {Absent} : Show(s)
    \/ \E c \in Scalars : StartEdit(c)
    \/ \E i \in 0..MaxLinks : StartEditLink(i) \/ DeleteLink(i)
    \/ \E v \in Texts : CommitEdit(v)
    \/ \E l \in TaskLink : SaveLink(l)
    \/ \E t \in TagCodes : PickTag(t) \/ RemoveTag(t)
    \/ CancelEdit \/ Tick
    \/ \E x \in saves : ServeSave(x) \/ SaveAnswered(x)
    \/ ListRead \/ ListAnswered \/ HistoryRead \/ HistoryAnswered
    \/ \E s \in Sheets : Hear(s) \/ \E dto \in Dtos : OtherUpdate(s, dto)

DetailSpec == DetailInit /\ [][DetailNext]_detailVars

---------------------------------------------------------------------------
(* Properties *)

Times(links, l) == Cardinality({i \in DOMAIN links : links[i] = l})
TimesIn(changes, l, side) == Cardinality({i \in DOMAIN changes : changes[i][side] = l})

(* From a row and the entry of an update one gets the row it left: what the  *)
(* entry does not name has not changed, and of the links it names every one  *)
(* that came, went or was rewritten, however they were shuffled, and is      *)
(* empty only when they stand as they stood.                                 *)
Explained(before, entry, after) ==
    /\ \A c \in Scalars :
         IF \E e \in entry.scalars : e.field = c
         THEN \E e \in entry.scalars :
                e.field = c /\ e.by \in {Changed(before[c], after[c]), Changed(Absent, Absent)}
         ELSE before[c] = after[c]
    /\ entry.tags = {} => before["tags"] = after["tags"]
    /\ \A e \in entry.tags : e = Changed(before["tags"], after["tags"])
    /\ entry.links = <<>> => before["links"] = after["links"]
    /\ \A l \in TaskLink :
         Times(after["links"], l) =
           Times(before["links"], l) - TimesIn(entry.links, l, "old")
                                     + TimesIn(entry.links, l, "new")

EntryExplainsEdit ==
    [][\A s \in Sheets :
         sheet'[s].row # sheet[s].row /\ tagMaster' = tagMaster
         => /\ sheet'[s].count = sheet[s].count + 1
            /\ Explained(sheet[s].row, sheet'[s].entry, sheet'[s].row)]_detailVars

(* Once all is answered, the history of the panel has every entry of the     *)
(* panel's own edits, of which no event tells it: updated_at must have       *)
(* moved, whatever was edited (not when tags change twice within a second).  *)
OwnEditsInHistory ==
    (/\ shownTask # Absent /\ shownTask \notin twice
     /\ listFetch = NotAsked /\ historyFetch = NotAsked /\ heard = {} /\ saves = {})
    => history >= sheet[shownTask].mine

=============================================================================
