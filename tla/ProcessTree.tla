----------------------------- MODULE ProcessTree -----------------------------
(***************************************************************************)
(* ui/MainWindow: the tree of processes, from which the user selects the   *)
(* target.  OnProcessListReady throws the old items away, makes an item    *)
(* for each listed process, hangs it below the item of its parent's pid,   *)
(* expands and selects by pid what was expanded and selected before, and   *)
(* filters again.                                                          *)
(*                                                                         *)
(* Windows never changes a process's parent pid, also when the parent has  *)
(* exited and its pid has gone to another process: the parents need not be *)
(* a forest.  What is listed here is what runs at that moment; Pipeline    *)
(* models a list that is late, and what the selection means for the target.*)
(***************************************************************************)
EXTENDS Naturals, FiniteSets

CONSTANTS
  Pids,       \* process ids, reused once their process has exited
  NoPid,      \* no pid: the parent of an item at the top, an empty selection
  NoText,     \* the empty filter
  MaxBirths   \* bound: processes that ever start

ASSUME PidsAssumption == IsFiniteSet(Pids) /\ NoPid \notin Pids /\ NoText \notin Pids
ASSUME BirthsAssumption == MaxBirths \in Nat

Births == 1 .. MaxBirths
Texts == Pids \cup {NoText}   \* texts of the filter, by the item that contains them

VARIABLES
  processes,  \* the system: the parent pid and the birth of each running process
  births,     \* how many processes have started
  parent,     \* the items of the last list, and each one's item above it
  birth,      \* which process an item stands for
  hidden,     \* items that are hidden
  expanded,   \* items that are expanded
  selected,   \* the selected item
  text        \* process_filter_

system_vars == <<processes, births>>
item_vars == <<parent, birth>>
vars == <<system_vars, item_vars, hidden, expanded, selected, text>>

Listed == DOMAIN processes
Items == DOMAIN parent

Init ==
  /\ processes = << >> /\ births = 0
  /\ parent = << >> /\ birth = << >>
  /\ hidden = {} /\ expanded = {} /\ selected = NoPid
  /\ text = NoText

-----------------------------------------------------------------------------
(* The system *)

\* A process is started by a running one, or by one that is not listed.
ProcessStarts(p, creator) ==
  /\ births < MaxBirths
  /\ p \notin Listed
  /\ creator \in Listed \cup {NoPid}
  /\ births' = births + 1
  /\ processes' = [q \in Listed \cup {p} |->
       IF q = p THEN [parent |-> creator, birth |-> births'] ELSE processes[q]]
  /\ UNCHANGED <<item_vars, hidden, expanded, selected, text>>

ProcessExits(p) ==
  /\ p \in Listed
  /\ processes' = [q \in Listed \ {p} |-> processes[q]]
  /\ UNCHANGED <<births, item_vars, hidden, expanded, selected, text>>

-----------------------------------------------------------------------------
(* Trees: a function from items to the item above, NoPid at the top *)

Children(up, p) == {c \in DOMAIN up : up[c] = p}

\* From the items start on, n times from each item to next[item].
Steps(start, next) ==
  LET Step[n \in 0 .. Cardinality(DOMAIN next)] ==
        IF n = 0 THEN start ELSE start \cup UNION {next[p] : p \in Step[n - 1]}
  IN  Step
Reached(start, next) == Steps(start, next)[Cardinality(DOMAIN next)]

\* What the widget reaches from its top-level items.  Items whose parents go in
\* a circle hang below each other and below nothing else.
InTree(up) == Reached(Children(up, NoPid), [p \in DOMAIN up |-> Children(up, p)])

\* The items above p.
Above(up, p) == {up[p]} \ {NoPid}
Ancestors(up, p) == Reached(Above(up, p), [q \in DOMAIN up |-> Above(up, q)])

-----------------------------------------------------------------------------
(* The filter *)

\* Without a text every item matches.
Matches(p, t) == t = NoText \/ t = p

\* FilterTreeItem's result for each item: it matches, or something below does.
\* In n steps it is what follows from n levels below.
FoundWithin(up, t) ==
  LET Found[n \in 0 .. Cardinality(DOMAIN up)] ==
        {p \in InTree(up) :
           Matches(p, t) \/ (n > 0 /\ Children(up, p) \cap Found[n - 1] # {})}
  IN  Found
FilterTreeItem(up, t) == FoundWithin(up, t)[Cardinality(DOMAIN up)]

HiddenBy(up, t) == InTree(up) \ FilterTreeItem(up, t)

\* Seeded fault: what matches is expanded instead of what is above it.
ExpandedByMatch(up, t) ==
  IF t = NoText THEN {} ELSE {p \in InTree(up) : Matches(p, t)}

\* What is above a match is expanded; nothing is for an empty text.
ExpandedBy(up, t) ==
  IF t = NoText THEN {}
  ELSE {p \in InTree(up) : Children(up, p) \cap FilterTreeItem(up, t) # {}}

ProcessFilterChanged(t) ==
  /\ t # text
  /\ text' = t
  /\ hidden' = HiddenBy(parent, t)
  /\ expanded' = expanded \cup ExpandedBy(parent, t)
  /\ UNCHANGED <<system_vars, item_vars, selected>>

-----------------------------------------------------------------------------
(* A new list *)

\* Seeded fault: an item whose parent is not listed is added nowhere.
ParentItemsOrphaned ==
  [p \in Listed |->
     IF processes[p].parent \in (Listed \ {p}) \cup {NoPid} THEN processes[p].parent ELSE p]

\* Seeded fault: nobody asks whether the parent is listed.
ParentItemsDangling == [p \in Listed |-> processes[p].parent]

\* The item of the parent's pid, if there is one that is another.
ParentItems ==
  [p \in Listed |->
     IF processes[p].parent \in Listed \ {p} THEN processes[p].parent ELSE NoPid]

\* The old item's pid is selected again, if the widget has an item of that pid.
Reselected == IF selected \in InTree(ParentItems) THEN selected ELSE NoPid

\* Seeded fault: the selected item is not scrolled to.
OpenedNotScrolled ==
  expanded \cap Children(parent, NoPid) \cap Children(ParentItems, NoPid)

\* Only items at the top are expanded as before; scrollToItem then opens what
\* is above the selected item.
Opened ==
  (expanded \cap Children(parent, NoPid) \cap Children(ParentItems, NoPid))
    \cup (IF Reselected = NoPid THEN {} ELSE Ancestors(ParentItems, Reselected))

\* Seeded fault: the new items are not filtered.
ProcessListReadyUnfiltered ==
  /\ parent' = ParentItems
  /\ birth' = [p \in Listed |-> processes[p].birth]
  /\ selected' = Reselected
  /\ hidden' = {}
  /\ expanded' = Opened
  /\ UNCHANGED <<system_vars, text>>

ProcessListReady ==
  /\ parent' = ParentItems
  /\ birth' = [p \in Listed |-> processes[p].birth]
  /\ selected' = Reselected
  /\ hidden' = HiddenBy(ParentItems, text)
  /\ expanded' = Opened \cup ExpandedBy(ParentItems, text)
  /\ UNCHANGED <<system_vars, text>>

-----------------------------------------------------------------------------
(* The user *)

\* What can be seen: the item and what is above it are not hidden, and what is
\* above it is expanded.
Visible(p) ==
  /\ p \in InTree(parent)
  /\ ({p} \cup Ancestors(parent, p)) \cap hidden = {}
  /\ Ancestors(parent, p) \subseteq expanded

Expand(p) ==
  /\ Visible(p) /\ p \notin expanded
  /\ Children(parent, p) # {}
  /\ expanded' = expanded \cup {p}
  /\ UNCHANGED <<system_vars, item_vars, hidden, selected, text>>

Collapse(p) ==
  /\ Visible(p) /\ p \in expanded
  /\ expanded' = expanded \ {p}
  /\ UNCHANGED <<system_vars, item_vars, hidden, selected, text>>

\* A click: OnProcessSelectionChanged makes the item's process the target.
Select(p) ==
  /\ Visible(p) /\ p # selected
  /\ selected' = p
  /\ UNCHANGED <<system_vars, item_vars, hidden, expanded, text>>

Next ==
  \/ \E p \in Pids : \/ \E creator \in Pids \cup {NoPid} : ProcessStarts(p, creator)
                     \/ ProcessExits(p)
                     \/ Expand(p) \/ Collapse(p) \/ Select(p)
  \/ \E t \in Texts : ProcessFilterChanged(t)
  \/ ProcessListReady

Spec == Init /\ [][Next]_vars

-----------------------------------------------------------------------------
(* Properties *)

\* Every variable stays in its range.
TypeOK ==
  /\ births \in 0 .. MaxBirths
  /\ Listed \subseteq Pids
  /\ processes \in [Listed -> [parent : Pids \cup {NoPid}, birth : Births]]
  /\ Items \subseteq Pids
  /\ parent \in [Items -> Items \cup {NoPid}]
  /\ birth \in [Items -> Births]
  /\ hidden \subseteq Items /\ expanded \subseteq Items
  /\ selected \in Items \cup {NoPid}
  /\ text \in Texts

\* A listed process is missing from the tree only if its parents lead to a
\* process that is younger than its own child, because it has the pid of a
\* parent that exited (MainWindow.cpp:1402-1406 goes by the pid alone).
MissingOnlyByReuse ==
  \A p \in Items \ InTree(parent) :
    \E q \in {p} \cup Ancestors(parent, p) :
      parent[q] # NoPid /\ birth[parent[q]] > birth[q]

\* At any time, whatever was typed, refreshed, expanded and selected before, an
\* item is hidden exactly if neither it nor anything below it matches.
HiddenIfNothingMatches ==
  \A p \in InTree(parent) :
    p \in hidden <=> \A q \in InTree(parent) :
                       Matches(q, text) => p \notin {q} \cup Ancestors(parent, q)

\* Who types a text sees every process in the tree that matches it, however
\* deep it is and whatever was collapsed.
TypingReveals ==
  [][text' # text /\ text' # NoText =>
       \A p \in InTree(parent) : Matches(p, text') => Visible(p)']_vars

\* A new list takes the selection neither from a pid that is still listed and
\* can be reached, nor out of sight unless the filter hides it.
SelectionStays ==
  [][ProcessListReady /\ selected \in Listed /\ selected \in InTree(parent') =>
       /\ selected' = selected
       /\ selected \notin hidden' => Visible(selected)']_vars

\* No two processes were born at once, and no item is its own parent.
BirthsDiffer ==
  /\ \A p \in Listed : processes[p].birth <= births
  /\ \A p, q \in Listed : p # q => processes[p].birth # processes[q].birth
  /\ Items = DOMAIN birth
  /\ \A p, q \in Items : p # q => birth[p] # birth[q]
  /\ \A p \in Items : parent[p] # p

\* The inductive invariant: what is hidden is always what the present text
\* hides of the present items.
IInv ==
  /\ TypeOK
  /\ BirthsDiffer
  /\ hidden = HiddenBy(parent, text)
=============================================================================
