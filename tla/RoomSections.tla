----------------------------- MODULE RoomSections -----------------------------
(***************************************************************************)
(* The sections in which one user sorts meetings and chat rooms            *)
(* (room-sections.service.ts).  Each request looks its section up, refuses *)
(* one that is not the user's, and writes later, no transaction around it. *)
(* Names and positions are left out.                                       *)
(***************************************************************************)
EXTENDS Naturals, FiniteSets

CONSTANTS
  Resources,     \* meetings and chat rooms
  MaxSections,   \* bound on the sections ever stored
  Clerks,        \* requests that may overlap
  MaxOrders      \* bound on the requests

ASSUME SectionsAssumption == MaxSections \in Nat /\ MaxOrders \in Nat

SectionIds == 1..MaxSections
Resting == [op |-> "resting"]

VARIABLES
  stored,    \* number of sections stored so far
  section,   \* ids in room_sections
  item,      \* room_section_items: id of the row of each section and resource, 0 when none
  items,     \* number of items ever stored
  order,     \* requests under way
  beaten,    \* history: requests that another put their resource somewhere since they looked
  doubled,   \* history: resources put twice by adds that crossed
  revived,   \* history: resources an update put back where they had been
  orders     \* number of requests, for the bound

sectionVars == <<stored, section, item, items, order, beaten, doubled, revived, orders>>

\* Sections of the user in which the resource is.
PlacesOf(r) == {s \in SectionIds : item[s][r] # 0}
NoItems == [r \in Resources |-> 0]

SectionsInit ==
  /\ stored = 0
  /\ section = {}
  /\ item = [s \in SectionIds |-> NoItems]
  /\ items = 0
  /\ order = [k \in Clerks |-> Resting]
  /\ beaten = {} /\ doubled = {} /\ revived = {}
  /\ orders = 0

Take(k, o) ==
  /\ order[k] = Resting
  /\ orders < MaxOrders /\ orders' = orders + 1
  /\ order' = [order EXCEPT ![k] = o]
Pass(k, o) == order' = [order EXCEPT ![k] = o] /\ UNCHANGED orders

CreateSection ==
  /\ stored < MaxSections
  /\ stored' = stored + 1
  /\ section' = section \cup {stored'}
  /\ UNCHANGED <<item, items, order, beaten, doubled, revived, orders>>

----------------------------------------------------------------------------
(* addItem.                                                                *)

AddItem(k, s, r) ==
  /\ s \in section
  /\ Take(k, [op |-> "look", section |-> s, resource |-> r])
  /\ UNCHANGED <<stored, section, item, items, beaten, doubled, revived>>

\* Mutant of AddFind: only the section itself is searched.
AddFindHere(k) ==
  LET o == order[k] IN
  /\ o.op = "look"
  /\ beaten' = beaten \ {k}
  /\ IF item[o.section][o.resource] = 0
     THEN Pass(k, [op |-> "put", section |-> o.section, resource |-> o.resource])
     ELSE Pass(k, [op |-> "drop", section |-> o.section, resource |-> o.resource,
                   id |-> item[o.section][o.resource]])
  /\ UNCHANGED <<stored, section, item, items, doubled, revived>>

\* One row of the resource in any section of the user, if there is one.
AddFind(k) ==
  LET o == order[k] IN
  /\ o.op = "look"
  /\ beaten' = beaten \ {k}
  /\ IF PlacesOf(o.resource) = {}
     THEN Pass(k, [op |-> "put", section |-> o.section, resource |-> o.resource])
     ELSE \E s \in PlacesOf(o.resource) :
            Pass(k, [op |-> "drop", section |-> o.section, resource |-> o.resource,
                     id |-> item[s][o.resource]])
  /\ UNCHANGED <<stored, section, item, items, doubled, revived>>

\* The row found goes.
AddDrop(k) ==
  LET o == order[k] IN
  /\ o.op = "drop"
  /\ item' = [s \in SectionIds |->
       [r \in Resources |-> IF item[s][r] = o.id THEN 0 ELSE item[s][r]]]
  /\ Pass(k, [op |-> "put", section |-> o.section, resource |-> o.resource])
  /\ UNCHANGED <<stored, section, items, beaten, doubled, revived>>

\* The new row: its section has to be there, and not to have the resource.
AddPut(k) ==
  LET o == order[k] IN
  /\ o.op = "put"
  /\ o.section \in section /\ item[o.section][o.resource] = 0
  /\ items' = items + 1
  /\ item' = [item EXCEPT ![o.section][o.resource] = items']
  /\ doubled' = IF k \in beaten THEN doubled \cup {o.resource} ELSE doubled
  /\ beaten' = beaten \cup
       {i \in Clerks \ {k} : order[i].op \in {"drop", "put"} /\ order[i].resource = o.resource}
  /\ Pass(k, Resting)
  /\ UNCHANGED <<stored, section, revived>>

\* A statement fails, or the row is refused; a row that went is not put back.
AddFails(k) ==
  /\ order[k].op \in {"drop", "put"}
  /\ Pass(k, Resting)
  /\ UNCHANGED <<stored, section, item, items, beaten, doubled, revived>>

----------------------------------------------------------------------------
(* removeItem, remove and update.                                          *)

RemoveItem(k, s, r) ==
  /\ s \in section
  /\ Take(k, [op |-> "take", section |-> s, resource |-> r])
  /\ UNCHANGED <<stored, section, item, items, beaten, doubled, revived>>

DeleteItem(k) ==
  LET o == order[k] IN
  /\ o.op = "take"
  /\ item' = [item EXCEPT ![o.section][o.resource] = 0]
  /\ Pass(k, Resting)
  /\ UNCHANGED <<stored, section, items, beaten, doubled, revived>>

RemoveSection(k, s) ==
  /\ s \in section
  /\ Take(k, [op |-> "clear", section |-> s])
  /\ UNCHANGED <<stored, section, item, items, beaten, doubled, revived>>

\* The rows of its items go with it.
DeleteSection(k) ==
  LET o == order[k] IN
  /\ o.op = "clear"
  /\ section' = section \ {o.section}
  /\ item' = [item EXCEPT ![o.section] = NoItems]
  /\ Pass(k, Resting)
  /\ UNCHANGED <<stored, items, beaten, doubled, revived>>

\* The section is read with its items, which its entity loads eagerly.
UpdateSection(k, s) ==
  /\ s \in section
  /\ Take(k, [op |-> "save", section |-> s, read |-> item[s]])
  /\ UNCHANGED <<stored, section, item, items, beaten, doubled, revived>>

\* save() cascades to the items read: those that have gone are inserted again, the section
\* too; an item that has come since would lose its section, which the column refuses.
SaveSection(k) ==
  LET o == order[k]
      gone == {r \in Resources : o.read[r] # 0 /\ item[o.section][r] = 0} IN
  /\ o.op = "save"
  /\ IF \E r \in Resources : item[o.section][r] \notin {0, o.read[r]}
     THEN UNCHANGED <<section, item, revived>>
     ELSE /\ section' = section \cup {o.section}
          /\ item' = [item EXCEPT ![o.section] = o.read]
          /\ revived' = revived \cup gone
  /\ Pass(k, Resting)
  /\ UNCHANGED <<stored, items, beaten, doubled>>

----------------------------------------------------------------------------
SectionsNext ==
  \/ CreateSection
  \/ \E k \in Clerks :
       \/ \E s \in SectionIds :
            \/ RemoveSection(k, s) \/ UpdateSection(k, s)
            \/ \E r \in Resources : AddItem(k, s, r) \/ RemoveItem(k, s, r)
       \/ AddFind(k) \/ AddDrop(k) \/ AddPut(k) \/ AddFails(k)
       \/ DeleteItem(k) \/ DeleteSection(k) \/ SaveSection(k)

SectionsSpec == SectionsInit /\ [][SectionsNext]_sectionVars

----------------------------------------------------------------------------
(* Properties.                                                             *)

SectionsTypeOK ==
  /\ stored \in 0..MaxSections
  /\ section \subseteq 1..stored
  /\ item \in [SectionIds -> [Resources -> 0..items]]
  /\ \A s \in SectionIds \ section : item[s] = NoItems
  /\ items \in 0..MaxOrders
  /\ \A k \in Clerks :
       order[k].op \in {"resting", "look", "drop", "put", "take", "clear", "save"}
  /\ beaten \subseteq Clerks /\ doubled \subseteq Resources /\ revived \subseteq Resources
  /\ orders \in 0..MaxOrders

\* "If the resource is already in another section of the same user, it is moved"
\* (room-sections.service.ts, line 128): a resource is in two sections only if two adds of
\* it crossed, or the update of a section crossed its move and put it back.
InOneSection ==
  \A r \in Resources \ (doubled \cup revived) : Cardinality(PlacesOf(r)) <= 1
=============================================================================
