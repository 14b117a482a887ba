---------------------------------- MODULE Menus ----------------------------------
(***************************************************************************)
(* The menu tree (application/iam, platform/iamplatform): what             *)
(* administrators make of it, and the routes a user gets from it.          *)
(*                                                                         *)
(* A menu names its parent; nothing but the checks of the service keeps    *)
(* the table a forest, and they read before the write and outside of its   *)
(* transaction.  A user's routes are built from the menus that are left    *)
(* after those are taken out that the user may not see.                    *)
(*                                                                         *)
(* One tenant.  Names, paths, components and the order among siblings are  *)
(* left out; a menu is shown (active and visible) or not.                  *)
(***************************************************************************)
EXTENDS Naturals, FiniteSets

CONSTANTS
    Menus, Orgs,
    NoOrg,          \* org_id IS NULL; the scope of a caller of the whole tenant
    NoMenu,         \* no parent
    Editors,        \* requests to the administration, one operation each
    EditorScope     \* the organization each is bound to, or NoOrg

(* What the constants have to be. *)
MenusAssumption ==
    /\ EditorScope \in [Editors -> Orgs \cup {NoOrg}]
    /\ NoOrg \notin Orgs /\ NoMenu \notin Menus

VARIABLES
    menu,           \* gvba_iam_menus
    edit,           \* the request of each editor
    epc, eread,     \* editors, and the row each has read
    checked,        \* history: menu as it was when the editor checked it
    excused         \* history: a write came between a check and its write, a root was
                    \*   moved below a menu of its own, or a cycle closed through a menu
                    \*   that the editor does not see

vars == <<menu, edit, epc, eread, checked, excused>>

Org  == Orgs \cup {NoOrg}
Type == {"directory", "menu", "button"}
Row  == [exists : BOOLEAN, org : Org, parent : Menus \cup {NoMenu}, type : Type,
         shown : BOOLEAN, permission : {"none", "granted", "denied"}]
NoRow == [exists |-> FALSE, org |-> NoOrg, parent |-> NoMenu, type |-> "menu",
          shown |-> FALSE, permission |-> "none"]

-----------------------------------------------------------------------------
(* Trees. *)

(* What ListMenus and FindMenu show a caller of scope s. *)
View(t, s) ==
    [m \in Menus |-> IF t[m].exists /\ (s = NoOrg \/ t[m].org \in {NoOrg, s}) THEN t[m] ELSE NoRow]

Parent(t, m) == IF m # NoMenu /\ t[m].exists THEN t[m].parent ELSE NoMenu

(* The menus met on the way up from m, its parent and so on: the least set that holds *)
(* the parent of m and the parents of its members.                                    *)
ClosedUp(t, m, S) == \A x \in S \cup {m} : Parent(t, x) \in S \cup {NoMenu}
Ancestors(t, m) ==
    LET closed == {S \in SUBSET Menus : ClosedUp(t, m, S)}
    IN  {x \in Menus : \A S \in closed : x \in S}

Cyclic(t) == \E m \in Menus : m \in Ancestors(t, m)

(* BuildMenuRoutes on the rows of t: it fails on a cycle.  A menu whose parent is not *)
(* among the rows is a root.                                                           *)
BuildMenuRoutesFails(t) == Cyclic(t)

-----------------------------------------------------------------------------
(* A user's routes. *)

(* The menu and all above it are shown; on a cycle nothing is. *)
structurallyVisible(t, m) ==
    /\ m \notin Ancestors(t, m)
    /\ \A x \in {m} \cup Ancestors(t, m) :
         (t[x].exists \/ x # m) => /\ (t[x].exists => t[x].shown /\ t[x].type # "button")
                                   /\ x \notin Ancestors(t, x)
    /\ t[m].exists

Keeps(t, m) == t[m].permission = "granted" \/ (t[m].permission = "none" /\ t[m].type # "directory")

(* Mutant of the next: the menu and its parent are looked at, not what is above. *)
PermittedShallow(t, m) ==
    /\ t[m].exists /\ t[m].shown /\ t[m].type # "button"
    /\ Keeps(t, m) \/ \E c \in Menus : t[c].exists /\ t[c].parent = m

(* A directory is kept for itself, or for what is below it through directories. *)
permitted(t, m) ==
    /\ structurallyVisible(t, m)
    /\ \/ Keeps(t, m)
       \/ /\ t[m].type = "directory"
          /\ \E c \in Menus :
               /\ structurallyVisible(t, c) /\ Keeps(t, c) /\ m \in Ancestors(t, c)
               /\ \A x \in Ancestors(t, c) : m \in Ancestors(t, x) => t[x].type = "directory"

filterMenusByAccessCodes(t) == [m \in Menus |-> IF permitted(t, m) THEN t[m] ELSE NoRow]

(* The routes of a user, or the failure to build them. *)
ListMenuRoutesForSubject(t) ==
    LET rows == filterMenusByAccessCodes(t)
    IN  [fails |-> BuildMenuRoutesFails(rows), shows |-> {m \in Menus : rows[m].exists}]

-----------------------------------------------------------------------------
(* The service's checks. *)

(* The walk up from p ends at a menu without a parent before it compares that menu. *)
validateMenuParent(t, m, p) ==
    \/ p = NoMenu
    \/ /\ p # m /\ t[p].exists /\ t[p].type # "button"
       /\ \A x \in {p} \cup Ancestors(t, p) :
            t[x].exists /\ t[x].parent # NoMenu => x # m /\ x \notin Ancestors(t, x)

createMenuRequest == [kind : {"create"}, menu : Menus, parent : Menus \cup {NoMenu}, type : Type]
menuPatchRequest == [kind : {"update"}, menu : Menus, parent : Menus \cup {NoMenu, "keep"},
                     type : Type \cup {"keep"}, shown : {"yes", "no", "keep"}]
deleteMenuRequest == [kind : {"delete"}, menu : Menus]
menuReorderRequest == [kind : {"reorder"}, moved : SUBSET Menus, parent : Menus \cup {NoMenu}]

Patched(row, q) ==
    [row EXCEPT !.parent = IF q.parent = "keep" THEN @ ELSE q.parent,
                !.type = IF q.type = "keep" THEN @ ELSE q.type,
                !.shown = IF q.shown = "keep" THEN @ ELSE q.shown = "yes"]
Moved(t, q) == [m \in Menus |-> IF m \in q.moved THEN [t[m] EXCEPT !.parent = q.parent] ELSE t[m]]

CreateMenuChecks(t, q) == ~t[q.menu].exists /\ validateMenuParent(t, q.menu, q.parent)
UpdateMenuChecks(t, q) ==
    /\ t[q.menu].exists
    /\ validateMenuParent(t, q.menu, Patched(t[q.menu], q).parent)
DeleteMenuChecks(t, q) == t[q.menu].exists
(* The whole tree as it would be: every parent is there and no button, and no cycle. *)
ReorderMenusChecks(t, q) ==
    LET new == Moved(t, q) IN
    /\ q.moved # {} /\ \A m \in q.moved : t[m].exists
    /\ \A m \in Menus : new[m].exists /\ new[m].parent # NoMenu =>
                          new[new[m].parent].exists /\ new[new[m].parent].type # "button"
    /\ ~BuildMenuRoutesFails(new)

Passes(t, q) ==
    CASE q.kind = "create" -> CreateMenuChecks(t, q)
      [] q.kind = "update" -> UpdateMenuChecks(t, q)
      [] q.kind = "delete" -> DeleteMenuChecks(t, q)
      [] q.kind = "reorder" -> ReorderMenusChecks(t, q)

(* The reads of one request are one step. *)
Check(e) ==
    LET q == edit[e]
        t == View(menu, EditorScope[e])
    IN
    /\ epc[e] = "new"
    /\ epc' = [epc EXCEPT ![e] = IF Passes(t, q) THEN "write" ELSE "refused"]
    /\ eread' = [eread EXCEPT ![e] = IF q.kind = "update" THEN t[q.menu] ELSE NoRow]
    /\ checked' = [checked EXCEPT ![e] = menu]
    /\ UNCHANGED <<menu, edit, excused>>

-----------------------------------------------------------------------------
(* The store. *)

(* The row is in place, and the change answered; the cache is Access's business. *)
Written(e) ==
    /\ epc' = [epc EXCEPT ![e] = "done"]
    /\ excused' = \/ excused \/ menu # checked[e]
                  \/ \E m \in Menus : /\ m \in Ancestors(menu', m)
                                      /\ menu[m].parent = NoMenu \/ ~View(menu, EditorScope[e])[m].exists
    /\ UNCHANGED <<edit, eread, checked>>
Refused(e) == epc' = [epc EXCEPT ![e] = "refused"] /\ UNCHANGED <<menu, edit, eread, checked, excused>>
Writes(e, kind) == epc[e] = "write" /\ edit[e].kind = kind

(* upsertMenu goes by the tenant and the id: it creates the row, or writes over the row *)
(* that the caller could not see.                                                        *)
CreateMenu(e) ==
    LET q == edit[e] IN
    /\ Writes(e, "create")
    /\ menu' = [menu EXCEPT ![q.menu] = [exists |-> TRUE, org |-> EditorScope[e], parent |-> q.parent,
                                        type |-> q.type, shown |-> TRUE, permission |-> "none"]]
    /\ Written(e)

(* The whole row is written as it was read, but for the patch; a menu without an *)
(* organization becomes one of the caller's.                                      *)
UpdateMenu(e) ==
    LET q == edit[e] IN
    /\ Writes(e, "update")
    /\ menu' = [menu EXCEPT ![q.menu] = [Patched(eread[e], q) EXCEPT !.org = IF @ = NoOrg THEN EditorScope[e] ELSE @]]
    /\ Written(e)

(* Only the children that the caller sees are counted. *)
DeleteMenu(e) ==
    LET q == edit[e]
        t == View(menu, EditorScope[e])
    IN
    /\ Writes(e, "delete")
    /\ IF t[q.menu].exists /\ ~\E c \in Menus : t[c].exists /\ t[c].parent = q.menu
       THEN menu' = [menu EXCEPT ![q.menu] = NoRow] /\ Written(e)
       ELSE Refused(e)

ReorderMenus(e) ==
    LET q == edit[e]
        t == View(menu, EditorScope[e])
    IN
    /\ Writes(e, "reorder")
    /\ IF (\A m \in q.moved : t[m].exists) /\ (q.parent = NoMenu \/ t[q.parent].exists)
       THEN menu' = Moved(menu, q) /\ Written(e)
       ELSE Refused(e)

-----------------------------------------------------------------------------
Start(tree, plan) ==
    /\ menu = tree /\ edit = plan
    /\ epc = [e \in Editors |-> "new"] /\ eread = [e \in Editors |-> NoRow]
    /\ checked = [e \in Editors |-> tree] /\ excused = FALSE

Next == \E e \in Editors :
    Check(e) \/ CreateMenu(e) \/ UpdateMenu(e) \/ DeleteMenu(e) \/ ReorderMenus(e)

-----------------------------------------------------------------------------
(* Properties. *)

Requests == createMenuRequest \cup menuPatchRequest \cup deleteMenuRequest \cup menuReorderRequest

(* Type invariant. *)
TypeOK ==
    /\ menu \in [Menus -> Row] /\ checked \in [Editors -> [Menus -> Row]] /\ eread \in [Editors -> Row]
    /\ edit \in [Editors -> Requests] /\ epc \in [Editors -> {"new", "write", "done", "refused"}]
    /\ excused \in BOOLEAN

(* What the comment in validateMenuParent promises: no change makes a menu its own *)
(* ancestor.  It fails for a root that is moved below a menu of its own.            *)
NoCycle == ~Cyclic(menu)

(* The checks keep the table a forest, but for a root moved below its own branch, for a    *)
(* cycle through a menu that the editor's organization hides (the walk ends there), and    *)
(* for two changes that overlap.                                                           *)
ForestKept == Cyclic(menu) => excused

(* Whatever the table holds - a cycle, a lost parent, a button above a menu - the routes of *)
(* a user are built, and show every menu that is permitted and has only shown menus above.   *)
RoutesServed ==
    LET routes == ListMenuRoutesForSubject(menu) IN
    /\ ~routes.fails
    /\ \A m \in Menus :
         /\ menu[m].exists /\ Keeps(menu, m) /\ structurallyVisible(menu, m) => m \in routes.shows
         /\ m \in routes.shows => \A x \in {m} \cup Ancestors(menu, m) : menu[x].exists => menu[x].shown
=============================================================================
