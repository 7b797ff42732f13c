------------------------------- MODULE Catalog -------------------------------
(***************************************************************************)
(* A product, the categories and modifier groups it hangs on, and the page *)
(* it is edited on (apps/api/src/modules/catalog/catalog.service.ts,       *)
(* apps/admin/src/app/products/page.tsx). No handler of the service opens  *)
(* a transaction: each of its statements takes effect by itself, and the   *)
(* database keeps only the foreign keys and the primary key of a link.     *)
(* Name, price, flags and variants are left out; the options of a group    *)
(* are not told apart from the group.                                      *)
(***************************************************************************)
EXTENDS Integers

CONSTANTS
  Categories,  \* ids of categories
  Groups,      \* ids of modifier groups
  Editors,     \* requests of programs that use the API, in flight at a time
  Pages,       \* open product pages, with one request each
  MaxStock     \* bound: the stock that is entered

\* What is assumed of the constants, wherever they are given values.
CatalogAssumption == Editors \cap Pages = {} /\ MaxStock \in Nat

VARIABLES
  categories,  \* Category rows
  groups,      \* ModifierGroup rows
  product,     \* the Product row: category, stock, archived or not, or none yet
  links,       \* its ProductModifierGroup rows
  request,     \* Editors and Pages -> the request in progress
  page,        \* Pages -> the row its list shows and its form
  expected,    \* ghost: the stock last entered, less what was sold
  choices,     \* ghost: the sets of groups that any of those under way may have meant
  bruised      \* ghost: a rewriting of the links was cut short

vars == <<categories, groups, product, links, request, page, expected, choices, bruised>>

server == <<categories, groups, product, links>>
ghosts == <<expected, choices, bruised>>

-----------------------------------------------------------------------------
NoCategory == "no category"

Absent == [category |-> NoCategory, stock |-> 0, archived |-> FALSE, exists |-> FALSE]

Row(category, stock) == [category |-> category, stock |-> stock, archived |-> FALSE, exists |-> TRUE]

\* The fields of a body: those of the form, or none of them. "moved": ghost, to send the
\* stock changes it, for it was entered by hand, or the row it was read from is out of
\* date: something was sold or a stock was entered since.
EMPTY_FORM == [mode |-> "closed", stock |-> 0, moved |-> FALSE]

NoBody == [category |-> NoCategory, stock |-> 0, moved |-> FALSE, sent |-> FALSE]

\* "choice": modifierGroupIds, where "relinks" says that it was sent.
Idle == [pc |-> "idle", op |-> "none", body |-> NoBody, relinks |-> FALSE, choice |-> {},
         category |-> NoCategory]

NotListed == [stock |-> 0, moved |-> FALSE, listed |-> FALSE]

Finish(r) == request' = [request EXCEPT ![r] = Idle]
Goto(r, pc) == request' = [request EXCEPT ![r].pc = pc]

\* All is done, and the answer on its way.
Answer(r) == request' = [request EXCEPT ![r] = [Idle EXCEPT !.pc = "saved"]]

Start(r, op, body, relinks, choice) ==
  request' = [request EXCEPT ![r] = [Idle EXCEPT !.pc = "look", !.op = op, !.body = body,
                                                 !.relinks = relinks, !.choice = choice]]

\* What a page and a request hold of the product is out of date from now on.
Overtaken(p) ==
  [list |-> [page[p].list EXCEPT !.moved = page[p].list.listed],
   form |-> [page[p].form EXCEPT !.moved = @ \/ page[p].form.mode = "edit"]]

Late(r) == [request[r] EXCEPT !.body.moved = @ \/ request[r].body.sent]

\* Requests in the middle of replacing the links of the product.
Rewriting == { r \in Editors : request[r].pc = "link" }

Init ==
  /\ categories = Categories
  /\ groups = Groups
  /\ product = Absent
  /\ links = {}
  /\ request = [r \in Editors \cup Pages |-> Idle]
  /\ page = [p \in Pages |-> [list |-> NotListed, form |-> EMPTY_FORM]]
  /\ expected = 0
  /\ choices = {{}}
  /\ bruised = FALSE

-----------------------------------------------------------------------------
(* Categories and groups.                                                    *)

\* createCategory and createModifierGroup, each one statement.
CreateCategory(c) ==
  /\ c \notin categories
  /\ categories' = categories \cup {c}
  /\ UNCHANGED <<groups, product, links, request, page, ghosts>>

CreateGroup(g) ==
  /\ g \notin groups
  /\ groups' = groups \cup {g}
  /\ UNCHANGED <<categories, product, links, request, page, ghosts>>

\* deleteCategory: counts the products, archived ones too, ...
CountProducts(e, c) ==
  /\ request[e] = Idle
  /\ c \in categories
  /\ product.category # c
  /\ request' = [request EXCEPT ![e] = [Idle EXCEPT !.pc = "delete", !.category = c]]
  /\ UNCHANGED <<server, page, ghosts>>

\* ... and deletes the category. A product put into it in between is left without one.
DeleteCategory(e) ==
  /\ request[e].pc = "delete"
  /\ categories' = categories \ {request[e].category}
  /\ product' = IF product.category = request[e].category
                THEN [product EXCEPT !.category = NoCategory] ELSE product
  /\ Finish(e)
  /\ UNCHANGED <<groups, links, page, ghosts>>

\* deleteModifierGroup: its links go with it.
DeleteGroup(g) ==
  /\ g \in groups
  /\ groups' = groups \ {g}
  /\ links' = links \ {g}
  /\ choices' = { c \ {g} : c \in choices } \cup { request[r].choice : r \in Rewriting }
  /\ UNCHANGED <<categories, product, request, page, expected, bruised>>

-----------------------------------------------------------------------------
(* createProduct and updateProduct.                                          *)
Entered(c) == [category |-> c, stock |-> MaxStock, moved |-> TRUE, sent |-> TRUE]

NewProduct(e) ==
  \E choice \in SUBSET Groups, c \in Categories \cup {NoCategory} :
    /\ request[e] = Idle
    /\ ~product.exists
    /\ Start(e, "create", Entered(c), TRUE, choice)
    /\ UNCHANGED <<server, page, ghosts>>

\* A program sends the groups, and other fields with a category or none.
EditProduct(e) ==
  \E choice \in SUBSET Groups,
     body \in {NoBody} \cup { Entered(c) : c \in Categories } :
    /\ request[e] = Idle
    /\ product.exists
    /\ Start(e, "update", body, TRUE, choice)
    /\ UNCHANGED <<server, page, ghosts>>

Exists(c) == c \in categories \cup {NoCategory}

\* The product and the category it names are looked up.
Look(r) ==
  /\ request[r].pc = "look"
  /\ IF Exists(request[r].body.category)
     THEN Goto(r, IF request[r].op = "create" THEN "check" ELSE "write")
     ELSE Finish(r)
  /\ UNCHANGED <<server, page, ghosts>>

\* A request whose fields are written.
Written(r) == [request[r] EXCEPT !.pc = "check", !.body = NoBody]

\* update: the fields that were sent. A category that is gone by now is refused by its
\* foreign key.
Write(r) ==
  LET body == request[r].body IN
  /\ request[r].pc = "write"
  /\ \/ /\ ~body.sent
        /\ Goto(r, "check")
        /\ UNCHANGED <<product, page, expected>>
     \/ /\ body.sent /\ ~Exists(body.category)
        /\ Finish(r)
        /\ UNCHANGED <<product, page, expected>>
     \/ /\ body.sent /\ Exists(body.category)
        /\ product' = [product EXCEPT !.category = body.category, !.stock = body.stock]
        /\ IF body.moved
           THEN /\ expected' = body.stock
                /\ page' = [p \in Pages |-> Overtaken(p)]
                /\ request' = [q \in DOMAIN request |-> IF q = r THEN Written(r) ELSE Late(q)]
           ELSE /\ request' = [request EXCEPT ![r] = Written(r)]
                /\ UNCHANGED <<page, expected>>
  /\ UNCHANGED <<categories, groups, links, choices, bruised>>

\* assertModifierGroupsExist, where groups were sent.
Check(r) ==
  /\ request[r].pc = "check"
  /\ IF request[r].choice \subseteq groups
     THEN CASE request[r].op = "create" -> Goto(r, "insert")
            [] request[r].op = "update" /\ request[r].relinks -> Goto(r, "clear")
            [] OTHER -> Answer(r)
     ELSE Finish(r)
  /\ UNCHANGED <<server, page, ghosts>>

\* create: the product and its links in one statement.
Insert(r) ==
  LET body == request[r].body
      choice == request[r].choice IN
  /\ request[r].pc = "insert"
  /\ IF ~product.exists /\ Exists(body.category) /\ choice \subseteq groups
     THEN /\ product' = Row(body.category, body.stock)
          /\ links' = choice
          /\ expected' = body.stock
          /\ choices' = {choice}
          /\ Answer(r)
     ELSE /\ Finish(r)
          /\ UNCHANGED <<product, links, expected, choices>>
  /\ UNCHANGED <<categories, groups, page, bruised>>

\* A mistake the checks must catch: an update only adds links.
ClearNothing(e) ==
  /\ request[e].pc = "clear"
  /\ choices' = (IF Rewriting = {} THEN {} ELSE choices) \cup {request[e].choice}
  /\ bruised' = (bruised /\ Rewriting # {})
  /\ IF request[e].choice = {} THEN Answer(e) ELSE Goto(e, "link")
  /\ UNCHANGED <<categories, groups, product, links, page, expected>>

\* updateProduct: deleteMany of the links ...
Clear(e) ==
  /\ request[e].pc = "clear"
  /\ links' = {}
  /\ choices' = (IF Rewriting = {} THEN {} ELSE choices) \cup {request[e].choice}
  /\ bruised' = (bruised /\ Rewriting # {})
  /\ IF request[e].choice = {} THEN Answer(e) ELSE Goto(e, "link")
  /\ UNCHANGED <<categories, groups, product, page, expected>>

\* ... and createMany, all or none: a link that is there already or a group that is
\* gone fails it.
Link(e) ==
  LET choice == request[e].choice IN
  /\ request[e].pc = "link"
  /\ IF choice \subseteq groups /\ links \cap choice = {}
     THEN /\ links' = links \cup choice
          /\ Answer(e)
          /\ UNCHANGED bruised
     ELSE /\ Finish(e)
          /\ bruised' = (bruised \/ ~(choice \subseteq groups))
          /\ UNCHANGED links
  /\ UNCHANGED <<categories, groups, product, page, expected, choices>>

\* The answer reaches a program.
Saved(e) ==
  /\ request[e].pc = "saved"
  /\ Finish(e)
  /\ UNCHANGED <<server, page, ghosts>>

\* The process dies, or its answer is lost: a page keeps its list and its form.
Die(r) ==
  /\ request[r] # Idle
  /\ bruised' = (bruised \/ request[r].pc = "link")
  /\ Finish(r)
  /\ UNCHANGED <<server, page, expected, choices>>

\* Ordering.tla's reserveStock, on a product that is on sale.
Sell ==
  /\ product.exists
  /\ ~product.archived
  /\ product.stock > 0
  /\ product' = [product EXCEPT !.stock = @ - 1]
  /\ expected' = expected - 1
  /\ page' = [p \in Pages |-> Overtaken(p)]
  /\ request' = [r \in DOMAIN request |-> Late(r)]
  /\ UNCHANGED <<categories, groups, links, choices, bruised>>

-----------------------------------------------------------------------------
(* The products page.                                                        *)

\* listProducts: archived ones are left out.
Listed ==
  IF ~product.exists \/ product.archived THEN NotListed
  ELSE [stock |-> product.stock, moved |-> FALSE, listed |-> TRUE]

\* The first load, and the reload of a page that gets the focus back.
Load(p) ==
  /\ page' = [page EXCEPT ![p].list = Listed]
  /\ UNCHANGED <<server, request, ghosts>>

openCreate(p) ==
  /\ page[p].form.mode = "closed"
  /\ ~product.exists
  /\ page' = [page EXCEPT ![p].form = [EMPTY_FORM EXCEPT !.mode = "create", !.moved = TRUE]]
  /\ UNCHANGED <<server, request, ghosts>>

\* A mistake the checks must catch: the form is opened as it was left.
openEditAsLeft(p) ==
  /\ page[p].form.mode = "closed"
  /\ page[p].list.listed
  /\ page' = [page EXCEPT ![p].form.mode = "edit", ![p].form.moved = page[p].list.moved]
  /\ UNCHANGED <<server, request, ghosts>>

\* openEdit: the form is filled from the row as the list shows it.
openEdit(p) ==
  LET row == page[p].list IN
  /\ page[p].form.mode = "closed"
  /\ row.listed
  /\ page' = [page EXCEPT ![p].form = [mode |-> "edit", stock |-> row.stock, moved |-> row.moved]]
  /\ UNCHANGED <<server, request, ghosts>>

\* The owner enters a stock; the rest of the form stays.
setForm(p) ==
  /\ page[p].form.mode # "closed"
  /\ request[p] = Idle
  /\ \E s \in 0 .. MaxStock : page' = [page EXCEPT ![p].form.stock = s, ![p].form.moved = TRUE]
  /\ UNCHANGED <<server, request, ghosts>>

onClose(p) ==
  /\ page[p].form.mode # "closed"
  /\ page' = [page EXCEPT ![p].form.mode = "closed", ![p].form.moved = FALSE]
  /\ UNCHANGED <<server, request, ghosts>>

\* save: the whole form, the fields nobody touched included, and no groups. Of the
\* category in the form nothing is known: it may be gone.
save(p) ==
  LET form == page[p].form IN
  /\ form.mode # "closed"
  /\ request[p] = Idle
  /\ \E c \in Categories \cup {NoCategory} :
       Start(p, IF form.mode = "edit" THEN "update" ELSE "create",
             [category |-> c, stock |-> form.stock, moved |-> form.moved, sent |-> TRUE], FALSE, {})
  /\ UNCHANGED <<server, page, ghosts>>

\* The answer reaches the page: the list is loaded again, which fails silently, and the
\* form closed.
onSaved(p) ==
  /\ request[p].pc = "saved"
  /\ \E list \in {Listed, page[p].list} :
       page' = [page EXCEPT ![p].list = list, ![p].form.mode = "closed", ![p].form.moved = FALSE]
  /\ Finish(p)
  /\ UNCHANGED <<server, ghosts>>

\* archive: one update; the list is loaded again or not, the form behind the dialog stays
\* open and can still be saved.
archive(p) ==
  /\ page[p].form.mode = "edit"
  /\ request[p] = Idle
  /\ product' = [product EXCEPT !.archived = TRUE]
  /\ page' \in {page, [page EXCEPT ![p].list = NotListed]}
  /\ UNCHANGED <<categories, groups, links, request, ghosts>>

-----------------------------------------------------------------------------
Handle(r) == Look(r) \/ Write(r) \/ Check(r) \/ Insert(r) \/ Die(r)

Editing(e) ==
  \/ NewProduct(e) \/ EditProduct(e)
  \/ \E c \in Categories : CountProducts(e, c)
  \/ DeleteCategory(e) \/ Clear(e) \/ Link(e) \/ Saved(e)

Paging(p) ==
  \/ Load(p) \/ openCreate(p) \/ openEdit(p) \/ setForm(p) \/ onClose(p)
  \/ save(p) \/ onSaved(p) \/ archive(p)

Next ==
  \/ \E c \in Categories : CreateCategory(c)
  \/ \E g \in Groups : CreateGroup(g) \/ DeleteGroup(g)
  \/ \E r \in Editors \cup Pages : Handle(r)
  \/ \E e \in Editors : Editing(e)
  \/ \E p \in Pages : Paging(p)
  \/ Sell

Spec == Init /\ [][Next]_vars

-----------------------------------------------------------------------------
(* What is promised.                                                         *)

\* Replacing the groups of a product takes two statements, and two replacements may
\* cross. Once none is under way the product has all the groups that one of those that
\* crossed chose and none that nobody chose, unless one of them died half way or a
\* group was deleted under it (updateProduct).
ChoicesSurviveEdits ==
  Rewriting = {} /\ ~bruised =>
    /\ \E c \in choices : c \subseteq links
    /\ links \subseteq UNION choices

\* The form sends back every field it was filled with. The stock is what was last
\* entered less what was sold since: a form that was not touched changes it only if its
\* row was loaded before a sale or before the latest stock was entered, be it elsewhere
\* or on this page, whose answer or reload was lost (openEdit, save, updateProduct).
StockIsWhatWasEntered == product.exists => product.stock = expected
=============================================================================
