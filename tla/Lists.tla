-------------------------------- MODULE Lists --------------------------------
(***************************************************************************)
(* The long lists of the web application and what the server answers them: *)
(* stock (inventory-page.tsx), read by page number; customers              *)
(* (customers-page.tsx), read by cursor and kept page after page; tasks    *)
(* and prices (tasks-page.tsx, price-list-page.tsx), of which one answer   *)
(* is filtered on the page.  Rows are added and change while somebody      *)
(* pages through them.  lib/query.ts keeps an answer until it is read      *)
(* again.                                                                  *)
(***************************************************************************)
EXTENDS Integers, Sequences, FiniteSets, Functions

CONSTANTS
  Rows,        \* by number: their ids
  RowName,     \* RowName[i]: name or time of creation, what lists are sorted by
  Matching,    \* rows that contain the text that is searched for
  Narrow,      \* levels of rows in the narrow scope: low stock, one status
  Levels,      \* quantity of a row, or the number of its status
  Size,        \* PAGE_SIZE, take
  LastPage     \* bound: the last page that is turned to

ASSUME ListsAssumption ==
  /\ Rows \subseteq Nat /\ RowName \in [Rows -> Nat] /\ Matching \subseteq Rows
  /\ Levels \subseteq Nat /\ Narrow \subseteq Levels
  /\ Size \in Nat \ {0} /\ LastPage \in Nat

Scopes == {"all", "narrow"}

\* data is undefined: no set of rows
NoRows == {-1}

VARIABLES
  kind,      \* the list the behaviour is about
  level,     \* level[i], for the rows in the table
  list,      \* scope, page number and text of the page; what it is reading
  cache,     \* cache[s][n]: the answer for page n of scope s, or NoRows
  pages,     \* customers: the pages, each what the cursor before it led to
  again,     \* customers: the pages of a second reading, as far as it is
  walk       \* history: what was read since page 0, page after page

listVars == <<kind, level, list, cache, pages, again, walk>>

ListTypeOK ==
  /\ kind \in {"numbered", "cursor", "filtered"}
  /\ DOMAIN level \subseteq Rows /\ \A i \in DOMAIN level : level[i] \in Levels
  /\ list \in [scope : Scopes, n : 0..LastPage, text : BOOLEAN, busy : BOOLEAN,
               error : BOOLEAN, before : (SUBSET Rows) \cup {NoRows}]
  /\ cache \in [Scopes -> [0..LastPage -> (SUBSET Rows) \cup {NoRows}]]

Nowhere == [n |-> 0, on |-> FALSE, seen |-> {}, kept |-> {}, calm |-> TRUE]

ListInit ==
  /\ kind \in {"numbered", "cursor", "filtered"}
  /\ \E S \in SUBSET Rows : IsFiniteSet(S) /\ level \in [S -> Levels]
  /\ list = [scope |-> "all", n |-> 0, text |-> FALSE, busy |-> TRUE, error |-> FALSE,
             before |-> NoRows]
  /\ cache = [s \in Scopes |-> [n \in 0..LastPage |-> NoRows]]
  /\ pages = <<>> /\ again = <<>> /\ walk = Nowhere

-----------------------------------------------------------------------------
(* The server. *)

(* mutant: pages by number are sorted by name alone *)
MPrecedes(s, i, j) ==
  RowName[i] < RowName[j] \/ (kind # "numbered" /\ RowName[i] = RowName[j] /\ i < j)

(* orderBy: by name, or by quantity and then name; all rows also by id,    *)
(* which the narrow list of stock does without.                            *)
Precedes(s, i, j) ==
  IF s = "all" \/ kind # "numbered"
  THEN RowName[i] < RowName[j] \/ (RowName[i] = RowName[j] /\ i < j)
  ELSE level[i] < level[j] \/ (level[i] = level[j] /\ RowName[i] < RowName[j])

In(s) == IF s = "all" THEN DOMAIN level ELSE {i \in DOMAIN level : level[i] \in Narrow}

Orders(s) ==
  {o \in Injection(1..Cardinality(In(s)), In(s)) :
     \A j, k \in DOMAIN o : Precedes(s, o[k], o[j]) => k < j}

(* LIMIT and OFFSET: the n-th page of any order that is allowed *)
Slices(s, n) ==
  {{o[k] : k \in {j \in DOMAIN o : n * Size < j /\ j <= (n + 1) * Size}} : o \in Orders(s)}

(* mutant: the cursor itself is read once more *)
MBeyond(c) == {i \in In("all") : ~Precedes("all", i, c)}

(* cursor and skip: 1 *)
Beyond(c) == {i \in In("all") : Precedes("all", c, i)}

FirstOf(S) ==
  {i \in S : Cardinality({j \in S : Precedes("all", j, i)}) < Size}

Cursor(S) == CHOOSE i \in S : \A j \in S \ {i} : Precedes("all", j, i)

(* nextCursor: a full page may be the last one all the same *)
HasNext(S) == Cardinality(S) = Size

NextPage(ps) ==
  FirstOf(IF ps = <<>> THEN In("all") ELSE Beyond(Cursor(ps[Len(ps)])))

-----------------------------------------------------------------------------
(* Elsewhere. *)

(* In a walk through the narrow scope rows must stay where they are.       *)
Disturbed(i) ==
  [walk EXCEPT !.kept = {j \in @ : list.scope = "all" \/ level'[j] \in Narrow},
               !.calm = @ /\ (list.scope = "all" \/ i \notin In(list.scope))]

Insert ==
  /\ \E i \in Rows \ DOMAIN level, l \in Levels :
       level' = [j \in DOMAIN level \cup {i} |-> IF j = i THEN l ELSE level[j]]
  /\ UNCHANGED <<kind, list, cache, pages, again, walk>>

Change ==
  /\ \E i \in DOMAIN level : \E l \in Levels \ {level[i]} :
       /\ level' = [level EXCEPT ![i] = l]
       /\ walk' = Disturbed(i)
  /\ UNCHANGED <<kind, list, cache, pages, again>>

-----------------------------------------------------------------------------
(* Pages by number; and lists of one page, page 0. *)

Cached == cache[list.scope][list.n]

(* keepPreviousData: the page turned from stays until the next one is here *)
Shown == IF Cached = NoRows THEN list.before ELSE Cached

(* What is not in the cache, or is too old, is read. *)
Stays(l) ==
  \E old \in BOOLEAN :
    list' = [l EXCEPT !.error = FALSE, !.busy = cache[l.scope][l.n] = NoRows \/ old]

(* InventoryTab is made anew with its scope; in the other lists the scope  *)
(* is part of the key and the text is not.                                 *)
Choose ==
  /\ kind # "cursor"
  /\ \/ \E s \in Scopes \ {list.scope} :
          Stays([list EXCEPT !.scope = s, !.n = 0, !.before = NoRows])
     \/ kind = "filtered" /\ list' = [list EXCEPT !.text = ~@]
  /\ walk' = IF list'.scope = list.scope THEN walk ELSE Nowhere
  /\ UNCHANGED <<kind, level, cache, pages, again>>

TurnTo(n) ==
  /\ kind = "numbered" /\ n \in 0..LastPage
  /\ Shown # NoRows /\ Shown # {} /\ ~list.busy /\ ~list.error
  /\ n + 1 = list.n \/ (n = list.n + 1 /\ HasNext(Shown))
  /\ Stays([list EXCEPT !.n = n, !.before = Shown])
  /\ UNCHANGED <<kind, level, cache, pages, again, walk>>

(* The button of an empty page that is not the first; low stock has none.  *)
TurnBack ==
  /\ kind = "numbered" /\ Shown = {} /\ list.n > 0 /\ list.scope = "all" /\ ~list.error
  /\ Stays([list EXCEPT !.n = @ - 1, !.before = {}])
  /\ UNCHANGED <<kind, level, cache, pages, again, walk>>

(* The focus comes back, or "try again". *)
ReadAgain ==
  /\ kind # "cursor" /\ ~list.busy
  /\ list' = [list EXCEPT !.busy = TRUE, !.error = FALSE]
  /\ UNCHANGED <<kind, level, cache, pages, again, walk>>

WalkOn(S) ==
  CASE list.n = 0 -> [n |-> 0, on |-> TRUE, seen |-> S, kept |-> In(list.scope), calm |-> TRUE]
    [] walk.on /\ list.n = walk.n + 1 -> [walk EXCEPT !.n = @ + 1, !.seen = @ \cup S]
    [] OTHER -> Nowhere

Answer ==
  /\ kind # "cursor" /\ list.busy
  /\ \E S \in Slices(list.scope, list.n) :
       /\ cache' = [cache EXCEPT ![list.scope][list.n] = S]
       /\ walk' = WalkOn(S)
  /\ list' = [list EXCEPT !.busy = FALSE]
  /\ UNCHANGED <<kind, level, pages, again>>

AnswerFails ==
  /\ kind # "cursor" /\ list.busy
  /\ list' = [list EXCEPT !.busy = FALSE, !.error = TRUE]
  /\ UNCHANGED <<kind, level, cache, pages, again, walk>>

-----------------------------------------------------------------------------
(* Pages by cursor. *)

(* The first page, or "more customers", which gives up a second reading.   *)
ReadOn ==
  /\ kind = "cursor" /\ Len(pages) <= LastPage
  /\ pages # <<>> => HasNext(pages[Len(pages)])
  /\ pages' = Append(pages, NextPage(pages))
  /\ again' = <<>>
  /\ walk' = IF pages = <<>> THEN [Nowhere EXCEPT !.kept = In("all")] ELSE walk
  /\ UNCHANGED <<kind, level, list, cache>>

(* All pages are read again, one after the other, each from the cursor of  *)
(* the one before, and take the place of the old ones together.            *)
ReadAllAgain ==
  /\ kind = "cursor" /\ pages # <<>>
  /\ LET more == Append(again, NextPage(again))
         whole == Len(more) = Len(pages) \/ ~HasNext(more[Len(more)])
         kept == IF again = <<>> THEN In("all") ELSE walk.seen
     IN  /\ pages' = IF whole THEN more ELSE pages
         /\ again' = IF whole THEN <<>> ELSE more
         /\ walk' = IF whole THEN [Nowhere EXCEPT !.kept = kept]
                    ELSE [walk EXCEPT !.seen = kept]
  /\ UNCHANGED <<kind, level, list, cache>>

ListNext ==
  \/ Insert \/ Change \/ Choose \/ TurnBack \/ ReadAgain \/ Answer \/ AnswerFails
  \/ \E n \in 0..LastPage : TurnTo(n)
  \/ ReadOn \/ ReadAllAgain

ListSpec == ListInit /\ [][ListNext]_listVars

-----------------------------------------------------------------------------
(* What a page says. *)

Filtered == IF list.text THEN Shown \cap Matching ELSE Shown

Screen ==
  CASE list.error -> "error"
    [] ~list.error /\ Shown = NoRows -> "loading"
    [] OTHER -> IF Filtered # {} THEN "rows"
                ELSE IF list.scope = "narrow" /\ kind = "numbered" THEN "nothing low"
                ELSE IF list.n > 0 THEN "nothing here" ELSE "nothing"

-----------------------------------------------------------------------------
(* Properties. *)

(* Who turns the pages of the stock from the first to the last, each read  *)
(* in its turn, has seen every item that was there all the time, whatever  *)
(* is added meanwhile; of the items in low stock, unless one of them       *)
(* changes meanwhile or two agree in quantity and name: if one that was    *)
(* added agrees with one that was there, each page may order them anew.    *)
WalkMissesNothing ==
  LET ties == \E i, j \in In(list.scope) :
                i # j /\ ~Precedes(list.scope, i, j) /\ ~Precedes(list.scope, j, i)
  IN
  kind = "numbered" /\ walk.on /\ walk.n = list.n /\ Cached # NoRows /\ ~HasNext(Cached)
    /\ ~list.busy /\ walk.calm /\ (list.scope = "narrow" => ~ties)
    => walk.kept \subseteq walk.seen

(* However often customers are read again and "more" is pressed, none is   *)
(* listed twice, and when there is no more, none is missing that was there *)
(* when the first page was read.                                           *)
CursorMissesNothing ==
  kind = "cursor" /\ pages # <<>> =>
    /\ \A j, k \in DOMAIN pages : j # k => pages[j] \cap pages[k] = {}
    /\ ~HasNext(pages[Len(pages)]) => walk.kept \subseteq UNION {pages[k] : k \in DOMAIN pages}

(* The first page says that there is nothing, or nothing with this text,   *)
(* only if that was so of the rows that have not changed since it was      *)
(* read, or if the answer was full and the rest was never asked for.       *)
NothingMeansNothing ==
  kind # "cursor" /\ walk.on /\ list.n = 0 /\ walk.n = 0 /\ Cached # NoRows
    /\ ~HasNext(Cached) /\ Screen \in {"nothing", "nothing low"}
    => walk.kept \cap (IF list.text THEN Matching ELSE Rows) = {}

(* What the lists say of the rows is true in all these ways.               *)
ListsAreTrue ==
  ListTypeOK /\ WalkMissesNothing /\ CursorMissesNothing /\ NothingMeansNothing
=============================================================================
