------------------------------ MODULE ListQuery ------------------------------
(***************************************************************************)
(* One listing of the management API, from the parameters of its URL       *)
(* (lib/queryparser.go) over the checks of the handlers and the statements *)
(* of store/builder.go to the rows of the answer, while other requests     *)
(* write to the tables.  Readers do not disturb each other, so one is      *)
(* enough.                                                                 *)
(*                                                                         *)
(* A word is a number, TrueWord for the word true; a text is the set of    *)
(* the words it contains; a column goes by the name of its field, and a    *)
(* deleted account is no row.  Blank values of parameters are left out.    *)
(* The role of an account that has none is Null, below every value.        *)
(***************************************************************************)
EXTENDS Integers, FiniteSets, SequencesExt

CONSTANTS Row,        \* [table, col : field -> value, text : field -> terms]
          Query,      \* the requests clients make
          TrueWord, NamespaceWord,
          Word        \* the values of a uint are 0 .. 2 ^ Word - 1

VARIABLES present,    \* the rows of all tables
          req         \* the request: its step, query, conditions and result

vars == <<present, req>>

NoTerm == 0
Null == -1
NoQuery == [listing |-> "none"]
Table == [none |-> "none", users |-> "users", namespaces |-> "namespaces",
          repositories |-> "repositories", namespaceRepositories |-> "repositories",
          namespaceUsers |-> "accesses", repositoryUsers |-> "accesses"]
Below == {"namespaceRepositories", "namespaceUsers", "repositoryUsers"}
Step == {"idle", "begun", "ready", "counted", "fetched", "200", "400", "500"}

AllowedFilters ==
  [users |-> {"role", "locked"},
   namespaces |-> {"purpose", "state", "is_public"},
   repositories |-> {"state", "is_public", "tags", "namespace_id"},
   accesses |-> {"access_level", "user_id", "resource_type", "resource_id"}]

AllowedSorts ==
  [users |-> {"username", "email", "role", "display_name", "last_loggedin_at"},
   namespaces |-> {"name", "created_at"},
   repositories |-> {"name", "tags", "created_at"},
   accesses |-> {"user", "granted_user", "granted_at"}]

(* How the stores set up their builders; the fields of namespaces and      *)
(* repositories are boolean under a name in capitals, which no filter has. *)
UserBuilder == [filters |-> {"role", "locked"}, booleans |-> {"locked"},
                sorts |-> {"username", "email", "role", "last_loggedin_at"},
                search |-> <<"username", "email", "display_name">>]
NamespaceBuilder == [filters |-> {"purpose", "state", "is_public"}, booleans |-> {},
                     sorts |-> {"name", "created_at"},
                     search |-> <<"name", "description">>]
RepositoryBuilder == [filters |-> {"state", "is_public", "tags", "namespace_id"},
                      booleans |-> {}, sorts |-> {"name", "tags", "created_at"},
                      search |-> <<"name", "description">>]
AccessBuilder == [filters |-> {"access_level", "resource_type", "resource_id"},
                  booleans |-> {}, sorts |-> {"user", "granted_user", "granted_at"},
                  search |-> <<"user">>]
Builder == [users |-> UserBuilder, namespaces |-> NamespaceBuilder,
            repositories |-> RepositoryBuilder, accesses |-> AccessBuilder]

(* Texts are of the columns that are searched, columns sorted by are in    *)
(* order, and a repository stays in its namespace.                         *)
ASSUME RowAssumption ==
  /\ IsFiniteSet(Row)
  /\ \A r \in Row : /\ r.table \in DOMAIN Builder
                    /\ DOMAIN r.text = ToSet(Builder[r.table].search)
                    /\ \A f \in Builder[r.table].sorts : r.col[f] \in Int
  /\ \A r, s \in Row : {r.table, s.table} = {"repositories"} /\ r.col.id = s.col.id
                        => r.col.namespace_id = s.col.namespace_id

(* Pages and limits are parsed as unsigned numbers, and a parameter that   *)
(* is there has a value.                                                   *)
ASSUME QueryAssumption ==
  \A q \in Query :
    /\ q.listing \in DOMAIN Table \ {"none"}
    /\ q.page \in Nat /\ q.limit \in Nat
    /\ IsFiniteSet(DOMAIN q.filters)
    /\ \A f \in DOMAIN q.filters :
         q.filters[f] \in Seq([cmp : {"=", "<", "<=", ">", ">="}, word : Nat]) \ {<<>>}

ASSUME WordAssumption == Word \in Nat /\ 2 ^ Word \in Nat \ {0}

-----------------------------------------------------------------------------
(* From parameters to conditions.  A condition is a sequence of filters of *)
(* which one must hold: two for OpOR, one otherwise.                       *)

Filter(f, op, words) == [field |-> f, op |-> op, words |-> words]

Compares(v) == v.cmp # "="

SameSide(a, b) == {a, b} \subseteq {"<", "<="} \/ {a, b} \subseteq {">", ">="}

IsRange(vals) ==
  Compares(vals[1]) /\ Compares(vals[2]) /\ ~SameSide(vals[1].cmp, vals[2].cmp)

KeyFilters(key, vals) ==
  IF \A i \in DOMAIN vals : ~Compares(vals[i])
    THEN <<Filter(key, IF Len(vals) > 1 THEN "IN" ELSE "=",
                  [i \in DOMAIN vals |-> vals[i].word])>>
  ELSE IF Len(vals) = 1 THEN <<Filter(key, vals[1].cmp, <<vals[1].word>>)>>
  ELSE IF IsRange(vals) THEN [i \in 1..2 |-> Filter(key, vals[i].cmp, <<vals[i].word>>)]
  ELSE <<>>

PositiveOr_Any(n, default) == n   \* mutant: zero passes

PositiveOr(n, default) == IF n > 0 THEN n ELSE default

(* The keys come in the order of a Go map, any.                            *)
ParseListConditions(q, keys) ==
  [filters |-> FlattenSeq([k \in DOMAIN keys |->
                  LET fs == KeyFilters(keys[k], q.filters[keys[k]])
                  IN  [i \in DOMAIN fs |-> <<fs[i]>>]]),
   term |-> q.term, sort |-> q.sort, desc |-> q.desc,
   page |-> PositiveOr(q.page, 1), limit |-> PositiveOr(q.limit, 20)]

(* The sort fields of repositories are those that are refused.  A filter   *)
(* on tags has lost the sign that its check looks for.                     *)
Validated(table, cond) ==
  /\ cond.sort # "" => (cond.sort \in AllowedSorts[table]) = (table # "repositories")
  /\ \A i \in DOMAIN cond.filters : LET f == cond.filters[i][1] IN
       /\ f.field \in AllowedFilters[table] \ {"tags"}
       /\ f.field \in {"locked", "is_public"} => Len(f.words) = 1

(* What a listing below a namespace or repository adds.                    *)
ScopeFilters(q, ns) ==
  CASE q.listing = "namespaceRepositories" -> <<<<Filter("namespace_id", "=", <<ns>>)>>>>
    [] q.listing = "namespaceUsers" -> <<<<Filter("resource_id", "=", <<ns>>)>>,
                                         <<Filter("resource_type", "=", <<NamespaceWord>>)>>>>
    [] q.listing = "repositoryUsers" -> <<<<Filter("resource_id", "=", <<ns>>),
                                            Filter("resource_id", "=", <<q.scope>>)>>>>
    [] OTHER -> <<>>

-----------------------------------------------------------------------------
(* From conditions to statements: clauses with placeholders, and apart     *)
(* from them the arguments, bound to the placeholders by position.         *)

Buildable(table, cond) ==
  /\ \A i \in DOMAIN cond.filters : \A j \in DOMAIN cond.filters[i] :
       cond.filters[i][j].field \in Builder[table].filters
  /\ cond.sort = "" \/ cond.sort \in Builder[table].sorts

transformValue(table, field, word) ==
  IF field \notin Builder[table].booleans THEN word
  ELSE IF word = TrueWord THEN 1 ELSE 0

Atom(field, op, holes) == [field |-> field, op |-> op, holes |-> holes]

SearchFields(table, cond) == IF cond.term = NoTerm THEN <<>> ELSE Builder[table].search

buildWhereClause(table, cond) ==
  LET search == SearchFields(table, cond)
      filters == [i \in DOMAIN cond.filters |-> [j \in DOMAIN cond.filters[i] |->
        LET f == cond.filters[i][j] IN Atom(f.field, f.op, Len(f.words))]]
  IN  IF search = <<>> THEN filters
      ELSE Append(filters, [k \in DOMAIN search |-> Atom(search[k], "LIKE", 1)])

FilterValues(table, f) ==
  [k \in DOMAIN f.words |-> transformValue(table, f.field, f.words[k])]

ClauseArgs(table, filters) ==
  FlattenSeq([j \in DOMAIN filters |-> FilterValues(table, filters[j])])

FilterArgs(table, cond) ==
  FlattenSeq([i \in DOMAIN cond.filters |-> ClauseArgs(table, cond.filters[i])])

SearchArgs(table, cond) == [k \in DOMAIN SearchFields(table, cond) |-> cond.term]

whereArgs_SearchFirst(table, cond) ==   \* mutant: in the wrong order
  SearchArgs(table, cond) \o FilterArgs(table, cond)

whereArgs(table, cond) == FilterArgs(table, cond) \o SearchArgs(table, cond)

Offset(cond) == ((cond.page - 1) * cond.limit) % 2 ^ Word

-----------------------------------------------------------------------------
(* What the database makes of a statement.                                 *)

(* The count of repositories is built on a query that has two placeholders *)
(* of its own and gets no arguments for them.                              *)
BaseHoles(table) == IF table = "repositories" THEN 2 ELSE 0

(* The placeholders of a clause and of several, in the order of the text.  *)
Holes(clause) == FlattenSeq([j \in DOMAIN clause |-> [k \in 1..clause[j].holes |-> "?"]])

AllHoles(where) == FlattenSeq([i \in DOMAIN where |-> Holes(where[i])])

(* No row without a value is found by comparing it.                        *)
Compared(v, op, w) ==
  CASE op = "=" -> v = w [] op = ">" -> v > w [] op = ">=" -> v >= w
    [] op = "<" -> Null < v /\ v < w [] op = "<=" -> Null < v /\ v <= w

Holds(r, atom, args) ==
  CASE atom.op = "LIKE" -> args[1] \in r.text[atom.field]
    [] atom.op = "IN" -> \E i \in DOMAIN args : r.col[atom.field] = args[i]
    [] OTHER -> Compared(r.col[atom.field], atom.op, args[1])

Selected(table, where, args) ==
  LET First(i, j) == Len(AllHoles(SubSeq(where, 1, i - 1)))
                     + Len(Holes(SubSeq(where[i], 1, j - 1))) + 1
  IN {r \in present : r.table = table /\ \A i \in DOMAIN where : \E j \in DOMAIN where[i] :
        Holds(r, where[i][j], SubSeq(args, First(i, j), First(i, j) + where[i][j].holes - 1))}

SelectedFor(table, cond) ==
  Selected(table, buildWhereClause(table, cond), whereArgs(table, cond))

Ordered(s, cond) ==
  cond.sort # "" => \A i, j \in DOMAIN s : i < j =>
    IF cond.desc THEN s[i].col[cond.sort] >= s[j].col[cond.sort]
    ELSE s[i].col[cond.sort] <= s[j].col[cond.sort]

(* The role of an account is read into a string, which Null cannot be.     *)
Readable(r) == r.table = "users" => r.col.role # Null

Rising(e) == \A i, j \in DOMAIN e : i < j => e[i] < e[j]

(* The driver refuses an unsigned number with its highest bit set.         *)
Bindable(cond) == \A n \in {cond.limit, Offset(cond)} : n < 2 ^ (Word - 1)

TablesRead_NoTx == {}   \* mutant: the statements run outside of the transaction

(* In a shared cache a transaction keeps the tables it has read from being *)
(* written: those of the scope, then the one it lists.                     *)
TablesRead ==
  (IF req.step \notin {"ready", "counted", "fetched"} THEN {}
   ELSE CASE req.query.listing \in {"namespaceRepositories", "namespaceUsers"} -> {"namespaces"}
          [] req.query.listing = "repositoryUsers" -> {"namespaces", "repositories"}
          [] OTHER -> {})
  \cup IF req.step \in {"counted", "fetched"} THEN {Table[req.query.listing]} ELSE {}

-----------------------------------------------------------------------------
NoResult == [total |-> 0, listed |-> <<>>]
NoCond == ParseListConditions([filters |-> <<>>, term |-> NoTerm, sort |-> "",
                               desc |-> FALSE, page |-> 1, limit |-> 1], <<>>)

Idle == [step |-> "idle", query |-> NoQuery, cond |-> NoCond, result |-> NoResult]

Init == present \in SUBSET Row /\ req = Idle

(* The answer is sent, of which the status is kept.                        *)
Reply(status) == req' = [Idle EXCEPT !.step = status] /\ UNCHANGED present

(* Another request inserts or removes a row.                               *)
Write(r) ==
  /\ r.table \notin TablesRead
  /\ present' = IF r \in present THEN present \ {r} ELSE present \cup {r}
  /\ UNCHANGED req

(* A client asks; the handler parses and checks what it asks.              *)
Receive(q) ==
  /\ req.step \in {"idle", "200", "400", "500"}
  /\ \E keys \in SetToSeqs(DOMAIN q.filters) :
       LET cond == ParseListConditions(q, keys) IN
       IF Validated(Table[q.listing], cond)
         THEN /\ req' = [step |-> "begun", query |-> q, cond |-> cond, result |-> NoResult]
              /\ UNCHANGED present
         ELSE Reply("400")

(* The services of users, namespaces and repositories list at once, the    *)
(* others look for the namespace, of the repository if there is one.       *)
ListAll ==
  /\ req.step = "begun" /\ req.query.listing \notin Below
  /\ req' = [req EXCEPT !.step = "ready"]
  /\ UNCHANGED present

Namespaces(q) ==
  LET repos == {r \in present : r.table = "repositories" /\ r.col.id = q.scope}
      ids == IF q.listing = "repositoryUsers" THEN {r.col.namespace_id : r \in repos}
             ELSE {q.scope}
      rows == {r \in present : r.table = "namespaces" /\ r.col.id \in ids}
  IN  {r.col.id : r \in rows}

ListBelow ==
  /\ req.step = "begun" /\ req.query.listing \in Below
  /\ \E ns \in Namespaces(req.query) :
       req' = [req EXCEPT !.step = "ready",
                          !.cond.filters = @ \o ScopeFilters(req.query, ns)]
  /\ UNCHANGED present

(* Below nothing there is nothing, which is no error.                      *)
NothingBelow ==
  /\ req.step = "begun" /\ req.query.listing \in Below
  /\ Namespaces(req.query) = {}
  /\ Reply("200")

Count ==
  LET table == Table[req.query.listing] IN
  /\ req.step = "ready"
  /\ Buildable(table, req.cond)
  /\ BaseHoles(table) + Len(AllHoles(buildWhereClause(table, req.cond)))
       <= Len(whereArgs(table, req.cond))
  /\ req' = [req EXCEPT !.step = "counted",
                        !.result.total = Cardinality(SelectedFor(table, req.cond))]
  /\ UNCHANGED present

PageFrom(s, cond) ==
  SubSeq(s, Offset(cond) + 1, Min({Offset(cond) + cond.limit, Len(s)}))

ReadablePlaces(page) == {i \in DOMAIN page : Readable(page[i])}

(* A row that cannot be read is skipped: e are the places of the others.   *)
Fetch ==
  /\ req.step = "counted"
  /\ Bindable(req.cond)
  /\ \E s \in SetToSeqs(SelectedFor(Table[req.query.listing], req.cond)) :
       LET page == PageFrom(s, req.cond) IN
       \E e \in SetToSeqs(ReadablePlaces(page)) :
         /\ Ordered(s, req.cond) /\ Rising(e)
         /\ req' = [req EXCEPT !.step = "fetched",
                               !.result.listed = [k \in DOMAIN e |-> page[e[k]]]]
  /\ UNCHANGED present

Answer == req.step = "fetched" /\ Reply("200")

(* A statement that cannot be built or bound, or that fails.  Handlers of  *)
(* listings below something overlook the error and answer with nothing.    *)
Fail ==
  /\ req.step \in {"begun", "ready", "counted"}
  /\ Reply(IF req.query.listing \in Below THEN "200" ELSE "500")

Next ==
  \/ \E r \in Row : Write(r)
  \/ \E q \in Query : Receive(q)
  \/ ListAll \/ ListBelow \/ NothingBelow
  \/ Count \/ Fetch \/ Answer \/ Fail

Spec == Init /\ [][Next]_vars

-----------------------------------------------------------------------------
(* What a query asks for, without filters, clauses and arguments.          *)

IsBoolean(field) == field \in {"locked", "is_public"}

Meant(field, word) ==
  IF IsBoolean(field) THEN IF word = TrueWord THEN 1 ELSE 0 ELSE word

(* One of several values, or a comparison, or both bounds of a range; what *)
(* is neither is ignored, as the comments of the parser have it.           *)
AskedOf(r, field, vals) ==
  LET Has(i) == Compared(r.col[field], vals[i].cmp, Meant(field, vals[i].word)) IN
  IF {vals[i].cmp : i \in DOMAIN vals} = {"="} THEN \E i \in DOMAIN vals : Has(i)
  ELSE IF Len(vals) > 1 /\ ~IsRange(vals) THEN TRUE
  ELSE \A i \in 1..Len(vals) : i <= 2 => Has(i)

InScope(r, q) ==
  CASE q.listing = "namespaceUsers" ->
         r.col.resource_id = q.scope /\ r.col.resource_type = NamespaceWord
    [] q.listing = "repositoryUsers" -> r.col.resource_id \in {q.scope} \cup Namespaces(q)
    [] OTHER -> TRUE

Asked(q) ==
  {r \in present :
     /\ r.table = Table[q.listing]
     /\ \A f \in DOMAIN q.filters : AskedOf(r, f, q.filters[f])
     /\ q.term # NoTerm => \E f \in DOMAIN r.text : q.term \in r.text[f]
     /\ InScope(r, q)}

-----------------------------------------------------------------------------
(* Every part of a request has its type; pages and limits are positive,    *)
(* whatever the parameters were.                                           *)
TypeOK ==
  /\ present \subseteq Row
  /\ req.step \in Step
  /\ req.query \in Query \cup {NoQuery}
  /\ req.cond.page \in Nat \ {0} /\ req.cond.limit \in Nat \ {0}
  /\ req.result.total \in 0..Cardinality(Row)
  /\ ToSet(req.result.listed) \subseteq Row

(* The total of a listing is the number of rows that its parameters and    *)
(* its scope ask for, in whatever order the parser took the parameters:    *)
(* each argument reaches its placeholder (buildWhereClause, List).  The    *)
(* visibility of namespaces is left out, which is not compared as a        *)
(* boolean.                                                                *)
CountedAsAsked ==
  /\ req.step \in {"counted", "fetched"}
  /\ "is_public" \notin DOMAIN req.query.filters
  => req.result.total = Cardinality(Asked(req.query))

(* The rows that are answered are the page that was asked for, of as many  *)
(* rows as the total says: none twice, none missing but accounts without a *)
(* role, and no row in or after the page that belongs before it (Build,    *)
(* List, the transactions of the services).  A page beyond the numbers of  *)
(* a uint and the visibility of namespaces are left out.                   *)
ListedIsPage ==
  LET c == req.cond
      offset == (c.page - 1) * c.limit
      s == req.result.listed
      all == Asked(req.query)
      rest == req.result.total - offset
      missing == (IF rest < 0 THEN 0 ELSE IF rest < c.limit THEN rest ELSE c.limit) - Len(s)
      Before(a, b) == IF c.desc THEN a.col[c.sort] > b.col[c.sort]
                      ELSE a.col[c.sort] < b.col[c.sort]
  IN req.step = "fetched" /\ offset < 2 ^ Word /\ "is_public" \notin DOMAIN req.query.filters =>
       /\ IsInjective(s)
       /\ ToSet(s) \subseteq {r \in all : Readable(r)}
       /\ missing \in 0 .. Cardinality({r \in all : ~Readable(r)})
       /\ c.sort # "" => \A i \in DOMAIN s :
            /\ Cardinality({r \in all : Before(r, s[i])}) <= offset + missing + i - 1
            /\ Cardinality({r \in all : Before(s[i], r)}) <= req.result.total - offset - i
=============================================================================
