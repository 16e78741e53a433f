----------------------------- MODULE MCListQuery -----------------------------
(* Instances of ListQuery for TLC: three users, of which one has no role,  *)
(* two namespaces, a repository and three rows of access; ids 11 and 12    *)
(* are the namespaces', 21 the repository's, and a role, level, purpose or *)
(* name is a small number.                                                 *)
EXTENDS ListQuery

User(name, role, locked, terms) ==
  [table |-> "users",
   col |-> [username |-> name, email |-> name, role |-> role, locked |-> locked,
            last_loggedin_at |-> 0],
   text |-> [username |-> terms, email |-> {}, display_name |-> {5}]]

Namespace(id, purpose, public) ==
  [table |-> "namespaces",
   col |-> [id |-> id, name |-> id, purpose |-> purpose, is_public |-> public,
            created_at |-> id],
   text |-> [name |-> {5}, description |-> {}]]

Repository(id, ns) ==
  [table |-> "repositories",
   col |-> [id |-> id, namespace_id |-> ns, name |-> id, tags |-> 0, created_at |-> id],
   text |-> [name |-> {}, description |-> {}]]

Access(user, type, id, level, terms) ==
  [table |-> "accesses",
   col |-> [user |-> user, resource_type |-> type, resource_id |-> id, access_level |-> level,
            granted_user |-> 0, granted_at |-> 0],
   text |-> [user |-> terms]]

MCRow ==
  {User(1, 1, 0, {5, 6}), User(2, 2, 1, {6}), User(3, Null, 0, {}),
   Namespace(11, 1, 1), Namespace(12, 2, 0), Repository(21, 11),
   Access(1, NamespaceWord, 11, 1, {5}), Access(2, 0, 21, 2, {5}),
   Access(2, 0, 22, 1, {}) }

(* Pages as parameters of a URL, a missing or malformed one as 0: without  *)
(* any, two of one row, and one that wraps around.                         *)
Pages == {[sort |-> FALSE, page |-> 0, limit |-> 0], [sort |-> TRUE, page |-> 1, limit |-> 2],
          [sort |-> TRUE, page |-> 2, limit |-> 1], [sort |-> FALSE, page |-> 33, limit |-> 2]}

Ask(listing, scope, filters, term, sort, p) ==
  [listing |-> listing, scope |-> scope, filters |-> filters, term |-> term,
   sort |-> IF p.sort THEN sort ELSE "", desc |-> p.page = 2,
   page |-> p.page, limit |-> p.limit]

Is(w) == [cmp |-> "=", word |-> w]
More(w) == [cmp |-> ">", word |-> w]
AtLeast(w) == [cmp |-> ">=", word |-> w]
Less(w) == [cmp |-> "<", word |-> w]
Terms == {NoTerm, 5}
Unfiltered == <<>>

Roles == {<<Is(2)>>, <<Is(1), Is(2)>>, <<More(1)>>, <<More(0), Less(2)>>,
          <<More(1), AtLeast(2)>>}

UserQueries ==
  {Ask("users", 0, f, t, "role", p) :
     f \in {Unfiltered, [locked |-> <<Is(1), Is(TrueWord)>>]}
           \cup {[role |-> r, locked |-> <<Is(TrueWord)>>] : r \in Roles},
     t \in Terms, p \in Pages}

NamespaceQueries ==
  {Ask("namespaces", 0, f, t, "name", p) :
     f \in {Unfiltered, [purpose |-> <<Is(2)>>], [is_public |-> <<Is(TrueWord)>>]},
     t \in Terms, p \in Pages}

RepositoryQueries ==
  {Ask(l, 11, f, NoTerm, "name", p) :
     l \in {"repositories", "namespaceRepositories"},
     f \in {Unfiltered, [tags |-> <<More(1)>>]}, p \in Pages}

AccessQueries ==
  {Ask(s[1], s[2], f, t, "user", p) :
     s \in {<<"namespaceUsers", 11>>, <<"repositoryUsers", 21>>},
     f \in {Unfiltered, [access_level |-> <<Is(1), Is(3)>>], [user_id |-> <<Is(2)>>]},
     t \in Terms, p \in Pages}

MCQuery == UserQueries \cup NamespaceQueries \cup RepositoryQueries \cup AccessQueries
=============================================================================
