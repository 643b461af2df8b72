------------------------------- MODULE Security -------------------------------
(***************************************************************************)
(* Who may do what at the broker: the accounts a client logs in to, the    *)
(* groups they are in, and the rules that allow or deny a topic filter to  *)
(* users and groups.  The rules stand in a list, in the order of the file  *)
(* they are read from, and once more in two maps from a topic filter and a *)
(* name to the last rule for both, by which a publish is decided.          *)
(*                                                                         *)
(* A topic name or filter is the sequence of its levels.  The maps are     *)
(* trees of the same class as the subscriptions; here they are functions.  *)
(***************************************************************************)
EXTENDS Naturals, SequencesExt

CONSTANTS
    System,     \* the levels that begin with $
    Accounts,   \* authentication_: name -> [method, salt, digest]
    Groups,     \* groups_: <<[name, members]>>, in the order of the names
    Everyone,   \* any_group_name
    Entries,    \* the authorization of the file: <<[topic, allow, deny]>>
    NoUser

Users == DOMAIN Accounts
GroupNames == {Groups[i].name : i \in DOMAIN Groups}

\* validate_topic_filter(), on the levels of a topic filter.
IsFilter(f) ==
    /\ f \in Seq(ToSet(f)) \ {<<>>}
    /\ \A i \in DOMAIN f : f[i] = "#" => i = Len(f)

\* What load_json() and validate() demand of the file.
ASSUME SecurityAssumption ==
    /\ NoUser \notin Users
    /\ Entries \in Seq(ToSet(Entries))
    /\ \A i \in DOMAIN Groups : Groups[i].members \subseteq Users
    /\ \A i \in DOMAIN Entries : IsFilter(Entries[i].topic)
    /\ \A i \in DOMAIN Entries : \A kind \in {"sub", "pub"} :
        Entries[i].allow[kind] \cup Entries[i].deny[kind] \subseteq Users \cup GroupNames

\* "+" stands for one level, "#" for one or more, and neither for a first level
\* with $: what a search through the tree of topic filters finds.
Match(f, t) ==
    LET n == IF Last(f) = "#" THEN Len(f) - 1 ELSE Len(f)
    IN  /\ IF Last(f) = "#" THEN Len(t) > n ELSE Len(t) = n
        /\ \A i \in 1..n : f[i] \in {"+", t[i]}
        /\ f[1] \in {"+", "#"} => t[1] \notin System

-----------------------------------------------------------------------------
\* Logging in.

Digest(salt, password) == <<salt, password>>

\* login()
Login(name, password) ==
    IF /\ name \in Users
       /\ \/ /\ Accounts[name].method = "sha256"
             /\ Accounts[name].digest = Digest(Accounts[name].salt, password)
          \/ /\ Accounts[name].method = "plain_password"
             /\ Accounts[name].digest = password
    THEN name ELSE NoUser

\* The one account of a method: login_anonymous(), login_unauthenticated().
Only(method) ==
    LET of == {u \in Users : Accounts[u].method = method}
    IN  IF of = {} THEN NoUser ELSE CHOOSE u \in of : TRUE

\* connect_handler(): by certificate, without name and password, or with both;
\* whoever fails is the unauthenticated user, if there is one.
User(credentials) ==
    LET claimed ==
            CASE credentials.kind = "certificate" ->
                    IF /\ credentials.name \in Users
                       /\ Accounts[credentials.name].method = "client_cert"
                    THEN credentials.name ELSE NoUser
              [] credentials.kind = "nothing" -> Only("anonymous")
              [] credentials.kind = "password" ->
                    Login(credentials.name, credentials.password)
    IN  IF claimed = NoUser THEN Only("unauthenticated") ELSE claimed

-----------------------------------------------------------------------------
\* The list of rules and the two maps.

NoRules == [rules |-> <<>>, sub |-> <<>>, pub |-> <<>>]

NextRuleNr(auth) ==
    1 + Max({0} \cup {auth.rules[i].nr : i \in DOMAIN auth.rules})

\* insert_or_assign() of a rule for each of its names.
Assigned(map, filter, names, type, nr) ==
    LET new == {<<filter, name>> : name \in names}
    IN  [k \in DOMAIN map \cup new |-> IF k \in new THEN [type |-> type, nr |-> nr] ELSE map[k]]

\* A mutant of WithoutRule: the maps keep what the rule put there.
OutOfList(auth, nr) ==
    [auth EXCEPT !.rules = SelectSeq(@, LAMBDA r : r.nr # nr)]

AddAuth(auth, filter, pub, pubType, sub, subType) ==
    LET nr == NextRuleNr(auth)
    IN  [rules |-> Append(auth.rules, [filter |-> filter, nr |-> nr, sub |-> sub,
                            subType |-> subType, pub |-> pub, pubType |-> pubType]),
         sub |-> Assigned(auth.sub, filter, sub, subType, nr),
         pub |-> Assigned(auth.pub, filter, pub, pubType, nr)]

\* remove_auth(): the first rule with the number goes, and the maps lose its names,
\* whichever rule they hold for its topic filter.
WithoutRule(auth, nr) ==
    LET found == {i \in DOMAIN auth.rules : auth.rules[i].nr = nr}
        gone == auth.rules[Min(found)]
        rest(map, names) ==
            Restrict(map, DOMAIN map \ {<<gone.filter, name>> : name \in names})
    IN  IF found = {} THEN auth
        ELSE [rules |-> RemoveAt(auth.rules, Min(found)),
              sub |-> rest(auth.sub, gone.sub),
              pub |-> rest(auth.pub, gone.pub)]

\* load_json(), an entry of "authorization": what is denied decides the type of
\* all the names of the entry.
NamesOf(entry, kind) == entry.allow[kind] \cup entry.deny[kind]
TypeOf(entry, kind) ==
    CASE entry.deny[kind] # {} -> "deny"
      [] entry.deny[kind] = {} /\ entry.allow[kind] # {} -> "allow"
      [] OTHER -> "none"

AddEntry(auth, entry) ==
    AddAuth(auth, entry.topic, NamesOf(entry, "pub"), TypeOf(entry, "pub"),
                               NamesOf(entry, "sub"), TypeOf(entry, "sub"))

Loaded == FoldLeft(AddEntry, NoRules, Entries)

-----------------------------------------------------------------------------
\* Deciding.

IsIn(user, i) == Groups[i].name = Everyone \/ user \in Groups[i].members
NamesFor(user) == {user} \cup {Groups[i].name : i \in {j \in DOMAIN Groups : IsIn(user, j)}}

Latest(map, keys) == CHOOSE k \in keys : \A l \in keys : map[l].nr <= map[k].nr

\* auth_pub()
AuthPub(auth, topic, user) ==
    LET found == {k \in DOMAIN auth.pub : Match(k[1], topic) /\ k[2] \in NamesFor(user)}
    IN  IF found = {} THEN "deny" ELSE auth.pub[Latest(auth.pub, found)].type

\* auth_sub(): for each name the latest rule for a topic.
AuthSub(auth, topic) ==
    LET found == {k \in DOMAIN auth.sub : Match(k[1], topic)}
        of(name) == {k \in found : k[2] = name}
    IN  [name \in {k[2] : k \in found} |-> auth.sub[Latest(auth.sub, of(name))].type]

\* auth_sub_user(): a rule for the user comes before those for its groups, and
\* those in the order of the groups.
AuthSubUser(result, user) ==
    LET in == {i \in DOMAIN Groups : IsIn(user, i) /\ Groups[i].name \in DOMAIN result}
    IN  CASE user \in DOMAIN result -> result[user]
          [] user \notin DOMAIN result /\ in # {} -> result[Groups[Min(in)].name]
          [] OTHER -> "deny"

\* The first level at which one of two topic filters has "#".
FirstHash(auth, sub) ==
    LET hashes == {i \in DOMAIN auth \cap DOMAIN sub : "#" \in {auth[i], sub[i]}}
    IN  IF hashes = {} THEN 0 ELSE Min(hashes)

Meets(auth, sub, n) == \A i \in 1..n : auth[i] = "+" \/ sub[i] \in {"+", auth[i]}

\* A mutant of Common: what is authorized, whatever is subscribed to.
AsAuthorized(auth, sub, n) == SubSeq(auth, 1, n)

Common(auth, sub, n) == [i \in 1..n |-> IF auth[i] = "+" THEN sub[i] ELSE auth[i]]

\* is_subscribe_allowed(): level by level what both topic filters stand for, or
\* nothing; from "#" of one of them on, the rest of the other.
IsSubscribeAllowed(auth, sub) ==
    LET k == FirstHash(auth, sub)
        rest == IF auth[k] = "#" THEN sub ELSE auth
    IN  CASE k # 0 /\ Meets(auth, sub, k - 1) ->
                Common(auth, sub, k - 1) \o SubSeq(rest, k, Len(rest))
          [] k = 0 /\ Len(auth) = Len(sub) /\ Meets(auth, sub, Len(sub)) ->
                Common(auth, sub, Len(sub))
          [] OTHER -> <<>>

\* is_subscribe_denied(): whether all that a topic filter stands for is denied.
IsSubscribeDenied(deny, sub) ==
    LET covers(i) == deny[i] = sub[i] \/ (deny[i] = "+" /\ sub[i] # "#")
        hash == Last(deny) = "#" /\ Len(sub) >= Len(deny) /\ sub[Len(deny)] # "#"
        n == IF hash THEN Len(deny) - 1 ELSE Len(deny)
    IN  /\ hash \/ Len(sub) = Len(deny)
        /\ \A i \in 1..n : covers(i)

\* get_auth_sub_topics(): the rules for a user in their order; a rule that
\* denies the topic filter takes back whatever was allowed before.
GetAuthSubTopics(auth, user, filter) ==
    LET applied(topics, r) ==
            CASE r.subType = "allow" -> topics \cup ({IsSubscribeAllowed(r.filter, filter)} \ {<<>>})
              [] r.subType = "deny" /\ IsSubscribeDenied(r.filter, filter) -> {}
              [] OTHER -> topics
    IN  FoldLeft(applied, {},
                 SelectSeq(auth.rules, LAMBDA r : r.sub \cap NamesFor(user) # {}))

IsSubscribeAuthorized(auth, user, filter) == GetAuthSubTopics(auth, user, filter) # {}
=============================================================================
