---------------------------- MODULE BrokerTopics ----------------------------
(***************************************************************************)
(* What the broker knows about topics: the tree of topic filters with its  *)
(* subscriptions (subscription_map), the handles each session keeps to     *)
(* remove its own, the members of the shared subscriptions in the order    *)
(* they were served (shared_target) and the tree of retained messages      *)
(* (retained_topic_map).                                                   *)
(*                                                                         *)
(* A topic name or filter is the sequence of its levels.  A node of a tree *)
(* is the path that leads to it: the numbers the code gives the nodes only *)
(* say whose child a node is and, among the retained ones, which is older. *)
(* Who may publish and subscribe, and what a client that asked for a       *)
(* response topic is given, is decided by the rules of Security.           *)
(***************************************************************************)
EXTENDS Security

CONSTANTS Clients, Shares, NoShare,
          Credentials,  \* what each client logs in with
          Filters,      \* the topic filters clients subscribe to
          Topics,       \* the topic names they publish to
          NoLocal,      \* the subscriptions, <<client, filter>>, asked for with no local
          ResponseTopics, \* bound: the topic names create_uuid_string() yields, in order
          MaxStored     \* bound: subscriptions, shared ones, retained messages,
                        \* response topics and the rules added for them

Levels == UNION {ToSet(f) : f \in Filters \cup Topics}

ASSUME TopicsAssumption ==
    /\ NoShare \notin Shares
    /\ Filters \cup Topics \subseteq Seq(Levels) \ {<<>>}
    /\ NoLocal \subseteq Clients \X Filters
    /\ \A f \in Filters \cup ToSet(ResponseTopics) : IsFilter(f)
    /\ ResponseTopics \in Seq(ToSet(ResponseTopics))
    /\ \A t \in Topics : \A i \in DOMAIN t : t[i] \notin {"+", "#"}

VARIABLES
    tree,       \* subscription_map: path -> [count, plus, hash, value]
    handles,    \* session_state::handles_ of each client
    targets,    \* shared_target::targets_, the one served longest ago first
    kept,       \* retained_topic_map: path -> [count, value]
    born,       \* the paths of kept in the order their nodes were created
    auth,       \* security_: the rules and the two maps
    response,   \* session_state::response_topic_ of each client
    cleaner,    \* session_state::clean_handler_: the topic and rule it will remove
    issued,     \* the number of response topics that were made up
    sent        \* the last step's publish: its topic, whose turn it was and to
                \* whom it went, as <<client, share name, filter>>, and the reason
                \* its sender is given

topicVars == <<tree, handles, targets, kept, born>>
ruleVars == <<auth, response, cleaner, issued>>
vars == <<topicVars, ruleVars, sent>>

Paths(f) == {SubSeq(f, 1, i) : i \in 1..Len(f)}
Child(p, level) == Append(p, level)
HasChild(nodes, p, level) == Child(p, level) \in nodes

\* The nodes of a list that are in a set, in their order.
Among(list, nodes) ==
    FoldLeft(LAMBDA some, p : IF p \in nodes THEN Append(some, p) ELSE some, <<>>, list)

\* A wildcard on the first level does not stand for a level that begins with $.
Covers(p, level) == p # <<>> \/ level \notin System

-----------------------------------------------------------------------------
\* The tree of topic filters.

Node == [count |-> 0, plus |-> FALSE, hash |-> FALSE, value |-> <<>>]
Held(f) == Paths(f) \subseteq DOMAIN tree
Subscribers(f) == IF Held(f) THEN tree[f].value ELSE <<>>

\* create_topic_filter(), or increase_subscriptions() of a path that exists:
\* one more subscription at every node of the path, and the parent of a new
\* wildcard learns that it has one.
Grown(f) ==
    LET old(p) == IF p \in DOMAIN tree THEN tree[p] ELSE Node
        new(p, level) == Child(p, level) \in Paths(f) \ DOMAIN tree
    IN  [p \in DOMAIN tree \cup Paths(f) |->
            [old(p) EXCEPT !.count = @ + (IF p \in Paths(f) THEN 1 ELSE 0),
                           !.plus = @ \/ new(p, "+"),
                           !.hash = @ \/ new(p, "#")]]

\* A mutant of Pruned: the parent forgets a wildcard that is still subscribed to.
ForgetsWildcard(t, f) ==
    [p \in DOMAIN t \ {q \in Paths(f) : t[q].count = 1} |->
        [t[p] EXCEPT !.count = @ - (IF p \in Paths(f) THEN 1 ELSE 0),
                     !.plus = @ /\ Child(p, "+") \notin Paths(f),
                     !.hash = @ /\ Child(p, "#") \notin Paths(f)]]

\* remove_topic_filter(): from the last node to the first, a node that no
\* subscription needs any more goes, and its parent forgets the wildcard.
Pruned(t, f) ==
    LET gone == {p \in Paths(f) : t[p].count = 1}
    IN  [p \in DOMAIN t \ gone |->
            [t[p] EXCEPT !.count = @ - (IF p \in Paths(f) THEN 1 ELSE 0),
                         !.plus = @ /\ Child(p, "+") \notin gone,
                         !.hash = @ /\ Child(p, "#") \notin gone]]

\* insert_or_assign(): only a new client counts as one more subscription.
Inserted(f, c, share) ==
    LET t == IF c \in DOMAIN Subscribers(f) THEN tree ELSE Grown(f)
    IN  [t EXCEPT ![f].value = [d \in DOMAIN @ \cup {c} |-> IF d = c THEN share ELSE @[d]]]

\* erase() through a handle.
Erased(t, f, c) ==
    IF c \in DOMAIN t[f].value
    THEN LET rest == [d \in DOMAIN t[f].value \ {c} |-> t[f].value[d]]
         IN  Pruned([t EXCEPT ![f].value = rest], f)
    ELSE t

\* find_match_impl(): level by level the nodes that a topic name leads to.
Step(p, level) ==
    {q \in {Child(p, level)} : q \in DOMAIN tree}
    \cup {q \in {Child(p, "+")} : tree[p].plus /\ q \in DOMAIN tree /\ Covers(p, level)}

Reached(t) ==
    LET at[i \in 0..Len(t)] ==
            IF i = 0 THEN {<<>>} ELSE UNION {Step(p, t[i]) : p \in at[i - 1]}
        hashes(i) == {Child(p, "#") : p \in {q \in at[i - 1] :
                        /\ tree[q].hash
                        /\ HasChild(DOMAIN tree, q, "#")
                        /\ Covers(q, t[i])}}
    IN  at[Len(t)] \cup UNION {hashes(i) : i \in 1..Len(t)}

\* The subscriptions that find() calls back for a topic name.
Matched(t) ==
    UNION {{<<c, tree[p].value[c], p>> : c \in DOMAIN tree[p].value} : p \in Reached(t)}

-----------------------------------------------------------------------------
\* The members of the shared subscriptions.

IsOf(m, c, share) == m.client = c /\ m.share = share

\* insert(): a new member is the last in line, a member keeps its place.
Joined(c, share, f) ==
    IF \E i \in DOMAIN targets : IsOf(targets[i], c, share)
    THEN [i \in DOMAIN targets |->
            IF IsOf(targets[i], c, share)
            THEN [targets[i] EXCEPT !.filters = @ \cup {f}] ELSE targets[i]]
    ELSE Append(targets, [client |-> c, share |-> share, filters |-> {f}])

\* erase(): the member without a topic filter is none.
Left(c, share, f) ==
    RemoveFirstMatch([i \in DOMAIN targets |->
                        IF IsOf(targets[i], c, share)
                        THEN [targets[i] EXCEPT !.filters = @ \ {f}] ELSE targets[i]],
                     LAMBDA m : m.filters = {})

\* erase(), of a session: those of other clients stay in line.
LeftBehind(c) ==
    FoldLeft(LAMBDA line, m : IF m.client = c THEN line ELSE Append(line, m), <<>>, targets)

\* A mutant of InLine: any member of the share name.
OfShareName(line, share, f) == {i \in DOMAIN line : line[i].share = share}

\* get_target(): the first in line of the share name that has the topic
\* filter, who goes to the end of the line.
InLine(line, share, f) ==
    {i \in DOMAIN line : line[i].share = share /\ f \in line[i].filters}
Turn(served, gf) ==
    LET line == served.line
        turn == InLine(line, gf[1], gf[2])
        i == CHOOSE j \in turn : \A k \in turn : j <= k
    IN  IF turn = {} THEN served
        ELSE [line |-> Append(RemoveAt(line, i), line[i]),
              to |-> served.to \cup {<<line[i].client, gf[1], gf[2]>>}]

-----------------------------------------------------------------------------
\* The tree of retained messages.

Kept(t) == Paths(t) \subseteq DOMAIN kept
Stored == {t \in DOMAIN kept : kept[t].value}

\* insert_or_assign(): create_topic() or increase_topics(), unless the topic
\* has a message already.
Store(t) ==
    IF Kept(t) /\ kept[t].value THEN UNCHANGED <<kept, born>>
    ELSE /\ kept' = [p \in DOMAIN kept \cup Paths(t) |->
                        [count |-> (IF p \in DOMAIN kept THEN kept[p].count ELSE 0)
                                   + (IF p \in Paths(t) THEN 1 ELSE 0),
                         value |-> p = t \/ (p \in DOMAIN kept /\ kept[p].value)]]
         /\ born' = born \o Among([i \in 1..Len(t) |-> SubSeq(t, 1, i)],
                                  Paths(t) \ DOMAIN kept)

\* erase_topic()
Drop(t) ==
    IF Kept(t) /\ kept[t].value
    THEN LET gone == {p \in Paths(t) : kept[p].count = 1}
         IN  /\ kept' = [p \in DOMAIN kept \ gone |->
                            [count |-> kept[p].count - (IF p \in Paths(t) THEN 1 ELSE 0),
                             value |-> kept[p].value /\ p # t]]
             /\ born' = Among(born, DOMAIN kept \ gone)
    ELSE UNCHANGED <<kept, born>>

Children(p) == Among(born, {q \in ToSet(born) : Front(q) = p})

\* The nodes one level of a filter leads to.  Below the root the loop over the
\* children ends at the first one that begins with $.
Under(p, level) ==
    IF level = "+"
    THEN LET all == Children(p)
             stop == {i \in DOMAIN all : ~Covers(p, Last(all[i]))}
         IN  IF stop = {} THEN all
             ELSE SubSeq(all, 1, (CHOOSE i \in stop : \A j \in stop : i <= j) - 1)
    ELSE IF HasChild(DOMAIN kept, p, level) THEN <<Child(p, level)>> ELSE <<>>

\* A mutant of Below: the levels that begin with $ are not left out.
BelowAny(p) == {q \in DOMAIN kept : Len(q) > Len(p) /\ IsPrefix(p, q)}

\* match_hash_entries(): everything below a node.
Below(p) == {q \in DOMAIN kept : /\ Len(q) > Len(p) /\ IsPrefix(p, q)
                                 /\ Covers(p, q[Len(p) + 1])}

\* find_match(): "#" is looked up below the first node only and ends the search
\* with the nodes of the level before it.
Lookup(f) ==
    LET hash == Last(f) = "#"
        n == IF hash THEN Len(f) - 1 ELSE Len(f)
        at[i \in 0..n] ==
            IF i = 0 THEN <<<<>>>>
            ELSE FlattenSeq([k \in DOMAIN at[i - 1] |-> Under(at[i - 1][k], f[i])])
        last == at[n]
    IN  {q \in ToSet(last) : q # <<>> /\ kept[q].value}
        \cup {q \in (IF hash /\ last # <<>> THEN Below(last[1]) ELSE {}) : kept[q].value}

-----------------------------------------------------------------------------
Nothing == [topic |-> <<>>, turn |-> {}, to |-> {}, reason |-> "none"]
NoCleaner == [topic |-> <<>>, nr |-> 0]

UserOf(c) == User(Credentials[c])

Room ==
    Cardinality({h \in Clients \X Filters : h[2] \in handles[h[1]]})
    + Len(targets) + Cardinality(Stored)
    + issued + Len(auth.rules) - Len(Entries) < MaxStored

Init ==
    /\ tree = [p \in {<<>>} |-> [Node EXCEPT !.count = 1]]
    /\ handles = [c \in Clients |-> {}]
    /\ targets = <<>>
    /\ kept = [p \in {<<>>} |-> [count |-> 1, value |-> FALSE]]
    /\ born = <<>>
    /\ auth = Loaded
    /\ response = [c \in Clients |-> <<>>]
    /\ cleaner = [c \in Clients |-> NoCleaner]
    /\ issued = 0
    /\ sent = Nothing

\* session_state::subscribe()
Subscribed(c, share, f) ==
    /\ targets' = IF share = NoShare THEN targets ELSE Joined(c, share, f)
    /\ tree' = Inserted(f, c, share)
    /\ handles' = IF c \in DOMAIN Subscribers(f) THEN handles
                  ELSE [handles EXCEPT ![c] = @ \cup {f}]

\* The retained messages a subscription is given, without asking who may have
\* them: with "send" always, with "new" when it was none before.
Handed(c, f, handling) ==
    IF \/ handling = "send"
       \/ handling = "new" /\ c \notin DOMAIN Subscribers(f)
    THEN Lookup(f) ELSE {}

\* An entry without a topic filter ("$share/g", say) is invalid: v3.1.1 grants it the
\* empty one without asking, v5.0 refuses it.  Any other the rules decide on.
Invalid == <<"">>
Granting(c, f) ==
    IF f = Invalid THEN BOOLEAN ELSE {IsSubscribeAuthorized(auth, UserOf(c), f)}

\* subscribe_handler(), for an entry of a SUBSCRIBE packet.
Subscribe(c, share, f, handling) ==
    /\ Room
    /\ UserOf(c) # NoUser
    /\ \E granted \in Granting(c, f) :
        IF granted
        THEN /\ Subscribed(c, share, f)
             /\ sent' = [Nothing EXCEPT !.to = {<<c, share, t>> : t \in Handed(c, f, handling)},
                                        !.reason = "granted"]
        ELSE /\ sent' = [Nothing EXCEPT !.reason = IF f = Invalid THEN "topic_filter_invalid"
                                                   ELSE "not_authorized"]
             /\ UNCHANGED <<targets, tree, handles>>
    /\ UNCHANGED <<kept, born, ruleVars>>

\* session_state::unsubscribe(): the handle is the topic filter's, whoever
\* subscribed to it and under whichever share name.
Unsubscribed(c, share, f) ==
    /\ targets' = IF share = NoShare THEN targets ELSE Left(c, share, f)
    /\ IF Held(f)
       THEN /\ handles' = [handles EXCEPT ![c] = @ \ {f}]
            /\ tree' = Erased(tree, f, c)
       ELSE UNCHANGED <<handles, tree>>

\* unsubscribe_handler(), for an entry of an UNSUBSCRIBE packet.  (Without a share
\* name, nothing happens for a topic filter that nobody subscribed to.)
Unsubscribe(c, share, f) ==
    /\ UserOf(c) # NoUser
    /\ Held(f) \/ share # NoShare
    /\ Unsubscribed(c, share, f)
    /\ sent' = Nothing
    /\ UNCHANGED <<kept, born, ruleVars>>

\* set_response_topic(): the session's topic, or a new one, to which everyone
\* may publish and only its user subscribe; the handler that removes it all
\* takes the place of an earlier one.
Respond(c, rules, old) ==
    LET topic == IF old = <<>> THEN ResponseTopics[issued + 1] ELSE old
    IN  /\ old = <<>> => issued < Len(ResponseTopics)
        /\ auth' = AddAuth(rules, topic, {Everyone}, "allow", {UserOf(c)}, "allow")
        /\ response' = [response EXCEPT ![c] = topic]
        /\ cleaner' = [cleaner EXCEPT ![c] = [topic |-> topic, nr |-> NextRuleNr(rules)]]
        /\ issued' = IF old = <<>> THEN issued + 1 ELSE issued

\* session_state::clean(), with its handler.
Clean(c) ==
    /\ tree' = FoldSet(LAMBDA f, t : Erased(t, f, c), tree, handles[c])
    /\ handles' = [handles EXCEPT ![c] = {}]
    /\ targets' = LeftBehind(c)
    /\ Drop(cleaner[c].topic)
    /\ sent' = Nothing
CleanedRules(c) == WithoutRule(auth, cleaner[c].nr)

\* The session ends.
End(c) ==
    /\ Clean(c)
    /\ auth' = CleanedRules(c)
    /\ response' = [response EXCEPT ![c] = <<>>]
    /\ cleaner' = [cleaner EXCEPT ![c] = NoCleaner]
    /\ UNCHANGED issued

\* renew(): CONNECT with Clean Start to a session that exists.  The handler of
\* the old response topic remains if no new one is requested.
Renew(c, requested) ==
    /\ Clean(c)
    /\ IF requested
       THEN Room /\ Respond(c, CleanedRules(c), <<>>)
       ELSE /\ auth' = CleanedRules(c)
            /\ response' = [response EXCEPT ![c] = <<>>]
            /\ UNCHANGED <<cleaner, issued>>

\* A new session, or one that goes on, with RequestResponseInformation.
Request(c) ==
    /\ Room
    /\ UserOf(c) # NoUser
    /\ Respond(c, auth, response[c])
    /\ sent' = Nothing
    /\ UNCHANGED topicVars

\* do_publish(): every matching subscription is served, but for the sender's own with
\* no local, the members of a shared one once for the share name and topic filter, in
\* the order of a hash map, and those whose user the rules allow the topic are
\* delivered to; then the message is retained, or the retained one removed (where
\* there is none, an empty message does as any other).
DoPublish(c, t, retain) ==
    LET plain == {m \in Matched(t) : m[2] = NoShare}
        local == {m \in plain : m[1] = c /\ <<c, m[3]>> \in NoLocal}
        shared == {<<m[2], m[3]>> : m \in Matched(t) \ plain}
        users == AuthSub(auth, t)
        delivered(turn) == {s \in turn : AuthSubUser(users, UserOf(s[1])) = "allow"}
    IN  /\ retain = "message" => Room
        /\ retain = "empty" => t \in Stored
        /\ \E order \in SetToSeqs(shared) :
            LET served == FoldLeft(Turn, [line |-> targets, to |-> plain \ local], order)
            IN  /\ targets' = served.line
                /\ sent' = [topic |-> t, turn |-> served.to, to |-> delivered(served.to),
                            reason |-> IF delivered(served.to) # {} THEN "success"
                                       ELSE "no_matching_subscribers"]
        /\ CASE retain = "message" -> Store(t)
             [] retain = "empty" -> Drop(t)
             [] OTHER -> UNCHANGED <<kept, born>>
        /\ UNCHANGED <<tree, handles>>

\* publish_handler(): the reason is that of the PUBACK or PUBREC.
Publish(c, t, retain) ==
    /\ UserOf(c) # NoUser
    /\ IF AuthPub(auth, t, UserOf(c)) = "allow"
       THEN DoPublish(c, t, retain)
       ELSE /\ sent' = [Nothing EXCEPT !.topic = t, !.reason = "not_authorized"]
            /\ UNCHANGED topicVars
    /\ UNCHANGED ruleVars

\* The message_expiry_interval of a retained message has passed.
RetainedExpires(t) ==
    /\ t \in Stored
    /\ Drop(t)
    /\ sent' = Nothing
    /\ UNCHANGED <<tree, handles, targets, ruleVars>>

Next ==
    \/ \E c \in Clients :
        \/ \E share \in Shares \cup {NoShare}, f \in Filters :
            \/ \E handling \in {"send", "new", "no"} : Subscribe(c, share, f, handling)
            \/ Unsubscribe(c, share, f)
        \/ \E t \in Topics, retain \in {"no", "message", "empty"} : Publish(c, t, retain)
        \/ \E requested \in BOOLEAN : Renew(c, requested)
        \/ End(c)
        \/ Request(c)
    \/ \E t \in Topics : RetainedExpires(t)

Spec == Init /\ [][Next]_vars

-----------------------------------------------------------------------------
\* Whatever was subscribed and unsubscribed before, by whom and in whichever
\* order, the search through the tree finds the subscriptions the sessions hold
\* handles for whose topic filter matches by the rules, and no other: no flag or
\* node is missing for one, none is left over (find_match_impl, session_state).
SearchAgrees ==
    \A t \in Topics :
        {<<m[1], m[3]>> : m \in Matched(t)}
            = {h \in Clients \X Filters : h[2] \in handles[h[1]] /\ Match(h[2], t)}

\* A publish reaches each group of a matching shared subscription through one
\* of its members, whichever of them the search calls back and however many,
\* and through a member that holds the topic filter at that moment
\* (do_publish, get_target).
OneOfEachGroup ==
    sent.reason \in {"success", "no_matching_subscribers"} =>
        \A m \in Matched(sent.topic) : m[2] # NoShare =>
            \E c \in Clients :
                /\ {s \in sent.turn : s[2] = m[2] /\ s[3] = m[3]} = {<<c, m[2], m[3]>>}
                /\ \E i \in DOMAIN targets :
                    IsOf(targets[i], c, m[2]) /\ m[3] \in targets[i].filters

\* What a topic filter of a rule and one that is subscribed to have in common, as
\* it is worked out level by level, stands for just the topics that both match;
\* and a rule that denies a subscription matches all its topics.  (A wildcard is
\* not kept from the levels that begin with $.)  is_subscribe_allowed,
\* is_subscribe_denied
FiltersMeet ==
    \A r \in ToSet(auth.rules) : \A f \in UNION {handles[c] : c \in Clients} :
        LET both == IsSubscribeAllowed(r.filter, f)
        IN  \A t \in Topics :
            /\ Match(r.filter, t) /\ Match(f, t) => both # <<>> /\ Match(both, t)
            /\ t[1] \notin System =>
                /\ both # <<>> /\ Match(both, t) => Match(r.filter, t) /\ Match(f, t)
                /\ IsSubscribeDenied(r.filter, f) /\ Match(f, t) => Match(r.filter, t)

\* Whatever sessions with response topics come, go, start anew and resume, a
\* decision rests on a rule that is in the list still, as it stands there
\* (add_auth, remove_auth, the clean handler).
GrantsAreBacked ==
    /\ \A k \in DOMAIN auth.sub : \E r \in ToSet(auth.rules) :
        /\ r.filter = k[1] /\ k[2] \in r.sub
        /\ auth.sub[k] = [type |-> r.subType, nr |-> r.nr]
    /\ \A k \in DOMAIN auth.pub : \E r \in ToSet(auth.rules) :
        /\ r.filter = k[1] /\ k[2] \in r.pub
        /\ auth.pub[k] = [type |-> r.pubType, nr |-> r.nr]

\* "#" also stands for no level at all in a search for retained messages.
MatchRetained(f, t) ==
    \/ Match(f, t)
    \/ Last(f) = "#" /\ Len(f) > 1 /\ Match(Front(f), t)

\* A new subscription is given retained messages that match only, and all of
\* them unless its filter has "+" on the first level or before "#"
\* (retained_topic_map::find_match).
RetainedFound ==
    \A f \in Filters :
        LET found == {t \in Stored : MatchRetained(f, t)}
        IN  /\ Lookup(f) \subseteq found
            /\ \/ Lookup(f) = found
               \/ f[1] = "+"
               \/ Last(f) = "#" /\ "+" \in ToSet(f)

=============================================================================
