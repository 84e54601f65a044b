------------------------------- MODULE Identity -------------------------------
(***************************************************************************)
(* Who a request is from: what native authentication makes of a            *)
(* TokenReview (review, kubernetes.go), what the middleware lets through   *)
(* (auth.go), what the handlers take for the caller, and whether that      *)
(* caller may run a task (api.go).  Everything here is an operator.        *)
(*                                                                         *)
(* A name (of a user, a group or a cluster, or a header's value) is a      *)
(* sequence of marks: letters, and the separators that the code looks for. *)
(***************************************************************************)
EXTENDS Integers, Sequences, FiniteSets, SequencesExt

Comma   == ","
Slash   == "/"
Space   == " "
Control == "\n"   \* CR, LF and NUL

Has(name, marks) == \E k \in DOMAIN name : name[k] \in marks

\* strings.TrimSpace
Trim(name) ==
  LET ink == {k \in DOMAIN name : name[k] \notin {Space, Control}}
  IN IF ink = {} THEN <<>> ELSE SubSeq(name, Min(ink), Max(ink))

\* strings.Join(groups, ",")
Csv(groups) ==
  FlattenSeq([k \in DOMAIN groups |->
                IF k = 1 THEN groups[k] ELSE <<Comma>> \o groups[k]])

\* splitGroups: the parts between commas, trimmed, without the empty ones.
SplitGroups(header) ==
  LET cuts  == {k \in DOMAIN header : header[k] = Comma}
      Before(b) == Max({0} \cup {k \in cuts : k < b})
      parts == {SubSeq(header, Before(b) + 1, b - 1) : b \in cuts \cup {Len(header) + 1}}
  IN {Trim(g) : g \in parts} \ {<<>>}

-----------------------------------------------------------------------------
\* review.  A TokenReview's status is [authenticated, user, groups, clusters,
\* audience]: authenticated and without an error, the user and the groups, the
\* values of the cluster extra, and whether one of the audiences that were
\* asked for is confirmed.  c is the authentication configuration.

NoPrincipal == [verified |-> FALSE, identity |-> <<>>, groups |-> <<>>]

\* Mutation: groups are checked for what breaks a line only.
LineSafe(g) == g # <<>> /\ ~Has(g, {Control})

\* Groups are later joined with commas.
GroupName(g) == g # <<>> /\ Trim(g) = g /\ ~Has(g, {Comma, Control})

UserName(u) == u # <<>> /\ ~Has(u, {Control})

\* Mutation: a cluster's name need only survive in a CSV.
CsvSafe(name) == name # <<>> /\ ~Has(name, {Comma, Space, Control})

\* validClusterName
ClusterName(name) ==
  name # <<>> /\ ~Has(name, {Comma, Slash, "\\", Space, Control})

Accepted(c, s) ==
  /\ \A k \in DOMAIN s.groups : GroupName(s.groups[k])
  /\ s.authenticated /\ UserName(s.user)
  /\ s.audience
  /\ c.trustExtra => Len(s.clusters) = 1 /\ ClusterName(s.clusters[1])

Cluster(c, s) == IF c.trustExtra THEN s.clusters[1] ELSE c.cluster

\* The prefix of everything the principal is called by.
Prefix(c, s) == IF c.includeCluster THEN Cluster(c, s) \o <<Slash>> ELSE <<>>

PrincipalOf(c, s) ==
  [verified |-> TRUE,
   identity |-> Prefix(c, s) \o s.user,
   groups   |-> [k \in DOMAIN s.groups |-> Prefix(c, s) \o s.groups[k]]]

-----------------------------------------------------------------------------
\* The caller.  A request has [credentials, userHeader, groupsHeader, ...]:
\* credentials are the values of its Authorization headers, NotBearer one that
\* is malformed, too long or of another scheme.

NotBearer == "not a bearer token"

\* Exactly one Authorization header with a bearer token.
Bears(r) == Len(r.credentials) = 1 /\ r.credentials[1] # NotBearer

\* Mutation: without a principal the headers are believed in every mode.
HeaderOrPrincipal(native, r, p) ==
  IF p.verified THEN [identity |-> p.identity, groups |-> Csv(p.groups)]
  ELSE [identity |-> r.userHeader, groups |-> r.groupsHeader]

\* caller: the verified principal; no one in native mode without it (health
\* and metrics, or a request that was refused); else what the headers say.
Caller(native, r, p) ==
  IF p.verified THEN [identity |-> p.identity, groups |-> Csv(p.groups)]
  ELSE IF native THEN [identity |-> <<>>, groups |-> <<>>]
  ELSE [identity |-> r.userHeader, groups |-> r.groupsHeader]

\* handleSubmitTask's authorization: an allowed user or an allowed group; p's
\* own groups count, not their CSV form.
GroupsFor(caller, p) ==
  IF p.verified THEN {p.groups[k] : k \in DOMAIN p.groups}
                ELSE SplitGroups(caller.groups)

MayRun(def, caller, p) ==
  \/ def.allowedUsers = {} /\ def.allowedGroups = {}
  \/ caller.identity # <<>> /\ caller.identity \in def.allowedUsers
  \/ GroupsFor(caller, p) \cap def.allowedGroups # {}
===============================================================================
