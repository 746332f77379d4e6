--------------------------- MODULE MissingPersons ---------------------------
(***************************************************************************)
(* The registers of missing and of unidentified persons and the candidate  *)
(* matches that join them: missing-persons.service.ts.                     *)
(* A request reads its row, is authorised on what it read, and writes in a *)
(* later statement whose WHERE names the row and nothing else.             *)
(***************************************************************************)
EXTENDS Integers, Sequences, FiniteSets

CONSTANTS Missing, Found, Requests,
          NoOne,
          Known,         \* the missing persons whose citizen record is named
          Candidates,    \* what the engine may say of a pairing (MatchingEngine)
          MaxMatches,    \* bound: rows of person_match
          MaxSightings   \* bound: rows of sighting

VARIABLES missing, found, matches, sightings, request

vars == <<missing, found, matches, sightings, request>>

\* "ACTIVE" stands for REPORTED, VERIFIED and ACTIVE, "CLOSED" for CLOSED and CANCELLED:
\* no guard tells them apart.
Outcome == {"LOCATED", "REUNITED", "CLOSED"}
MissingPerson == [status : Outcome \cup {"ACTIVE", "NONE"}, resolved : BOOLEAN]

\* "UNIDENTIFIED" stands for UNDER_REVIEW as well.
Unnamed == {"UNIDENTIFIED"}
Named == {"PROVISIONALLY_IDENTIFIED", "IDENTIFIED"}
FoundStatus == Unnamed \cup Named \cup {"CLOSED", "NONE"}
UnidentifiedPerson == [status : FoundStatus, identity : Missing \cup {NoOne}]

\* Of the stored factors: whether several attributes speak for the pairing.
MatchStatus == {"CANDIDATE", "CONFIRMED", "REJECTED", "SUPERSEDED"}
Match == [missing : Missing, found : Found, several : BOOLEAN, reviewed : BOOLEAN,
          status : MatchStatus]
Sighting == {"UNVERIFIED", "VERIFIED", "DISCOUNTED"}

-----------------------------------------------------------------------------
\* A request that is to write a row remembers what it has seen of it: whether the report
\* was resolved, the status of the found person or of the match.
Idle == [at |-> "idle"]
Request ==
    [at : {"idle"}]
    \cup [at : {"update"}, who : Missing, seen : BOOLEAN]
    \cup [at : {"profile"}, who : Missing]
    \cup [at : {"describe"}, who : Found, seen : FoundStatus]
    \cup [at : {"review"}, match : 1..MaxMatches, seen : MatchStatus]
    \cup [at : {"matching"}, who : Missing, found : Seq([found : Found, several : BOOLEAN])]

TypeOK ==
    /\ missing \in [Missing -> MissingPerson]
    /\ found \in [Found -> UnidentifiedPerson]
    /\ matches \in Seq(Match) /\ Len(matches) <= MaxMatches
    /\ sightings \in Seq(Sighting) /\ Len(sightings) <= MaxSightings
    /\ request \in [Requests -> Request]

Init ==
    /\ missing = [p \in Missing |-> [status |-> "NONE", resolved |-> FALSE]]
    /\ found = [u \in Found |-> [status |-> "NONE", identity |-> NoOne]]
    /\ matches = <<>> /\ sightings = <<>>
    /\ request = [r \in Requests |-> Idle]

Begins(r, step) == request[r].at = "idle" /\ request' = [request EXCEPT ![r] = step]
At(r, at) == request[r].at = at
Ends(r) == request' = [request EXCEPT ![r] = Idle]

CreateMissingPerson(r, p) ==
    /\ At(r, "idle") /\ missing[p].status = "NONE"
    /\ missing' = [missing EXCEPT ![p].status = "ACTIVE"]
    /\ UNCHANGED <<found, matches, sightings, request>>

CreateUnidentifiedPerson(r, u) ==
    /\ At(r, "idle") /\ found[u].status = "NONE"
    /\ found' = [found EXCEPT ![u].status = "UNIDENTIFIED"]
    /\ UNCHANGED <<missing, matches, sightings, request>>

(***************************************************************************)
(* updateMissingPerson(): the row is refused when it has been resolved.    *)
(***************************************************************************)
ReadForUpdate(r, p) ==
    /\ missing[p].status # "NONE" /\ ~missing[p].resolved
    /\ Begins(r, [at |-> "update", who |-> p, seen |-> missing[p].resolved])
    /\ UNCHANGED <<missing, found, matches, sightings>>

\* Other fields may be revised with the status left alone.
UpdateMissingPerson(r, status) ==
    /\ At(r, "update")
    /\ missing' = [missing EXCEPT ![request[r].who].status = status]
    /\ Ends(r)
    /\ UNCHANGED <<found, matches, sightings>>

\* resolveMissingPerson() asks nothing of the row it has read but that it is there.
ResolveMissingPerson(r, p, outcome) ==
    /\ At(r, "idle") /\ missing[p].status # "NONE"
    /\ missing' = [missing EXCEPT ![p] = [status |-> outcome, resolved |-> TRUE]]
    /\ UNCHANGED <<found, matches, sightings, request>>

(***************************************************************************)
(* Sightings.  Nothing asks whether the enquiry is over, or whether the    *)
(* sighting was reviewed before.                                           *)
(***************************************************************************)
ReportSighting(r, p) ==
    /\ At(r, "idle") /\ missing[p].status # "NONE" /\ Len(sightings) < MaxSightings
    /\ sightings' = Append(sightings, "UNVERIFIED")
    /\ UNCHANGED <<missing, found, matches, request>>

ReviewSighting(r, s, verification) ==
    /\ At(r, "idle") /\ s \in DOMAIN sightings
    /\ sightings' = [sightings EXCEPT ![s] = verification]
    /\ UNCHANGED <<missing, found, matches, request>>

(***************************************************************************)
(* updateUnidentifiedPerson(): a record that has been matched is refused,  *)
(* and the identity is not among the fields.                               *)
(***************************************************************************)
ReadToDescribe(r, u) ==
    /\ found[u].status \in Unnamed \cup {"CLOSED"}
    /\ Begins(r, [at |-> "describe", who |-> u, seen |-> found[u].status])
    /\ UNCHANGED <<missing, found, matches, sightings>>

UpdateUnidentifiedPerson(r, status) ==
    /\ At(r, "describe")
    /\ found' = [found EXCEPT ![request[r].who].status = status]
    /\ Ends(r)
    /\ UNCHANGED <<missing, matches, sightings>>

(***************************************************************************)
(* runMatching(): the profile, the candidates, and one INSERT for each, no *)
(* two of the three in one transaction.  person_match has no unique index: *)
(* ON CONFLICT DO NOTHING finds no conflict, and a second run writes the   *)
(* pair again.                                                             *)
(***************************************************************************)
ReadProfile(r, p) ==
    /\ missing[p].status # "NONE"
    /\ Begins(r, [at |-> "profile", who |-> p])
    /\ UNCHANGED <<missing, found, matches, sightings>>

Considered == {u \in Found : found[u].status \in Unnamed}

FindCandidates(r) ==
    /\ At(r, "profile")
    /\ \E someone \in SUBSET Considered : \E raised \in [someone -> Candidates] :
       \E order \in [1..Cardinality(someone) -> someone] :
          /\ someone = {order[i] : i \in DOMAIN order}
          /\ request' = [request EXCEPT ![r] =
                [at |-> "matching", who |-> request[r].who,
                 found |-> [i \in DOMAIN order |->
                               [found |-> order[i], several |-> raised[order[i]]]]]]
    /\ UNCHANGED <<missing, found, matches, sightings>>

InsertCandidate(r) ==
    /\ At(r, "matching") /\ request[r].found # <<>> /\ Len(matches) < MaxMatches
    /\ LET c == Head(request[r].found) IN
       matches' = Append(matches, [missing |-> request[r].who, found |-> c.found,
                                   several |-> c.several, status |-> "CANDIDATE",
                                   reviewed |-> FALSE])
    /\ request' = [request EXCEPT ![r].found = Tail(@)]
    /\ UNCHANGED <<missing, found, sightings>>

\* The run is over, or a statement of it failed and the rest is not written.
MatchingEnds(r) ==
    /\ At(r, "matching")
    /\ Ends(r)
    /\ UNCHANGED <<missing, found, matches, sightings>>

(***************************************************************************)
(* reviewMatch(): the status is read before the officer is authorised, and *)
(* the decision is written in one transaction that does not read it again. *)
(***************************************************************************)
ReadMatch(r, m) ==
    /\ m \in DOMAIN matches /\ matches[m].status = "CANDIDATE"
    /\ Begins(r, [at |-> "review", match |-> m, seen |-> matches[m].status])
    /\ UNCHANGED <<missing, found, matches, sightings>>

Reject(r) ==
    /\ At(r, "review")
    /\ matches' = [matches EXCEPT ![request[r].match] = [@ EXCEPT !.status = "REJECTED",
                                                                  !.reviewed = TRUE]]
    /\ Ends(r)
    /\ UNCHANGED <<missing, found, sightings>>

\* Mutation of Superseded: every other match of the person is.
SupersededAll(m) ==
    {n \in DOMAIN matches : n # m /\ matches[n].missing = matches[m].missing}

\* "Any other open candidate for the same person is superseded"
Superseded(m) ==
    {n \in DOMAIN matches : n # m /\ matches[n].missing = matches[m].missing
                                  /\ matches[n].status = "CANDIDATE"}

\* What the found person's row becomes.
\* Mutation of Identified: the record is named after the person of the last candidate.
IdentifiedAsLast(m) ==
    [status |-> "IDENTIFIED", identity |-> matches[Len(matches)].missing]

Identified(m) ==
    IF matches[m].missing \in Known
    THEN [status |-> "IDENTIFIED", identity |-> matches[m].missing]
    ELSE [status |-> "PROVISIONALLY_IDENTIFIED", identity |-> NoOne]

Confirm(r) ==
    /\ At(r, "review")
    /\ LET m == request[r].match
           p == matches[m].missing IN
       /\ matches' = [n \in DOMAIN matches |->
             IF n = m THEN [matches[n] EXCEPT !.status = "CONFIRMED", !.reviewed = TRUE]
             ELSE IF n \in Superseded(m) THEN [matches[n] EXCEPT !.status = "SUPERSEDED"]
             ELSE matches[n]]
       /\ found' = [found EXCEPT ![matches[m].found] = Identified(m)]
       /\ missing' = [missing EXCEPT ![p].status = IF @ = "REUNITED" THEN @ ELSE "LOCATED"]
    /\ Ends(r)
    /\ UNCHANGED sightings

\* A request that is refused, or whose process stops between two statements.
Stops(r) ==
    /\ request[r].at \notin {"idle", "matching"}
    /\ Ends(r)
    /\ UNCHANGED <<missing, found, matches, sightings>>

Next ==
    \E r \in Requests :
       \/ \E p \in Missing :
             \/ CreateMissingPerson(r, p) \/ ReadForUpdate(r, p)
             \/ ReportSighting(r, p) \/ ReadProfile(r, p)
             \/ \E outcome \in Outcome : ResolveMissingPerson(r, p, outcome)
       \/ \E u \in Found : CreateUnidentifiedPerson(r, u) \/ ReadToDescribe(r, u)
       \/ \E status \in {"ACTIVE", "CLOSED"} : UpdateMissingPerson(r, status)
       \/ \E s \in 1..MaxSightings, verification \in {"VERIFIED", "DISCOUNTED"} :
             ReviewSighting(r, s, verification)
       \/ \E status \in Unnamed \cup {"CLOSED"} : UpdateUnidentifiedPerson(r, status)
       \/ FindCandidates(r) \/ InsertCandidate(r) \/ MatchingEnds(r)
       \/ \E m \in 1..MaxMatches : ReadMatch(r, m)
       \/ Reject(r) \/ Confirm(r) \/ Stops(r)

Spec == Init /\ [][Next]_vars

-----------------------------------------------------------------------------
\* A person who was found bears the identity of a missing person only where an officer
\* has reviewed a candidate that joins the two: no score, no revision of a description
\* and no officer who decided about somebody else has named them.
IdentityRestsOnReview ==
    \A u \in Found : found[u].identity # NoOne =>
        \E m \in DOMAIN matches :
            /\ matches[m].found = u /\ matches[m].missing = found[u].identity
            /\ matches[m].reviewed

\* No attribute, however strong, makes a candidate alone: whatever the descriptions say,
\* an officer is only ever asked about a pairing for which several of them speak.
CandidateRestsOnSeveral == \A m \in DOMAIN matches : matches[m].several

\* A name comes from an officer's decision about a pairing, and the pairing from more
\* than one attribute (reviewMatch(), matching.engine.ts).
NamedOnEvidence == IdentityRestsOnReview /\ CandidateRestsOnSeveral

\* What is settled stays settled, unless it was not yet settled when somebody read it who
\* writes now: a resolved report is neither opened again nor taken for unresolved, a person
\* who was named does not become nameless again, and a match that was decided on is not
\* decided otherwise, whatever is decided on the other matches of the two.
Writes(r, at) == At(r, at) /\ request'[r] = Idle

SettledUnlessOverlapped ==
    /\ \A p \in Missing : missing[p].resolved =>
          /\ missing'[p].resolved
          /\ \/ missing[p].status \in Outcome => missing'[p].status \in Outcome
             \/ \E r \in Requests : Writes(r, "update") /\ request[r].who = p /\ ~request[r].seen
    /\ \A u \in Found : found[u].status \in Named =>
          \/ found'[u].status \in Named
          \/ \E r \in Requests : /\ Writes(r, "describe") /\ request[r].who = u
                                 /\ request[r].seen \notin Named
    /\ \A m \in DOMAIN matches : matches[m].status # "CANDIDATE" =>
          \/ matches'[m].status = matches[m].status
          \/ \E r \in Requests : /\ Writes(r, "review") /\ request[r].match = m
                                 /\ request[r].seen = "CANDIDATE"

\* "This case has been resolved. Reopening one is a separate act."
ResolvedStaysResolved ==
    \A p \in Missing : missing[p].resolved => missing[p].status \in Outcome

\* "That candidate has already been reviewed."
DecidedOnce ==
    [][\A m \in DOMAIN matches :
          matches[m].status # "CANDIDATE" => matches'[m].status = matches[m].status]_vars
=============================================================================
