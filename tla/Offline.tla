------------------------------ MODULE Offline ------------------------------
(***************************************************************************)
(* What one device keeps for when there is no signal.  The platform's side *)
(* is devices.service.ts and offline.service.ts, with the trigger of       *)
(* migration 0015; the device's is the store of the portal kit and the     *)
(* crew's offline controls.  Tabs share the browser's store, and each of   *)
(* its operations is a transaction of its own.                             *)
(***************************************************************************)
EXTENDS Naturals, Sequences, FiniteSets

CONSTANTS Tabs, Incidents, People,
          NoPack,
          MaxReleases,  \* bound: rows of offline_release
          MaxKeys       \* bound: keys the browser generates

VARIABLES
    device,    \* the registered device: none, live or revoked
    releases,  \* offline_release, in order
    attached,  \* incident_person
    open,      \* the incidents that are live and that the crew is attached to
    carried,   \* OFFLINE_ACCESS rows: who was recorded as carried, for which incident
    token,     \* the device token in the store
    key,       \* which key the store holds, 0 for none
    keys,      \* how many were generated
    packs,     \* bundles: for each incident, the sealed pack or NoPack
    tab,       \* what each tab, and the request it waits for, remembers
    late       \* whether a question asked after the revocation was answered yes

platform == <<device, releases, attached, open, carried>>
store == <<token, key, keys, packs>>
vars == <<device, releases, attached, open, carried, token, key, keys, packs, tab, late>>

Pack == [release : 1..MaxReleases, key : 1..MaxKeys, expired : BOOLEAN]
Release == [incident : Incidents, people : SUBSET People, valid : BOOLEAN]
Idle == [at |-> "idle"]

\* What a tab remembers between two statements, by what it is at.
Steps ==
    {Idle}
    \cup [at : {"register", "told", "authorise", "people", "drop"}, incident : Incidents]
    \cup [at : {"profiles"}, incident : Incidents, people : SUBSET People, left : SUBSET People]
    \cup [at : {"keep", "make", "ask"}, incident : Incidents, release : 1..MaxReleases]
    \cup [at : {"seal"}, incident : Incidents, release : 1..MaxReleases, key : 1..MaxKeys]
    \cup [at : {"answer"}, incident : Incidents, release : 1..MaxReleases,
           since : {"live", "revoked"}]
    \cup [at : {"erase"}, device : {"none", "live", "revoked"}]

TypeOK ==
    /\ device \in {"none", "live", "revoked"}
    /\ releases \in Seq(Release) /\ Len(releases) <= MaxReleases
    /\ attached \in [Incidents -> SUBSET People]
    /\ open \in SUBSET Incidents
    /\ carried \in SUBSET (Incidents \X People)
    /\ token \in BOOLEAN /\ key \in 0..MaxKeys /\ keys \in 0..MaxKeys
    /\ packs \in [Incidents -> Pack \cup {NoPack}]
    /\ tab \in [Tabs -> Steps]
    /\ late \in BOOLEAN

Init ==
    /\ device = "none" /\ releases = <<>>
    /\ attached \in [Incidents -> SUBSET People]
    /\ open = Incidents
    /\ carried = {}
    /\ token = FALSE /\ key = 0 /\ keys = 0
    /\ packs = [i \in Incidents |-> NoPack]
    /\ tab = [t \in Tabs |-> Idle]
    /\ late = FALSE

At(t, at) == tab[t].at = at
Goes(t, step) == tab' = [tab EXCEPT ![t] = step]
On(at, i) == [at |-> at, incident |-> i]

-----------------------------------------------------------------------------
(***************************************************************************)
(* "Keep for offline": the token, or a registration that yields one.       *)
(***************************************************************************)
Take(t, i) ==
    /\ At(t, "idle")
    /\ Goes(t, On(IF token THEN "authorise" ELSE "register", i))
    /\ UNCHANGED <<platform, store, late>>

\* A browser that has lost its token registers itself again, as another device: the
\* model keeps the one, and lets it be registered once.
Register(t) ==
    /\ At(t, "register") /\ device # "revoked"
    /\ device' = "live"
    /\ Goes(t, On("told", tab[t].incident))
    /\ UNCHANGED <<releases, attached, open, carried, store, late>>

WriteToken(t) ==
    /\ At(t, "told")
    /\ token' = TRUE
    /\ Goes(t, On("authorise", tab[t].incident))
    /\ UNCHANGED <<platform, key, keys, packs, late>>

\* requireLiveDevice()
LiveDevice == device = "live"

\* incidentProfiles(): device, incident, and then who is attached to it.
Authorise(t) ==
    /\ At(t, "authorise")
    /\ LiveDevice /\ tab[t].incident \in open
    /\ Goes(t, On("people", tab[t].incident))
    /\ UNCHANGED <<platform, store, late>>

ReadPeople(t) ==
    /\ At(t, "people")
    /\ LET i == tab[t].incident IN
       Goes(t, [at |-> "profiles", incident |-> i, people |-> attached[i], left |-> attached[i]])
    /\ UNCHANGED <<platform, store, late>>

\* Each person's profile is authorised again, and each has a row of their own.
\* Mutation of Recorded: the incident's row is taken to be enough.
RecordedOnIncident(i, p) == {}

Recorded(i, p) == {<<i, p>>}

ReadProfile(t) ==
    /\ At(t, "profiles") /\ tab[t].incident \in open
    /\ \E p \in tab[t].left :
          /\ carried' = carried \cup Recorded(tab[t].incident, p)
          /\ tab' = [tab EXCEPT ![t].left = @ \ {p}]
    /\ UNCHANGED <<device, releases, attached, open, store, late>>

\* release(): the row is written whatever has become of the device, and valid.
InsertRelease(t) ==
    /\ At(t, "profiles") /\ tab[t].left = {}
    /\ Len(releases) < MaxReleases
    /\ releases' = Append(releases, [incident |-> tab[t].incident, people |-> tab[t].people,
                                     valid |-> TRUE])
    /\ Goes(t, [at |-> "keep", incident |-> tab[t].incident, release |-> Len(releases) + 1])
    /\ UNCHANGED <<device, attached, open, carried, store, late>>

\* A 403 or a 404 makes the page erase all that the device holds.
Refused(t) ==
    /\ \/ At(t, "authorise") /\ ~(LiveDevice /\ tab[t].incident \in open)
       \/ At(t, "profiles") /\ tab[t].left # {} /\ tab[t].incident \notin open
    /\ Goes(t, [at |-> "erase", device |-> device])
    /\ UNCHANGED <<platform, store, late>>

EraseEverything(t) ==
    /\ At(t, "erase")
    /\ token' = FALSE /\ key' = 0
    /\ packs' = [i \in Incidents |-> NoPack]
    /\ Goes(t, Idle)
    /\ UNCHANGED <<platform, keys, late>>

(***************************************************************************)
(* keep(): deviceKey() reads the key in one transaction and puts the one   *)
(* it generated in another; the pack is sealed between two more.           *)
(***************************************************************************)
SealedWith(t, k) == [at |-> "seal", incident |-> tab[t].incident, release |-> tab[t].release, key |-> k]

ReadKey(t) ==
    /\ At(t, "keep")
    /\ IF key # 0 THEN Goes(t, SealedWith(t, key)) ELSE Goes(t, [tab[t] EXCEPT !.at = "make"])
    /\ UNCHANGED <<platform, store, late>>

MakeKey(t) ==
    /\ At(t, "make") /\ keys < MaxKeys
    /\ keys' = keys + 1 /\ key' = keys + 1
    /\ Goes(t, SealedWith(t, keys + 1))
    /\ UNCHANGED <<platform, token, packs, late>>

Keep(t) ==
    /\ At(t, "seal")
    /\ packs' = [packs EXCEPT ![tab[t].incident] =
                    [release |-> tab[t].release, key |-> tab[t].key, expired |-> FALSE]]
    /\ Goes(t, Idle)
    /\ UNCHANGED <<platform, token, key, keys, late>>

(***************************************************************************)
(* A page that opens a pack: held() erases one that has expired or that    *)
(* the key does not open, and the platform is asked whether it stands.     *)
(***************************************************************************)
Open(t, i) ==
    /\ At(t, "idle") /\ packs[i] # NoPack /\ (key = 0 => keys < MaxKeys)
    /\ IF packs[i].expired \/ packs[i].key # key THEN Goes(t, On("drop", i))
       ELSE IF token THEN Goes(t, [at |-> "ask", incident |-> i, release |-> packs[i].release])
       ELSE Goes(t, Idle)          \* without a token it is shown, and nobody is asked
    /\ IF key = 0 /\ ~packs[i].expired      \* deviceKey() makes one to open it with
       THEN key' = keys + 1 /\ keys' = keys + 1 ELSE UNCHANGED <<key, keys>>
    /\ UNCHANGED <<platform, token, packs, late>>

\* releaseStanding(): the device, and then the row.  "Anything other than a clear yes
\* is a no": a refusal, and no answer at all, drop the pack too.
Ask(t) ==
    /\ At(t, "ask")
    /\ \/ LiveDevice /\ Goes(t, [at |-> "answer", incident |-> tab[t].incident,
                                 release |-> tab[t].release, since |-> device])
       \/ Goes(t, On("drop", tab[t].incident))
    /\ UNCHANGED <<platform, store, late>>

Answer(t) ==
    /\ At(t, "answer")
    /\ LET valid == releases[tab[t].release].valid IN
       /\ late' = (late \/ (valid /\ tab[t].since = "revoked"))
       /\ IF valid THEN Goes(t, Idle) ELSE Goes(t, On("drop", tab[t].incident))
    /\ UNCHANGED <<platform, store>>

Drop(t) ==
    /\ At(t, "drop")
    /\ packs' = [packs EXCEPT ![tab[t].incident] = NoPack]
    /\ Goes(t, Idle)
    /\ UNCHANGED <<platform, token, key, keys, late>>

\* The tab is closed, or the signal lost, between any two of these.
Leave(t) ==
    /\ tab[t] # Idle
    /\ Goes(t, Idle)
    /\ UNCHANGED <<platform, store, late>>

-----------------------------------------------------------------------------
\* revoke(), with the trigger: the releases there are end in the same statement.
RevokeDevice ==
    /\ device = "live"
    /\ device' = "revoked"
    /\ releases' = [r \in DOMAIN releases |-> [releases[r] EXCEPT !.valid = FALSE]]
    /\ UNCHANGED <<attached, open, carried, store, tab, late>>

Expire(i) ==
    /\ packs[i] # NoPack /\ ~packs[i].expired
    /\ packs' = [packs EXCEPT ![i].expired = TRUE]
    /\ UNCHANGED <<platform, token, key, keys, tab, late>>

\* The incident closes, or the crew is detached from it.
Stand(i) ==
    /\ i \in open
    /\ open' = open \ {i}
    /\ UNCHANGED <<device, releases, attached, carried, store, tab, late>>

Next ==
    \/ \E t \in Tabs :
          \/ \E i \in Incidents : Take(t, i) \/ Open(t, i)
          \/ Register(t) \/ WriteToken(t) \/ Authorise(t) \/ ReadPeople(t) \/ ReadProfile(t)
          \/ InsertRelease(t) \/ Refused(t) \/ EraseEverything(t)
          \/ ReadKey(t) \/ MakeKey(t) \/ Keep(t) \/ Ask(t) \/ Answer(t) \/ Drop(t) \/ Leave(t)
    \/ RevokeDevice
    \/ \E i \in Incidents : Expire(i) \/ Stand(i)

Spec == Init /\ [][Next]_vars

-----------------------------------------------------------------------------
\* A device that was signed out is never told that it may keep a pack, although the
\* pack's row may have been written, valid, after the rows there were had been ended.
NoYesAfterRevocation == ~late

\* Nobody is carried away on a device without a row that says so against their name,
\* wherever the request stops, and whoever joins the incident meanwhile.
CarriedIsOnRecord ==
    \A r \in DOMAIN releases : \A p \in releases[r].people : <<releases[r].incident, p>> \in carried

\* "Set when the platform says this device may hold nothing further."
ErasedOnlyWhenSignedOut == \A t \in Tabs : At(t, "erase") => tab[t].device # "live"
=============================================================================
