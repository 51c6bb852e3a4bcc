-------------------------- MODULE ProfileSelector --------------------------
(***************************************************************************)
(* The conversation-profile lookups of recon's UserAgent                  *)
(* (src/resip/recon/UserAgent.cxx):                                        *)
(*                                                                         *)
(*   getIncomingConversationProfile      (376-433)                         *)
(*   getDefaultOutgoingConversationProfile (344-357)                       *)
(*   getConversationProfileByMediaAddress (359-374)                        *)
(*                                                                         *)
(* Each is a pure operator over a snapshot of the registries.  The loops   *)
(* of the code are RECURSIVE scans over the maps in key order, exactly as  *)
(* std::map iterates them.  A lookup returns a Result: the handle of the   *)
(* profile returned, a null shared_ptr, or a crash (resip_assert, or a     *)
(* dereference of a null profile inside the loop).                         *)
(*                                                                         *)
(* The module also has a small state machine: Init takes a registry        *)
(* snapshot and a request from bounded input sets, and one action per      *)
(* lookup records its result, so TLC checks the operators against the     *)
(* first-match reference over every bounded input.                         *)
(***************************************************************************)
EXTENDS Integers, Sequences, SequencesExt, FiniteSets, FiniteSetsExt

CONSTANTS
    Hosts,          \* what Uri::operator== compares: scheme, user, host, port
    Rinstances,     \* values of the rinstance uri parameter
    NoRinstance,    \* the parameter is absent
    Names,          \* address-of-record texts, compared without case
    MediaAddresses, \* session-capability origin addresses
    NullProfile,    \* a null shared_ptr stored in mConversationProfiles
    ProfileHandles, \* conversation-profile handles of the snapshot
    MaxContacts     \* contacts per registration

Uri == [host : Hosts, rinstance : Rinstances \cup {NoRinstance}]

\* An address of record with the letter case it was written in.
Aor == [name : Names, upper : BOOLEAN]

Profile == [defaultFrom : Aor, mediaAddress : MediaAddresses]

Request == [requestUri : Uri, to : Aor]

\* What a lookup returns.
Selected(h) == [kind |-> "profile", handle |-> h]
NullResult  == [kind |-> "null", handle |-> 0]
CrashResult == [kind |-> "crash", handle |-> 0]
NoMatch     == [kind |-> "nomatch", handle |-> 0]
\* A returned profile is an entry of the map it was looked up in.
Result(profiles) ==
    {Selected(h) : h \in DOMAIN profiles} \cup {NullResult, CrashResult}

(***************************************************************************)
(* resip::Uri::operator== (not in src/).  rinstance is not one of the      *)
(* parameters it compares, so only the rest of the uri counts.             *)
(***************************************************************************)
UriEqual(a, b) == a.host = b.host

\* isEqualNoCase on two AOR texts.
EqualNoCase(a, b) == a.name = b.name

\* Mutant: the contact condition without the rinstance clause.
ContactMatchesUriOnly(contact, requestUri) == UriEqual(contact, requestUri)

\* The condition on a registration contact (lines 391-393).
ContactMatches(contact, requestUri) ==
    /\ UriEqual(contact, requestUri)
    /\ \/ requestUri.rinstance = NoRinstance
       \/ /\ contact.rinstance # NoRinstance
          /\ requestUri.rinstance = contact.rinstance

\* The map's keys in std::map iteration order.
KeysInOrder(f) == SetToSortSeq(DOMAIN f, <)

\* The returned shared_ptr: a null entry yields a null pointer.
Returned(profiles, h) ==
    IF profiles[h] = NullProfile THEN NullResult ELSE Selected(h)

\* Every (registration handle, contact) pair in the order of the nested
\* loops of lines 385-389.
RegistrationContacts(registrations) ==
    LET hs == KeysInOrder(registrations)
    IN  FlattenSeq([i \in 1..Len(hs) |->
            [j \in DOMAIN registrations[hs[i]] |->
                [handle |-> hs[i], uri |-> registrations[hs[i]][j]]]])

\* Lines 385-410: the first matching contact whose profile is still in the
\* map; a match whose profile was destroyed is passed over.
RECURSIVE MatchRegistration(_, _, _)
MatchRegistration(pairs, profiles, requestUri) ==
    IF pairs = <<>> THEN NoMatch
    ELSE IF /\ ContactMatches(Head(pairs).uri, requestUri)
            /\ Head(pairs).handle \in DOMAIN profiles
         THEN Returned(profiles, Head(pairs).handle)
         ELSE MatchRegistration(Tail(pairs), profiles, requestUri)

\* Lines 413-426: the first profile whose default-from AOR equals the To
\* AOR; the loop dereferences every entry it reaches, null ones included.
RECURSIVE MatchToAor(_, _, _)
MatchToAor(hs, profiles, toAor) ==
    IF hs = <<>> THEN NoMatch
    ELSE IF profiles[Head(hs)] = NullProfile THEN CrashResult
    ELSE IF EqualNoCase(toAor, profiles[Head(hs)].defaultFrom)
         THEN Selected(Head(hs))
         ELSE MatchToAor(Tail(hs), profiles, toAor)

\* Mutant: the default returned as it is, without consulting the map.
GetDefaultOutgoingConversationProfileUnchecked(profiles, default) ==
    IF default # 0 THEN Selected(default) ELSE CrashResult

\* Lines 344-357.  operator[] on a missing key returns (and inserts) a null
\* entry; a zero default hits resip_assert(false).
GetDefaultOutgoingConversationProfile(profiles, default) ==
    IF default # 0
    THEN IF default \in DOMAIN profiles THEN Returned(profiles, default)
                                         ELSE NullResult
    ELSE CrashResult

\* Lines 376-433: registration contacts, then the To AOR, then the default.
GetIncomingConversationProfile(registrations, profiles, default, request) ==
    LET byContact == MatchRegistration(RegistrationContacts(registrations),
                                       profiles, request.requestUri)
        byAor     == MatchToAor(KeysInOrder(profiles), profiles, request.to)
    IN  IF byContact # NoMatch THEN byContact
        ELSE IF byAor # NoMatch THEN byAor
        ELSE GetDefaultOutgoingConversationProfile(profiles, default)

\* Lines 359-374: the first profile whose media origin address is the
\* given one, or null.
RECURSIVE MatchMediaAddress(_, _, _)
MatchMediaAddress(hs, profiles, address) ==
    IF hs = <<>> THEN NullResult
    ELSE IF profiles[Head(hs)] = NullProfile THEN CrashResult
    ELSE IF profiles[Head(hs)].mediaAddress = address THEN Selected(Head(hs))
    ELSE MatchMediaAddress(Tail(hs), profiles, address)

\* Mutant: the profile map scanned from its end (rbegin).
GetConversationProfileByMediaAddressReversed(profiles, address) ==
    MatchMediaAddress(Reverse(KeysInOrder(profiles)), profiles, address)

GetConversationProfileByMediaAddress(profiles, address) ==
    MatchMediaAddress(KeysInOrder(profiles), profiles, address)

-----------------------------------------------------------------------------
(***************************************************************************)
(* Bounded inputs and the state machine that checks the lookups.  The     *)
(* snapshots are the ones UserAgent can hold: a registration may outlive   *)
(* its profile (it is still ending), the default may be stale, and a null  *)
(* entry may sit in the profile map after a lookup of a stale default.     *)
(* The default is 0 exactly when the profile map is empty.                 *)
(***************************************************************************)
CONSTANTS
    ContactUris,    \* uris a registration contact may have
    ProfileValues,  \* profiles the snapshot may hold
    ToAors          \* To AORs a request may carry

ContactLists == UNION {[1..n -> ContactUris] : n \in 0..MaxContacts}

RegistrationSnapshots ==
    UNION {[D -> ContactLists] : D \in SUBSET ProfileHandles}

ProfileSnapshots ==
    UNION {[D -> ProfileValues \cup {NullProfile}] : D \in SUBSET ProfileHandles}

VARIABLES registrations, profiles, default, request, incoming, byMedia

vars == <<registrations, profiles, default, request, incoming, byMedia>>

Init ==
    /\ registrations \in RegistrationSnapshots
    /\ profiles \in ProfileSnapshots
    /\ default \in {0} \cup ProfileHandles
    /\ (default = 0) <=> (DOMAIN profiles = {})
    /\ request \in [requestUri : Uri, to : ToAors]
    /\ incoming = NoMatch
    /\ byMedia = [a \in MediaAddresses |-> NoMatch]

\* An incoming request is matched to a profile.
SelectIncoming ==
    /\ incoming = NoMatch
    /\ incoming' = GetIncomingConversationProfile(registrations, profiles,
                                                  default, request)
    /\ UNCHANGED <<registrations, profiles, default, request, byMedia>>

\* A profile is looked up by its media address.
SelectByMediaAddress(a) ==
    /\ byMedia[a] = NoMatch
    /\ byMedia' = [byMedia EXCEPT ![a] =
                     GetConversationProfileByMediaAddress(profiles, a)]
    /\ UNCHANGED <<registrations, profiles, default, request, incoming>>

Next ==
    \/ SelectIncoming
    \/ \E a \in MediaAddresses : SelectByMediaAddress(a)

Spec == Init /\ [][Next]_vars

-----------------------------------------------------------------------------
(***************************************************************************)
(* Properties.                                                             *)
(***************************************************************************)

\* Every variable holds a value of its type; a returned profile is one of
\* the snapshot's map entries, whichever branch of the lookups returned it.
TypeOK ==
    /\ registrations \in RegistrationSnapshots
    /\ profiles \in ProfileSnapshots
    /\ default \in {0} \cup ProfileHandles
    /\ request \in Request
    /\ incoming \in Result(profiles) \cup {NoMatch}
    /\ byMedia \in [MediaAddresses -> Result(profiles) \cup {NoMatch}]

\* The snapshot holds no null entry and its default names a live profile:
\* the registries as the handlers intend them.
Consistent ==
    /\ NullProfile \notin {profiles[h] : h \in DOMAIN profiles}
    /\ default # 0 => default \in DOMAIN profiles

\* Lexicographically least of a set of <<handle, index>> pairs.
FirstPair(S) == CHOOSE p \in S : \A q \in S :
                    p[1] < q[1] \/ (p[1] = q[1] /\ p[2] <= q[2])

(***************************************************************************)
(* The selection rule of section 4.3 of the spec, stated over sets:        *)
(* the profile of the first registration, in handle order, that has a     *)
(* contact matching the request uri under the rinstance rule and whose     *)
(* profile exists; else the first profile by handle whose default-from     *)
(* AOR equals the To AOR ignoring case; else the default-outgoing          *)
(* profile; with no profile at all, no profile can be returned.            *)
(***************************************************************************)
SelectionRule(req) ==
    LET contactHits ==
            {<<h, i>> \in (DOMAIN registrations) \X (1..MaxContacts) :
                /\ i \in DOMAIN registrations[h]
                /\ h \in DOMAIN profiles
                /\ registrations[h][i].host = req.requestUri.host
                /\ req.requestUri.rinstance \in
                       {NoRinstance, registrations[h][i].rinstance}}
        aorHits ==
            {h \in DOMAIN profiles : profiles[h].defaultFrom.name = req.to.name}
    IN  IF contactHits # {} THEN {Selected(FirstPair(contactHits)[1])}
        ELSE IF aorHits # {} THEN {Selected(Min(aorHits))}
        ELSE IF DOMAIN profiles = {} THEN {NullResult, CrashResult}
        ELSE {Selected(default)}

\* On a consistent snapshot, getIncomingConversationProfile returns the
\* profile the first-match rule selects: registration contacts (with the
\* rinstance condition and destroyed profiles passed over), then the To
\* AOR, then the default, each in handle order.
IncomingFollowsSelectionRule ==
    Consistent /\ incoming # NoMatch => incoming \in SelectionRule(request)

\* getConversationProfileByMediaAddress returns the lowest-handle profile
\* with that media address, and null when none has it, on a snapshot
\* without null entries.
MediaLookupFindsFirst ==
    \A a \in MediaAddresses :
        Consistent /\ byMedia[a] # NoMatch =>
            LET hits == {h \in DOMAIN profiles : profiles[h].mediaAddress = a}
            IN  byMedia[a] = IF hits = {} THEN NullResult
                                          ELSE Selected(Min(hits))
=============================================================================
