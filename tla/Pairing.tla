------------------------------ MODULE Pairing ------------------------------
(* How two groups of devices become one.  A device shows an invitation, the *)
(* other scans it and asks to join, both users review the devices that are  *)
(* about to share their secrets, the joining side signs its consent and the *)
(* inviting side issues the certificate of the combined group.  Every       *)
(* device keeps the pairing state in its vault (the worker) and the newest  *)
(* certificate it has seen in a file next to it (the pin); a manager moves  *)
(* certificates between the two, one action or background pass at a time,   *)
(* and may be interrupted between any two of its steps.                     *)
EXTENDS Naturals, FiniteSets, Sequences

CONSTANTS
  Peers,            \* the devices
  MaxCertificates,  \* bound on certificates issued
  MaxInvitations,   \* bound on invitations issued
  MaxRequests       \* bound on pairing requests

VARIABLES
  certificates,      \* the certificates issued; a digest is a position in this sequence
  invitations,       \* the invitations issued
  requests,       \* the requests issued
  pairings,      \* PairingState of every device
  pins,        \* membership.json of every device
  jobs,        \* what every manager is doing while it holds the gate
  screens,      \* the pairing state every device's screen shows
  reviewed,   \* <<device, request, devices listed>> of every approving click
  withdrawn   \* requests whose device cancelled them

pvars == <<certificates, invitations, requests, pairings, pins, jobs, screens, reviewed, withdrawn>>

Unset == 0

Idle == [at |-> "idle", group |-> Unset, inv |-> Unset, then |-> "idle"]

NoState == [group |-> Unset, introduction |-> Unset, inv |-> Unset, staged |-> Unset,
            consented |-> FALSE, joining |-> Unset, agreed |-> FALSE, approved |-> Unset]

EmptyScreen == [current |-> Unset, request |-> Unset, consent |-> FALSE, joining |-> FALSE]

-----------------------------------------------------------------------------
(* Certificates.                                                           *)

Members(g) == certificates[g].members

\* VerifiedGroup::accept_extension: new is g or has g among its ancestors.
Extends(new, g) == g \in certificates[new].ancestors

\* create_group.
Founded(d) == [root |-> Len(certificates) + 1, ancestors |-> {Len(certificates) + 1},
               members |-> {d}, enrollments |-> {}]

\* merge::union refuses two heads of one group and groups that share a reader.
Disjoint(target, source) ==
  certificates[target].root # certificates[source].root /\ Members(target) \cap Members(source) = {}

\* merge_group, certified by a member of the target.
Merged(target, source, r) ==
  [root |-> certificates[target].root,
   ancestors |-> certificates[target].ancestors \cup certificates[source].ancestors \cup {Len(certificates) + 1},
   members |-> Members(target) \cup Members(source),
   enrollments |-> certificates[target].enrollments \cup certificates[source].enrollments \cup {r}]

Current(d) == IF pairings[d].group # Unset THEN pairings[d].group ELSE pairings[d].introduction

\* PairingInvitation::check.
Valid(k, group) == k # Unset /\ ~invitations[k].expired /\ invitations[k].group = group

Target(r) == invitations[requests[r].inv].group

-----------------------------------------------------------------------------
(* The screen.                                                             *)

\* PairingStatus, and the group it is shown with.
Status(d) ==
  [current |-> Current(d),
   request |-> IF pairings[d].joining # Unset THEN pairings[d].joining ELSE pairings[d].staged,
   consent |-> IF pairings[d].joining # Unset THEN pairings[d].agreed ELSE pairings[d].consented,
   joining |-> pairings[d].joining # Unset]

\* The screen polls the manager, whose view is a little older than the vault;
\* a sealed vault shows nothing.
Look(d) ==
  /\ screens' \in {[screens EXCEPT ![d] = Status(d)], [screens EXCEPT ![d] = EmptyScreen]}
  /\ UNCHANGED <<certificates, invitations, requests, pairings, pins, jobs, reviewed, withdrawn>>

\* The devices the review lists.
Listed(d) ==
  LET r == screens[d].request
      target == IF screens[d].joining THEN Target(r) ELSE screens[d].current
  IN Members(target) \cup Members(requests[r].origin)

Free(d) == jobs[d] = Idle

\* Codes are offered and scanned only while there is nothing to review.
MayStart(d) == Free(d) /\ screens[d].request = Unset

MayApprove(d) == Free(d) /\ screens[d].request # Unset

-----------------------------------------------------------------------------
(* The worker's commands, and the actions of the user that reach them.     *)

Goes(d, at) == jobs' = [jobs EXCEPT ![d] = [Idle EXCEPT !.at = at]]

\* Offer: a device that is in no group introduces itself as a group of one.
Offered(d) ==
  /\ Len(invitations) < MaxInvitations
  /\ LET alone == Current(d) = Unset
         group == IF alone THEN Len(certificates) + 1 ELSE Current(d)
     IN /\ alone => Len(certificates) < MaxCertificates
        /\ certificates' = IF alone THEN Append(certificates, Founded(d)) ELSE certificates
        /\ invitations' = Append(invitations, [by |-> d, group |-> group, expired |-> FALSE])
        /\ pairings' = [pairings EXCEPT ![d].introduction = IF alone THEN group ELSE @,
                                  ![d].inv = Len(invitations) + 1,
                                  ![d].staged = Unset, ![d].consented = FALSE]

Invite(d) ==
  /\ MayStart(d)
  /\ Offered(d)
  /\ Goes(d, "local")
  /\ UNCHANGED <<requests, pins, screens, reviewed, withdrawn>>

\* The inviting manager answers with its group when the asking endpoint is in
\* it already or presents the current invitation.
Served(e, d, k) ==
  LET group == IF pins[e] # Unset THEN pins[e] ELSE pairings[e].introduction
  IN /\ group # Unset
     /\ d \in Members(group) \/ (pairings[e].inv = k /\ Valid(k, group))

Scan(d, k) ==
  LET e == invitations[k].by
  IN /\ MayStart(d)
     /\ e # d
     /\ Served(e, d, k)
     /\ jobs' = [jobs EXCEPT ![d] = [at |-> "join", inv |-> k, then |-> "idle",
                                   group |-> IF pins[e] # Unset THEN pins[e]
                                             ELSE pairings[e].introduction]]
     /\ UNCHANGED <<certificates, invitations, requests, pairings, pins, screens, reviewed, withdrawn>>

\* Command::Join introduces the device first when it is in no group.
Introduced(d) ==
  Len(certificates) < MaxCertificates /\ certificates' = Append(certificates, Founded(d))

\* A variant that signs a new request for every code that is scanned.
AlwaysFresh(d) == TRUE

\* A device asks once; the same request is sent again until it is answered.
MayAsk(d) == pairings[d].joining = Unset

Join(d) ==
  LET k == jobs[d].inv
      group == jobs[d].group
      source == IF Current(d) = Unset THEN Len(certificates) + 1 ELSE Current(d)
  IN /\ jobs[d].at = "join"
     /\ Valid(k, group)
     /\ MayAsk(d)
     /\ Len(requests) < MaxRequests
     /\ IF Current(d) = Unset THEN Introduced(d)
        ELSE ~Extends(group, Current(d)) /\ ~Extends(Current(d), group) /\ UNCHANGED certificates
     /\ requests' = Append(requests, [from |-> d, inv |-> k, origin |-> source])
     /\ pairings' = [pairings EXCEPT
          ![d].introduction = IF pairings[d].group = Unset THEN source ELSE @,
          ![d].inv = Unset, ![d].staged = Unset, ![d].consented = FALSE,
          ![d].joining = Len(requests) + 1, ![d].agreed = FALSE]
     /\ Goes(d, "local")
     /\ UNCHANGED <<invitations, pins, screens, reviewed, withdrawn>>

Rejoin(d) ==
  /\ jobs[d].at = "join" /\ pairings[d].joining # Unset
  /\ requests[pairings[d].joining].inv = jobs[d].inv /\ Valid(jobs[d].inv, jobs[d].group)
  /\ Goes(d, "local")
  /\ UNCHANGED <<certificates, invitations, requests, pairings, pins, screens, reviewed, withdrawn>>

\* An invitation that is no longer valid leaves the introduction behind.
JoinFails(d) ==
  /\ jobs[d].at = "join" /\ ~Valid(jobs[d].inv, jobs[d].group)
  /\ IF Current(d) = Unset THEN Offered(d) ELSE UNCHANGED <<certificates, invitations, pairings>>
  /\ Goes(d, "idle")
  /\ UNCHANGED <<requests, pins, screens, reviewed, withdrawn>>

-----------------------------------------------------------------------------
(* The two approvals.                                                      *)

Clicked(d) == reviewed' = reviewed \cup {<<d, screens[d].request, Listed(d)>>}

\* ApproveJoin: consent is signed for the two exact heads under review.
ApproveJoin(d) ==
  LET r == screens[d].request
  IN /\ MayApprove(d) /\ screens[d].joining /\ ~screens[d].consent
     /\ pairings[d].joining = r
     /\ Valid(requests[r].inv, Target(r))
     /\ requests[r].origin = Current(d)
     /\ Disjoint(Target(r), requests[r].origin)
     /\ pairings' = [pairings EXCEPT ![d].agreed = TRUE]
     /\ Clicked(d)
     /\ Goes(d, "local")
     /\ UNCHANGED <<certificates, invitations, requests, pins, screens, withdrawn>>

\* PairingRequest::verify, and merge_approval.
Verified(d, r) == requests[r].inv = pairings[d].inv /\ Valid(pairings[d].inv, Current(d))

Consented(d, r) == pairings[d].consented /\ Disjoint(Current(d), requests[r].origin)

Approve(d) ==
  LET r == screens[d].request
      new == Len(certificates) + 1
  IN /\ MayApprove(d) /\ ~screens[d].joining /\ screens[d].consent
     /\ pairings[d].approved # r /\ pairings[d].staged = r
     /\ Verified(d, r)
     /\ Consented(d, r)
     /\ new <= MaxCertificates
     /\ certificates' = Append(certificates, Merged(Current(d), requests[r].origin, r))
     /\ pairings' = [pairings EXCEPT ![d].group = new, ![d].introduction = Unset,
                               ![d].inv = Unset, ![d].staged = Unset,
                               ![d].consented = FALSE, ![d].approved = r]
     /\ Clicked(d)
     /\ jobs' = [jobs EXCEPT ![d] = [Idle EXCEPT !.at = "install", !.group = new,
                                               !.then = "local"]]
     /\ UNCHANGED <<invitations, requests, pins, screens, withdrawn>>

\* A second click finds the request approved.
ApproveAgain(d) ==
  /\ MayApprove(d) /\ ~screens[d].joining /\ screens[d].consent
  /\ pairings[d].approved = screens[d].request
  /\ jobs' = [jobs EXCEPT ![d] = [Idle EXCEPT !.at = "install", !.group = Current(d),
                                            !.then = "local"]]
  /\ UNCHANGED <<certificates, invitations, requests, pairings, pins, screens, reviewed, withdrawn>>

\* The screen has no Cancel once the consent it shows is given.
Cancel(d) ==
  /\ Free(d) /\ ~(screens[d].joining /\ screens[d].consent)
  /\ pairings[d].inv # Unset \/ pairings[d].joining # Unset
  /\ pairings' = [pairings EXCEPT ![d] = [@ EXCEPT !.inv = Unset, !.staged = Unset,
                                             !.consented = FALSE, !.joining = Unset,
                                             !.agreed = FALSE, !.introduction = Unset]]
  /\ withdrawn' = withdrawn \cup {pairings[d].joining}
  /\ Goes(d, "local")
  /\ UNCHANGED <<certificates, invitations, requests, pins, screens, reviewed>>

-----------------------------------------------------------------------------
(* The manager.                                                            *)

\* poll.  A pass over a vault that asks for nothing and agrees with its pin
\* changes nothing here.
StartPass(d) ==
  /\ Free(d)
  /\ pairings[d].joining # Unset \/ pairings[d].group # pins[d]
  /\ Goes(d, "local")
  /\ UNCHANGED <<certificates, invitations, requests, pairings, pins, screens, reviewed, withdrawn>>

\* Accept, for a device that is in a group or has introduced itself.
Accepted(d, group) ==
  /\ Current(d) # Unset /\ Extends(group, Current(d)) /\ d \in Members(group)
  /\ pairings' = IF group = Current(d) THEN pairings
              ELSE [pairings EXCEPT ![d] = [@ EXCEPT !.group = group, !.introduction = Unset,
                                          !.joining = Unset, !.agreed = FALSE,
                                          !.inv = Unset, !.staged = Unset,
                                          !.consented = FALSE]]

\* Inner::install: the pin moves forward only.
Installs(d, group) ==
  /\ d \in Members(group)
  /\ pins[d] # Unset => Extends(group, pins[d])
  /\ pins' = [pins EXCEPT ![d] = group]

PinIsAhead(d) == pins[d] # Unset /\ Extends(pins[d], pairings[d].group)

\* local: vault and pin are brought together, whichever is ahead.
Reconcile(d) ==
  /\ jobs[d].at = "local"
  /\ LET g == pairings[d].group
     IN \/ g = Unset /\ UNCHANGED <<pairings, pins>>
        \/ g # Unset /\ PinIsAhead(d) /\ Accepted(d, pins[d]) /\ UNCHANGED pins
        \/ g # Unset /\ ~PinIsAhead(d) /\ Installs(d, g) /\ UNCHANGED pairings
  /\ jobs' = [jobs EXCEPT ![d] = IF pairings[d].joining # Unset THEN [Idle EXCEPT !.at = "ask"]
                                                         ELSE Idle]
  /\ UNCHANGED <<certificates, invitations, requests, screens, reviewed, withdrawn>>

Enrolled(d, e, r) ==
  pins[e] # Unset /\ r \in certificates[pins[e]].enrollments /\ d \in Members(pins[e])

\* local of a joining device: the request is sent to the inviting manager,
\* which stages it, or answers with the group once it is approved.
Ask(d) ==
  LET r == pairings[d].joining
      e == invitations[requests[r].inv].by
  IN /\ jobs[d].at = "ask" /\ r # Unset
     /\ ~Enrolled(d, e, r)
     /\ Current(e) # Unset /\ Verified(e, r)
     /\ d \notin Members(Current(e))
     /\ pairings[e].staged \in {Unset, r}
     /\ pairings' = [pairings EXCEPT ![e].staged = r, ![e].consented = pairings[d].agreed]
     /\ Goes(d, "idle")
     /\ UNCHANGED <<certificates, invitations, requests, pins, screens, reviewed, withdrawn>>

Answered(d) ==
  LET r == pairings[d].joining
      e == invitations[requests[r].inv].by
  IN /\ jobs[d].at = "ask" /\ r # Unset
     /\ Enrolled(d, e, r)
     /\ jobs' = [jobs EXCEPT ![d] = [Idle EXCEPT !.at = "accept", !.group = pins[e]]]
     /\ UNCHANGED <<certificates, invitations, requests, pairings, pins, screens, reviewed, withdrawn>>

Accept(d) ==
  /\ jobs[d].at = "accept"
  /\ Accepted(d, jobs[d].group)
  /\ jobs' = [jobs EXCEPT ![d].at = "install"]
  /\ UNCHANGED <<certificates, invitations, requests, pins, screens, reviewed, withdrawn>>

Install(d) ==
  /\ jobs[d].at = "install"
  /\ Installs(d, jobs[d].group)
  /\ Goes(d, jobs[d].then)
  /\ UNCHANGED <<certificates, invitations, requests, pairings, screens, reviewed, withdrawn>>

\* A call that fails, a vault that is sealed, a reply that is lost or a
\* process that ends leaves what was done so far.
Fail(d) ==
  /\ ~Free(d)
  /\ Goes(d, "idle")
  /\ UNCHANGED <<certificates, invitations, requests, pairings, pins, screens, reviewed, withdrawn>>

\* exchange and serve_pair: two pins of one group meet, without the vaults.
\* The reply may be lost.
Exchange(d, e) ==
  /\ d # e /\ pins[d] # Unset /\ e \in Members(pins[d]) /\ pins[e] # Unset
  /\ Extends(pins[d], pins[e]) \/ Extends(pins[e], pins[d])
  /\ LET newer == IF Extends(pins[d], pins[e]) THEN pins[d] ELSE pins[e]
     IN /\ d \in Members(newer)
        /\ pins' \in {[pins EXCEPT ![e] = newer], [pins EXCEPT ![e] = newer, ![d] = newer]}
  /\ UNCHANGED <<certificates, invitations, requests, pairings, jobs, screens, reviewed, withdrawn>>

\* Five minutes pass.
Expire(k) ==
  /\ ~invitations[k].expired
  /\ invitations' = [invitations EXCEPT ![k].expired = TRUE]
  /\ UNCHANGED <<certificates, requests, pairings, pins, jobs, screens, reviewed, withdrawn>>

-----------------------------------------------------------------------------
\* The devices of old are one group already.
PairingInit(old) ==
  /\ certificates = IF old = {} THEN <<>>
                    ELSE <<[root |-> 1, ancestors |-> {1}, members |-> old,
                            enrollments |-> {}]>>
  /\ invitations = <<>> /\ requests = <<>>
  /\ pins = [d \in Peers |-> IF d \in old THEN 1 ELSE Unset]
  /\ pairings = [d \in Peers |-> [NoState EXCEPT !.group = pins[d]]]
  /\ jobs = [d \in Peers |-> Idle]
  /\ screens = [d \in Peers |-> EmptyScreen]
  /\ reviewed = {} /\ withdrawn = {}

Reviews(d) == ApproveJoin(d) \/ Approve(d) \/ ApproveAgain(d) \/ Look(d)

Scans(d) == \E k \in DOMAIN invitations : Scan(d, k)

Expires == \E k \in DOMAIN invitations : Expire(k)

Manages(d) ==
  \/ StartPass(d) \/ Join(d) \/ Rejoin(d) \/ JoinFails(d) \/ Reconcile(d) \/ Ask(d)
  \/ Answered(d) \/ Accept(d) \/ Install(d) \/ Fail(d)
  \/ \E e \in Peers : Exchange(d, e)

PairingTypeOK ==
  /\ \A d \in Peers :
       /\ pins[d] \in {Unset} \cup DOMAIN certificates
       /\ pairings[d].inv \in {Unset} \cup DOMAIN invitations
       /\ pairings[d].joining \in {Unset} \cup DOMAIN requests
       /\ pairings[d].staged \in {Unset} \cup DOMAIN requests
       /\ pairings[d].group = Unset \/ pairings[d].introduction = Unset
  /\ \A r \in DOMAIN requests : requests[r].origin \in DOMAIN certificates

-----------------------------------------------------------------------------
\* The certificate that combines two groups has exactly the devices that the
\* users of both sides had before their eyes when they approved: neither
\* screen was stale in a way that matters.
ReviewedIsConnected ==
  \A c \in DOMAIN certificates : \A r \in certificates[c].enrollments :
    (\A b \in certificates[c].ancestors \ {c} : r \notin certificates[b].enrollments) =>
      /\ <<requests[r].from, r, Members(c)>> \in reviewed
      /\ <<invitations[requests[r].inv].by, r, Members(c)>> \in reviewed

\* An invitation connects once: requests that scanned one code do not both
\* get in.
InvitationsConnectOnce ==
  \A c, b \in DOMAIN certificates : \A r \in certificates[c].enrollments, q \in certificates[b].enrollments :
    requests[r].inv = requests[q].inv => r = q

\* What was approved reaches the device that asked: it goes on asking, however
\* late the answer and whatever failed in between, until it has the group;
\* unless its user cancelled or its own group has moved on.
ApprovalReachesJoiner ==
  \A c \in DOMAIN certificates : \A r \in certificates[c].enrollments :
    LET d == requests[r].from
    IN \/ pairings[d].joining = r
       \/ Current(d) # Unset /\ Current(d) # requests[r].origin
       \/ r \in withdrawn

PairingSound ==
  PairingTypeOK /\ ReviewedIsConnected /\ InvitationsConnectOnce /\ ApprovalReachesJoiner

=============================================================================
