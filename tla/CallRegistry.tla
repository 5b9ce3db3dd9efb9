---------------------------- MODULE CallRegistry ----------------------------
(***************************************************************************)
(* The live state of calls that realtime-service keeps in Redis            *)
(* (internal/calls, internal/kv).  One variable per key family and one     *)
(* operator per Redis command the registry issues: each command is atomic, *)
(* and nothing makes two of them atomic together.  CallServer drives these *)
(* operators from the handlers, the ring timers and the reaper.            *)
(***************************************************************************)
EXTENDS Naturals, FiniteSets

CONSTANTS
    Owners,           \* people
    Conns,            \* WebSocket connections; a reload is a new connection
    Calls,            \* call ids, each minted by at most one invite
    Conversations,
    Instances,        \* INSTANCE_ID values of realtime-service processes
    OwnerOf,          \* [Conns -> Owners], the gateway's X-Owner-ID
    SessionOf,        \* the browser tab's session id, None when it sends none
    InstanceOf,       \* the process a connection is served by
    People,           \* [Conversations -> SUBSET Owners]
    MaxParticipants,  \* the mesh ceiling
    None              \* an absent key, call, connection or session

ASSUME ConnsAreServed ==
    /\ OwnerOf \in [Conns -> Owners]
    /\ InstanceOf \in [Conns -> Instances]
    /\ People \in [Conversations -> SUBSET Owners]
    /\ MaxParticipants \in Nat

ASSUME NoneIsNobody ==
    /\ None \notin Conns \cup Calls \cup Conversations \cup Instances \cup Owners
    /\ Conns \cap Calls = {} /\ Conns \cap Instances = {} /\ Calls \cap Instances = {}

VARIABLES
    info,       \* the immutable part of each call: who rang it, in which conversation
    rec,        \* call:<id>            "none", "ringing" or "active"
    life,       \* history: how many times call:<id> came to exist
    members,    \* call:<id>:members    owner -> the connection holding the place
    joined,     \* call:<id>:joined
    dismissed,  \* call:<id>:dismissed
    claim,      \* call:conv:<id>       the one call of the conversation
    index,      \* call:owner:<id>
    alive       \* rt:instance:<id>     heartbeat keys that have not lapsed

registry == <<rec, life, members, joined, dismissed, claim, index>>

Status == {"none", "ringing", "active"}
NoInfo == [host |-> None, conv |-> None]

RegistryTypeOK ==
    /\ info \in [Calls -> [host : Conns \cup {None}, conv : Conversations \cup {None}]]
    /\ rec \in [Calls -> Status]
    /\ life \in [Calls -> Nat]
    /\ members \in [Calls -> [Owners -> Conns \cup {None}]]
    /\ joined \in [Calls -> SUBSET Owners]
    /\ dismissed \in [Calls -> SUBSET Owners]
    /\ claim \in [Conversations -> Calls \cup {None}]
    /\ index \in [Owners -> SUBSET Calls]
    /\ alive \in SUBSET Instances

RegistryInit ==
    /\ info = [d \in Calls |-> NoInfo]
    /\ rec = [d \in Calls |-> "none"]
    /\ life = [d \in Calls |-> 0]
    /\ members = [d \in Calls |-> [o \in Owners |-> None]]
    /\ joined = [d \in Calls |-> {}]
    /\ dismissed = [d \in Calls |-> {}]
    /\ claim = [v \in Conversations |-> None]
    /\ index = [o \in Owners |-> {}]
    /\ alive = Instances

-----------------------------------------------------------------------------
(* What a call record says. *)

Minted(d) == info[d].host # None
Caller(d) == OwnerOf[info[d].host]
Participants(d) == IF Minted(d) THEN People[info[d].conv] ELSE {}
IsGroup(d) == Cardinality(Participants(d)) > 2
Live(d) == rec[d] # "none"
Members(d) == {o \in Owners : members[d][o] # None}

(* The capacity test of Join, which spares a person already in. *)
Full(d, o) == Cardinality(Members(d)) >= MaxParticipants /\ o \notin Members(d)

-----------------------------------------------------------------------------
(* Redis commands.  Each leaves every other key alone. *)

(* SET call:<id>.  The write does not look at what it replaces, so it also   *)
(* brings back a record that was consumed in the meantime.                   *)
Save(d, status) ==
    /\ rec' = [rec EXCEPT ![d] = status]
    /\ life' = IF Live(d) THEN life ELSE [life EXCEPT ![d] = @ + 1]
    /\ UNCHANGED <<members, joined, dismissed, claim, index>>

(* SET NX, when it wins, and the blind SET that takes a claim over.          *)
Claim(v, d) ==
    /\ claim' = [claim EXCEPT ![v] = d]
    /\ UNCHANGED <<rec, life, members, joined, dismissed, index>>

AddToIndex(o, d) ==
    /\ index' = [index EXCEPT ![o] = @ \cup {d}]
    /\ UNCHANGED <<rec, life, members, joined, dismissed, claim>>

RemoveFromIndex(o, d) ==
    /\ index' = [index EXCEPT ![o] = @ \ {d}]
    /\ UNCHANGED <<rec, life, members, joined, dismissed, claim>>

(* The join script: a free field is won, and a session may take its own      *)
(* field back.                                                               *)
JoinWins(d, c) ==
    LET held == members[d][OwnerOf[c]] IN
    \/ held = None
    \/ held \in Conns /\ SessionOf[c] # None /\ SessionOf[held] = SessionOf[c]

SetMember(d, o, c) ==
    /\ members' = [members EXCEPT ![d][o] = c]
    /\ UNCHANGED <<rec, life, joined, dismissed, claim, index>>

RecordJoin(d, o) ==
    /\ joined' = [joined EXCEPT ![d] = @ \cup {o}]
    /\ UNCHANGED <<rec, life, members, dismissed, claim, index>>

Dismiss(d, o) ==
    /\ dismissed' = [dismissed EXCEPT ![d] = @ \cup {o}]
    /\ UNCHANGED <<rec, life, members, joined, claim, index>>

(* Mutant of HeldBy: a plain HDEL, whichever connection holds the place.     *)
HeldByOwner(d, c) == members[d][OwnerOf[c]] # None

(* The leave script: the field goes only while this connection holds it.     *)
HeldBy(d, c) == members[d][OwnerOf[c]] = c

(* Mutant of Consume: the record is read, not deleted.                       *)
ConsumeByReading(d) == UNCHANGED <<rec, life, members, joined, dismissed, claim, index>>

(* DEL call:<id>, whose answer is the right to announce the ending.          *)
Consume(d) ==
    /\ rec' = [rec EXCEPT ![d] = "none"]
    /\ UNCHANGED <<life, members, joined, dismissed, claim, index>>

(* Mutant of CleanUp: the member hash is missing from the DEL.               *)
CleanUpButMembers(d) ==
    /\ joined' = [joined EXCEPT ![d] = {}]
    /\ dismissed' = [dismissed EXCEPT ![d] = {}]
    /\ claim' = [claim EXCEPT ![info[d].conv] = None]
    /\ UNCHANGED <<rec, life, members, index>>

(* One DEL of four keys: the claim goes whoever holds it by now.             *)
CleanUp(d) ==
    /\ members' = [members EXCEPT ![d] = [o \in Owners |-> None]]
    /\ joined' = [joined EXCEPT ![d] = {}]
    /\ dismissed' = [dismissed EXCEPT ![d] = {}]
    /\ claim' = [claim EXCEPT ![info[d].conv] = None]
    /\ UNCHANGED <<rec, life, index>>

(* Mutant of Lapse: the claim is written without a TTL.                      *)
LapseButClaim(d) ==
    /\ rec' = [rec EXCEPT ![d] = "none"]
    /\ UNCHANGED <<life, members, joined, dismissed, claim, index>>

(* TTLs.  A ringing record and its claim are armed together and lapse        *)
(* together; the other keys carry the much longer active TTL.                *)
Lapse(d) ==
    /\ rec' = [rec EXCEPT ![d] = "none"]
    /\ claim' = [v \in Conversations |-> IF claim[v] = d THEN None ELSE claim[v]]
    /\ UNCHANGED <<life, members, joined, dismissed, index>>

(* Mutants of Orphaned: one dead member is enough; members written without   *)
(* an instance id, which are always taken for alive.                         *)
OrphanedByOne(d, live) ==
    Members(d) = {} \/ \E o \in Members(d) : InstanceOf[members[d][o]] \notin live
OrphanedUnstamped(d, live) == Members(d) = {}

(* FindOrphans' verdict on one call, from the heartbeats read earlier.  An   *)
(* empty member hash satisfies it as well.                                   *)
Orphaned(d, live) == \A o \in Members(d) : InstanceOf[members[d][o]] \notin live

(* NeverJoined, from the joined set as it is at the time of asking.          *)
NeverJoined(d) == Participants(d) \ joined[d]
=============================================================================
