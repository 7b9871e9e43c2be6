-------------------------------- MODULE Restore --------------------------------
(***************************************************************************)
(* `mail-backup restore' (restore/mod.rs): one snapshot of an archive is   *)
(* recreated in a JMAP account (restore/jmap.rs), by a command the user    *)
(* runs again whenever it stopped early.  Requests are refused, fail, or   *)
(* take effect although their answer is lost; the account's owner may be   *)
(* using it at the same time.                                              *)
(***************************************************************************)
EXTENDS Integers, Sequences, FiniteSets

CONSTANTS
    Box, Parent, Name, Role, \* the archived mailboxes: ids, parent ids, names, roles
    Msg,          \* the archived messages: those with a sidecar in the snapshot
    FiledUnder,   \* the mailbox ids in each message's sidecar; some may be gone
    DirectoryOf,  \* the mailbox owning each message's directory, or None
    MessageId,    \* the first Message-ID header of each message, or None
    Received, Size,
    Matching,     \* the messages the filter matches
    FromGit,      \* a git archive, or a plain directory
    Prefixes,     \* the values of mailbox_prefix to consider, None among them or not
    Dedupe,       \* dedupe: message-id, without --force
    Lower,        \* str::to_lowercase, on the names in use
    Segments,     \* a name split at its slashes: a path does not tell them apart
                  \* from those between the names of nested mailboxes
    None,
    Accounts,     \* the mailboxes and mail an account may start out with
    Contents,     \* what the .eml beside each sidecar may be
    OwnerNames,   \* the names of top-level mailboxes the account's owner may add
    MaxRuns, MaxFaults, MaxOwner  \* bounds

Names == DOMAIN Lower

\* A mailbox whose parent is not in the archive has none; no mailbox is its own
\* ancestor, and "prefix" and "unfiled" are not the id of any.
ASSUME MailboxAssumption ==
    /\ Parent \in [Box -> Box \cup {None}] /\ Name \in [Box -> Names]
    /\ IsFiniteSet(Box) /\ Box \cap {None, "prefix", "unfiled"} = {}
    /\ \E depth \in [Box -> 0 .. Cardinality(Box)] :
          \A b \in Box : Parent[b] # None => depth[Parent[b]] < depth[b]
    /\ Role \in [Box -> STRING \cup {None}]
    /\ \A b \in Box : Role[b] = None \/ \A c \in Box \ {b} : Role[c] # Role[b]
ASSUME MessageAssumption ==
    /\ IsFiniteSet(Msg) /\ DirectoryOf \in [Msg -> Box \cup {None}]
    /\ Received \in [Msg -> Int] /\ Size \in [Msg -> Nat] /\ Matching \subseteq Msg
ASSUME NameAssumption ==
    /\ Lower \in [Names -> Names] /\ \A n \in Names : Lower[Lower[n]] = Lower[n]
    /\ \A n \in Names : Segments[n] \in Seq(Names) \ {<<>>}
    /\ {"Unfiled", "unfiled"} \subseteq Names /\ Lower["Unfiled"] = "unfiled"
    /\ Segments["Unfiled"] = <<"Unfiled">>
    /\ Prefixes \subseteq Names \cup {None} /\ None \notin Names /\ OwnerNames \subseteq Names
\* A parent is listed before its children, a position being an id; no mail is
\* taken to be in a mailbox but what a restore has put there.
ASSUME AccountAssumption ==
    \A a \in Accounts :
        /\ a.boxes \in Seq([name : Names, parent : Nat, role : STRING \cup {None}])
        /\ \A i \in DOMAIN a.boxes : a.boxes[i].parent < i
        /\ a.mail \in Seq([msg : Msg, in : {{}}])
ASSUME RestoreBounds == {MaxRuns, MaxFaults, MaxOwner} \subseteq Nat

VARIABLES
    \* The account: its mailboxes (the id of one is its position), its mail.
    boxes, mail,
    content,   \* per message: the archived .eml is "good", "corrupt" or "missing"
    prefix,    \* mailbox_prefix
    \* The run: where it is, whether it is a dry run, list_mailboxes (by path,
    \* and the roles taken), the mailbox found or made for each place, the
    \* places and messages still to do, RestoreSummary, how the last run ended.
    pc, dry, byPath, taken, mapping, places, todo, summary, outcome,
    \* Whether this run has met a fault or the owner; what a dry run foretold.
    disturbed, foretold,
    cancel, runs, faults, owner

given == <<content, prefix>>
target == <<boxes, mail, given>>
plan == <<byPath, taken, mapping, places>>
bounds == <<cancel, runs, faults, owner>>
vars == <<target, pc, dry, plan, todo, summary, outcome, disturbed, foretold, bounds>>

Unknown == [created |-> -1, imported |-> -1]
NoSummary == [created |-> 0, imported |-> 0, skipped |-> 0, failed |-> 0]

-----------------------------------------------------------------------------
(* The archive (restore/reader.rs).                                         *)

\* Archive::open.  A git snapshot leaves out a sidecar without its .eml; a
\* directory is read by its sidecars alone.
Archived == IF FromGit THEN {m \in Msg : content[m] # "missing"} ELSE Msg

\* Archive::read verifies the checksum.
Readable(m) == content[m] = "good"

Selected == Archived \cap Matching

\* MailboxIndex::name_path of an archived mailbox.
NamePath[b \in Box] ==
    (IF Parent[b] = None THEN <<>> ELSE NamePath[Parent[b]]) \o Segments[Name[b]]

-----------------------------------------------------------------------------
(* The plan: where each message goes, and the mailboxes that takes.         *)

PrefixPlace == "prefix"
Unfiled == "unfiled"   \* the synthetic mailbox of messages that have none
Place == Box \cup {PrefixPlace, Unfiled}

\* (mutant: the directory decides before the sidecar does.)
ResolvedByDirectory(m) ==
    IF DirectoryOf[m] # None THEN {DirectoryOf[m]}
    ELSE IF FiledUnder[m] \cap Box # {} THEN FiledUnder[m] \cap Box ELSE {Unfiled}

\* The mailboxes of the sidecar that still resolve, else the one that owns the
\* directory, else Unfiled.
Resolved(m) ==
    CASE FiledUnder[m] \cap Box # {} -> FiledUnder[m] \cap Box
      [] FiledUnder[m] \cap Box = {} /\ DirectoryOf[m] # None -> {DirectoryOf[m]}
      [] OTHER -> {Unfiled}

\* The mailboxes of a chain from b up to its root.
Chain[b \in Box] == {b} \cup (IF Parent[b] = None THEN {} ELSE Chain[Parent[b]])

Needed == UNION {Resolved(m) : m \in Selected}
Places ==
    (IF prefix = None THEN {} ELSE {PrefixPlace})
    \cup (UNION {Chain[b] : b \in Needed \cap Box}) \cup (Needed \cap {Unfiled})

\* The prefix first, parents before their children, Unfiled last.
Rank(p) == CASE p = PrefixPlace -> 0
             [] p = Unfiled -> Cardinality(Box) + 1
             [] OTHER -> Cardinality(Chain[p])
Turn(p) == p \in places /\ \A q \in places : Rank(p) <= Rank(q)

Lowered(path) == [i \in DOMAIN path |-> Lower[path[i]]]
Under(path) == IF prefix = None THEN path ELSE Segments[prefix] \o path

\* (mutant: the full path ignores the prefix.)
KeyUnprefixed(p) ==
    CASE p = PrefixPlace -> Lowered(Segments[prefix])
      [] p = Unfiled -> Under(<<"unfiled">>)
      [] OTHER -> Lowered(NamePath[p])

\* The path a place is looked up by among the account's lower-cased paths.
\* The prefix in front of Unfiled is not lower-cased.
Key(p) ==
    CASE p = PrefixPlace -> Lowered(Segments[prefix])
      [] p = Unfiled -> Under(<<"unfiled">>)
      [] OTHER -> Lowered(Under(NamePath[p]))

\* (mutant: the roles the account already has are not looked at.)
RequestAnyRole(p) ==
    [name |-> CASE p = PrefixPlace -> prefix [] p = Unfiled -> "Unfiled"
                [] OTHER -> Name[p],
     parent |-> CASE p = PrefixPlace -> 0
                  [] p \in Box /\ Parent[p] # None -> mapping[Parent[p]]
                  [] OTHER -> mapping[PrefixPlace],
     role |-> IF p \in Box /\ prefix = None THEN Role[p] ELSE None]

\* What create_mailbox is asked for: a role only outside of a prefix, and only
\* when no mailbox of the account had it.  0 is no parent.
Request(p) ==
    [name |-> CASE p = PrefixPlace -> prefix [] p = Unfiled -> "Unfiled"
                [] OTHER -> Name[p],
     parent |-> CASE p = PrefixPlace -> 0
                  [] p \in Box /\ Parent[p] # None -> mapping[Parent[p]]
                  [] OTHER -> mapping[PrefixPlace],
     role |-> IF p \in Box /\ prefix = None /\ Role[p] \notin taken
              THEN Role[p] ELSE None]

-----------------------------------------------------------------------------
(* The account (external, RFC 8621).                                        *)

PathIn(bs) ==
    LET path[i \in DOMAIN bs] ==
            (IF bs[i].parent = 0 THEN <<>> ELSE path[bs[i].parent])
            \o Segments[bs[i].name]
    IN  path

\* Two mailboxes of one parent have different names; one mailbox has a role.
Refused(r) ==
    \E i \in DOMAIN boxes : \/ boxes[i].parent = r.parent /\ boxes[i].name = r.name
                            \/ r.role # None /\ boxes[i].role = r.role

\* Email/query: minSize is inclusive, maxSize exclusive; after is inclusive,
\* before exclusive.
Finds(m) ==
    \E i \in DOMAIN mail :
        LET x == mail[i].msg IN
        IF MessageId[m] # None THEN MessageId[x] = MessageId[m]
        ELSE /\ Received[m] - 1 <= Received[x] /\ Received[x] < Received[m] + 1
             /\ Size[x] >= Size[m] /\ Size[x] < Size[m]

\* The account's owner makes a mailbox.
OwnerCreates(n) ==
    LET r == [name |-> n, parent |-> 0, role |-> None] IN
    /\ owner < MaxOwner /\ owner' = owner + 1
    /\ ~Refused(r)
    /\ boxes' = Append(boxes, r)
    /\ disturbed' = TRUE /\ foretold' = Unknown
    /\ UNCHANGED <<mail, given, pc, dry, plan, todo, summary, outcome, cancel, runs,
                   faults>>

-----------------------------------------------------------------------------
(* A run.                                                                   *)

Begin(isDry) ==
    /\ pc = "idle" /\ runs < MaxRuns
    /\ runs' = runs + 1
    /\ dry' = isDry
    /\ pc' = "list"
    /\ summary' = NoSummary /\ disturbed' = FALSE /\ cancel' = FALSE
    /\ outcome' = "running"
    /\ UNCHANGED <<target, plan, todo, foretold, faults, owner>>

\* connect, then list_mailboxes: of mailboxes whose paths differ only in case,
\* the last one listed stands for them all.
ListMailboxes ==
    LET path  == PathIn(boxes)
        at(k) == {i \in DOMAIN boxes : Lowered(path[i]) = k}
        paths == {Lowered(path[i]) : i \in DOMAIN boxes}
        twins == UNION {at(k) : k \in {k \in paths : Cardinality(at(k)) > 1}}
    IN  /\ pc = "list"
        /\ \E hidden \in SUBSET twins :
              /\ \A k \in paths : Cardinality(at(k) \ hidden) = 1
              /\ byPath' = [k \in paths |-> CHOOSE i \in at(k) \ hidden : TRUE]
        /\ taken' = {boxes[i].role : i \in DOMAIN boxes}
        /\ mapping' = [p \in Place |-> 0]
        /\ places' = Places
        /\ todo' = Selected
        /\ pc' = "mailboxes"
        /\ UNCHANGED <<target, dry, summary, outcome, disturbed, foretold, bounds>>

Ensured(p, id) ==
    /\ mapping' = [mapping EXCEPT ![p] = id]
    /\ places' = places \ {p}
    /\ UNCHANGED <<mail, given, pc, dry, taken, todo, outcome, disturbed, foretold,
                   bounds>>

Reuse(p) ==
    /\ pc = "mailboxes" /\ Turn(p)
    /\ Key(p) \in DOMAIN byPath
    /\ Ensured(p, byPath[Key(p)])
    /\ UNCHANGED <<boxes, byPath, summary>>

\* (mutant: a dry run counts on from the ids of the account.)
CreateDryIdReal(p) ==
    LET id == Len(boxes) + 1 IN
    /\ pc = "mailboxes" /\ Turn(p)
    /\ Key(p) \notin DOMAIN byPath
    /\ (dry \/ ~Refused(Request(p)))
    /\ boxes' = IF dry THEN boxes ELSE Append(boxes, Request(p))
    /\ summary' = [summary EXCEPT !.created = @ + 1]
    /\ byPath' = IF p = Unfiled THEN byPath
                 ELSE [k \in DOMAIN byPath \cup {Key(p)} |->
                         IF k = Key(p) THEN id ELSE byPath[k]]
    /\ Ensured(p, id)

\* (mutant: a dry run does not remember the paths it would have made.)
CreateDryUnentered(p) ==
    LET id == IF dry THEN -1 - summary.created ELSE Len(boxes) + 1 IN
    /\ pc = "mailboxes" /\ Turn(p)
    /\ Key(p) \notin DOMAIN byPath
    /\ (dry \/ ~Refused(Request(p)))
    /\ boxes' = IF dry THEN boxes ELSE Append(boxes, Request(p))
    /\ summary' = [summary EXCEPT !.created = @ + 1]
    /\ byPath' = IF p = Unfiled \/ dry THEN byPath
                 ELSE [k \in DOMAIN byPath \cup {Key(p)} |->
                         IF k = Key(p) THEN id ELSE byPath[k]]
    /\ Ensured(p, id)

\* A dry run makes up an id (a negative one here).  Unfiled, the last place,
\* is not entered in by_path.
Create(p) ==
    LET id == IF dry THEN -1 - summary.created ELSE Len(boxes) + 1 IN
    /\ pc = "mailboxes" /\ Turn(p)
    /\ Key(p) \notin DOMAIN byPath
    /\ (dry \/ ~Refused(Request(p)))
    /\ boxes' = IF dry THEN boxes ELSE Append(boxes, Request(p))
    /\ summary' = [summary EXCEPT !.created = @ + 1]
    /\ byPath' = IF p = Unfiled THEN byPath
                 ELSE [k \in DOMAIN byPath \cup {Key(p)} |->
                         IF k = Key(p) THEN id ELSE byPath[k]]
    /\ Ensured(p, id)

MailboxesReady ==
    /\ pc = "mailboxes" /\ places = {}
    /\ pc' = "import"
    /\ UNCHANGED <<target, dry, plan, todo, summary, outcome, disturbed, foretold,
                   bounds>>

\* The run is over; an error leaves the rest undone.  The summary of a dry run
\* tells what a restore would do.
EndRun(how) ==
    /\ pc' = "idle" /\ outcome' = how
    /\ foretold' = IF how = "complete" /\ dry /\ ~disturbed
                   THEN [created |-> summary.created,
                         imported |-> Cardinality(Selected) - summary.skipped]
                   ELSE Unknown
    /\ todo' = {} /\ places' = {}
    /\ byPath' = <<>> /\ taken' = {} /\ mapping' = [p \in Place |-> 0]
    /\ UNCHANGED <<mail, given, dry, runs, owner, cancel>>

CreateRefused(p) ==
    /\ pc = "mailboxes" /\ Turn(p) /\ ~dry
    /\ Key(p) \notin DOMAIN byPath
    /\ Refused(Request(p))
    /\ EndRun("failed")
    /\ UNCHANGED <<boxes, summary, disturbed, faults>>

\* The answer is lost, the retry of create_mailbox is refused: the name is
\* taken by now.
CreateAnswerLost(p) ==
    /\ pc = "mailboxes" /\ Turn(p) /\ ~dry
    /\ Key(p) \notin DOMAIN byPath
    /\ ~Refused(Request(p))
    /\ faults < MaxFaults /\ faults' = faults + 1
    /\ boxes' = Append(boxes, Request(p))
    /\ EndRun("failed")
    /\ disturbed' = TRUE
    /\ UNCHANGED summary

\* A request fails for good, or the process is killed.
Stop ==
    /\ pc # "idle"
    /\ faults < MaxFaults /\ faults' = faults + 1
    /\ EndRun("failed")
    /\ disturbed' = TRUE
    /\ UNCHANGED <<boxes, summary>>

-----------------------------------------------------------------------------
(* The import loop.  Messages come in no particular order.                  *)

Considered(m, counter) ==
    /\ todo' = todo \ {m}
    /\ summary' = [summary EXCEPT ![counter] = @ + 1]
    /\ UNCHANGED <<boxes, given, pc, dry, plan, outcome, foretold, cancel, runs, owner>>

SkipExisting(m) ==
    /\ pc = "import" /\ ~cancel /\ m \in todo
    /\ Dedupe /\ Finds(m)
    /\ Considered(m, "skipped")
    /\ UNCHANGED <<mail, disturbed, faults>>

\* (mutant: what an earlier run imported is not looked for.)
DueAnyhow(m) == pc = "import" /\ ~cancel /\ m \in todo

Due(m) ==
    /\ pc = "import" /\ ~cancel /\ m \in todo
    /\ ~(Dedupe /\ Finds(m))

\* A dry run goes on to the next message without reading this one.
PassOver(m) ==
    /\ Due(m) /\ dry
    /\ todo' = todo \ {m}
    /\ UNCHANGED <<target, pc, dry, plan, summary, outcome, disturbed, foretold, bounds>>

Imported(m) == Append(mail, [msg |-> m, in |-> {mapping[b] : b \in Resolved(m)}])

Import(m) ==
    /\ Due(m) /\ ~dry /\ Readable(m)
    /\ mail' = Imported(m)
    /\ Considered(m, "imported")
    /\ UNCHANGED <<disturbed, faults>>

\* (mutant: a failed import is counted as done.)
ImportFailsUncounted(m) ==
    /\ Due(m) /\ ~dry /\ Readable(m)
    /\ faults < MaxFaults /\ faults' = faults + 1
    /\ mail' \in {mail, Imported(m)}
    /\ disturbed' = TRUE
    /\ Considered(m, "imported")

\* An import is not retried: it is counted as failed, whether or not it was
\* done.
ImportFails(m) ==
    /\ Due(m) /\ ~dry /\ Readable(m)
    /\ faults < MaxFaults /\ faults' = faults + 1
    /\ mail' \in {mail, Imported(m)}
    /\ disturbed' = TRUE
    /\ Considered(m, "failed")

\* The checksum does not match, or the file is gone: the run is aborted.
ReadFails(m) ==
    /\ Due(m) /\ ~dry /\ ~Readable(m)
    /\ EndRun("failed")
    /\ UNCHANGED <<boxes, summary, disturbed, faults>>

Cancel ==
    /\ pc # "idle" /\ ~cancel /\ faults < MaxFaults
    /\ cancel' = TRUE /\ faults' = faults + 1
    /\ UNCHANGED <<target, pc, dry, plan, todo, summary, outcome, disturbed, foretold,
                   runs, owner>>

Interrupted ==
    /\ pc = "import" /\ cancel /\ todo # {}
    /\ EndRun("interrupted")
    /\ UNCHANGED <<boxes, summary, disturbed, faults>>

Complete ==
    /\ pc = "import" /\ todo = {}
    /\ EndRun("complete")
    /\ UNCHANGED <<boxes, summary, disturbed, faults>>

-----------------------------------------------------------------------------
Init ==
    /\ \E a \in Accounts : boxes = a.boxes /\ mail = a.mail
    /\ content \in Contents /\ prefix \in Prefixes
    /\ pc = "idle" /\ dry = FALSE /\ outcome = "none"
    /\ byPath = <<>> /\ taken = {} /\ mapping = [p \in Place |-> 0] /\ places = {}
    /\ todo = {} /\ summary = NoSummary
    /\ disturbed = FALSE /\ foretold = Unknown
    /\ cancel = FALSE /\ runs = 0 /\ faults = 0 /\ owner = 0

Next ==
    \/ \E n \in OwnerNames : OwnerCreates(n)
    \/ \E isDry \in BOOLEAN : Begin(isDry)
    \/ ListMailboxes
    \/ \E p \in places : Reuse(p) \/ Create(p) \/ CreateRefused(p) \/ CreateAnswerLost(p)
    \/ MailboxesReady
    \/ \E m \in Msg : \/ SkipExisting(m) \/ PassOver(m)
                      \/ Import(m) \/ ImportFails(m) \/ ReadFails(m)
    \/ Stop \/ Cancel \/ Interrupted \/ Complete

Spec == Init /\ [][Next]_vars

-----------------------------------------------------------------------------
(* What a restore promises.                                                 *)

TypeOK ==
    /\ \A i \in DOMAIN boxes : boxes[i].name \in Names /\ boxes[i].parent \in 0 .. i - 1
    /\ \A i \in DOMAIN mail : mail[i].msg \in Msg /\ mail[i].in \subseteq DOMAIN boxes
    /\ prefix \in Prefixes /\ content \in Contents
    /\ pc \in {"idle", "list", "mailboxes", "import"} /\ dry \in BOOLEAN
    /\ \A k \in DOMAIN byPath :
          byPath[k] \in DOMAIN boxes \cup (IF dry THEN -summary.created .. -1 ELSE {})
    /\ mapping \in [Place -> -Cardinality(Place) .. Len(boxes)]
    /\ places \subseteq Places /\ todo \subseteq Selected
    /\ summary \in [DOMAIN NoSummary -> Nat]
    /\ outcome \in {"none", "running", "complete", "interrupted", "failed"}
    /\ {disturbed, cancel} \subseteq BOOLEAN
    /\ runs \in 0 .. MaxRuns /\ faults \in 0 .. MaxFaults /\ owner \in 0 .. MaxOwner

\* The path of a place as the account shows it, up to case.
TruePath(p) ==
    CASE p = PrefixPlace -> Lowered(Segments[prefix])
      [] p = Unfiled -> Lowered(Under(<<"Unfiled">>))
      [] OTHER -> Lowered(Under(NamePath[p]))

\* The ids a restore works with name the mailboxes it takes them for: each
\* place it has ensured, and each path it knows, is that mailbox of the
\* account, whoever made it and in whichever run (ensure_mailboxes).  A slash in
\* a name passes for the one between two names, here as in the code.
MappingFaithful ==
    ~dry => LET path == PathIn(boxes) IN
            /\ \A k \in DOMAIN byPath : Lowered(path[byPath[k]]) = k
            /\ \A p \in Place : mapping[p] # 0 => Lowered(path[mapping[p]]) = TruePath(p)

\* However often the restore is run again, after whatever loss of an answer
\* or interruption, no message with a Message-ID is in the account twice
\* ("everything that already made it through is skipped").
NoDuplicate ==
    Dedupe => \A i, j \in DOMAIN mail :
                 MessageId[mail[i].msg] # None
                   /\ MessageId[mail[i].msg] = MessageId[mail[j].msg] => i = j

\* Every imported message is in all the mailboxes of its sidecar that still
\* exist and in no other, however they came to be in the account; one that has
\* none left is in exactly one.
ImportedInPlace ==
    LET path  == PathIn(boxes)
        in(i) == {Lowered(path[b]) : b \in mail[i].in}
        kept(i) == FiledUnder[mail[i].msg] \cap Box
    IN  \A i \in DOMAIN mail :
            mail[i].in # {} =>
                IF kept(i) = {} THEN Cardinality(in(i)) = 1
                ELSE in(i) = {TruePath(b) : b \in kept(i)}

\* A run that meets no fault and no change by the owner does not fail, unless
\* the archive is damaged: it never asks for a mailbox whose name or role is
\* taken, be it by an earlier run that stopped half-way.
CleanRunSucceeds ==
    outcome = "failed" => disturbed \/ \E m \in Selected : ~Readable(m)

OnTarget(m) == \E i \in DOMAIN mail : mail[i].msg = m

\* A restore that reports that nothing failed has everything that was selected
\* in the account: "import everything that isn't already there".
CompleteMeansAll ==
    outcome = "complete" /\ ~dry /\ summary.failed = 0
      => \A m \in Selected : OnTarget(m)

\* A restore does what the dry run just before it said it would.
DryRunForetells ==
    [][outcome = "running" /\ outcome' = "complete" /\ ~dry /\ ~disturbed
         /\ foretold # Unknown
       => foretold = [created |-> summary.created, imported |-> summary.imported]]_vars

=============================================================================
