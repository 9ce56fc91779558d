---------------------------- MODULE KnowledgeBases ----------------------------
(***************************************************************************)
(* The knowledge bases of one owner: their creation, renaming and deletion *)
(* with the cascade to their documents and the purge of the bucket, side   *)
(* by side with uploads into them (up to the commit of the rows; what      *)
(* follows is DocumentApi).  One action is one call of the database or of  *)
(* the object storage; a statement that must wait for a lock of another    *)
(* transaction is not enabled.                                             *)
(***************************************************************************)
EXTENDS Naturals, FiniteSets

CONSTANTS
    MaxCalls,   \* requests, numbered in the order in which they begin
    Bases,      \* identities of knowledge bases
    Names,
    Contents,   \* what is uploaded, told apart by its checksum
    KbFaults,   \* which of "put", "rows", "commit", "object", "crash" may fail
    MaxKbFaults

ASSUME KbAssumption ==
    /\ MaxCalls \in Nat
    /\ MaxKbFaults \in Nat
    /\ KbFaults \subseteq {"put", "rows", "commit", "object", "crash"}
    /\ "NONE" \notin Names /\ "GONE" \notin Names

Calls == 1..MaxCalls

VARIABLES
    bases,  \* the committed rows: the name of each base
    copies, \* the uploads whose rows are committed
    bucket, \* the uploads whose object is stored
    calls,  \* the requests
    missed, \* uploads that commit after the keys of their base have been read
    flawed, \* uploads that an injected fault has touched, or their purge
    kbFaults

kbVars == <<bases, copies, bucket, calls, missed, flawed, kbFaults>>

CallKinds == {"create", "rename", "drop", "upload"}
CallPc == {"new", "checked", "ready", "stored", "undoing", "open", "purging", "over"}
\* A call keeps its arguments, the keys it has read, and the copies it has seen.
CallRow == [kind: CallKinds, pc: CallPc, base: Bases, name: Names \union {"NONE"},
            content: Contents, keys: SUBSET Calls, seen: SUBSET Calls]

KbTypeOK ==
    /\ bases \in [Bases -> Names \union {"NONE", "GONE"}]
    /\ copies \subseteq Calls
    /\ bucket \subseteq Calls
    /\ DOMAIN calls \subseteq Calls /\ \A c \in DOMAIN calls : calls[c] \in CallRow
    /\ missed \subseteq Calls
    /\ flawed \subseteq Calls
    /\ kbFaults \in 0..MaxKbFaults

\* The owner has no base yet, or some empty ones.
KbInit ==
    /\ bases \in [Bases -> Names \union {"NONE"}]
    /\ \A a, b \in Bases : a # b /\ bases[a] = bases[b] => bases[a] = "NONE"
    /\ copies = {} /\ bucket = {} /\ missed = {} /\ flawed = {}
    /\ calls = << >>
    /\ kbFaults = 0

Exists(b) == bases[b] \in Names
At(c, kind, pc) == c \in DOMAIN calls /\ calls[c].kind = kind /\ calls[c].pc = pc
Move(c, pc) == calls' = [calls EXCEPT ![c].pc = pc]
InBase(b) == {c \in DOMAIN calls : calls[c].kind = "upload" /\ calls[c].base = b}
KeysOf(b) == copies \intersect InBase(b)

\* Transactions that hold the row of a base: an insert of a document shares it,
\* a rename and a deletion hold it alone.
Sharing(b) == {c \in InBase(b) : calls[c].pc = "open"}
Holding(b) == {c \in DOMAIN calls : /\ calls[c].kind \in {"rename", "drop"}
                                    /\ calls[c].pc = "open" /\ calls[c].base = b}
\* Transactions that have entered a name into the unique index.
Claiming(n) == {c \in DOMAIN calls : /\ calls[c].kind \in {"create", "rename"}
                                     /\ calls[c].pc = "open" /\ calls[c].name = n}
\* The unique index on owner and name lets the base have the name.
NameFree(b, n) == \A a \in Bases \ {b} : bases[a] # n

KbFault(kind) ==
    /\ kind \in KbFaults
    /\ kbFaults < MaxKbFaults
    /\ kbFaults' = kbFaults + 1

BeginCall ==
    LET c == Cardinality(DOMAIN calls) + 1 IN
    /\ c <= MaxCalls
    /\ \E kind \in CallKinds, b \in Bases, n \in Names \union {"NONE"}, x \in Contents :
          /\ (kind = "create") => bases[b] = "NONE" /\ n \in Names
          /\ (kind = "create") => \A d \in DOMAIN calls :
                                     calls[d].kind = "create" => calls[d].base # b
          /\ kind \in {"drop", "upload"} => n = "NONE"
          /\ (kind # "create") => bases[b] # "NONE"
          /\ (kind # "upload") => x = CHOOSE y \in Contents : TRUE
          /\ calls' = [d \in 1..c |-> IF d < c THEN calls[d] ELSE
                [kind |-> kind, pc |-> "new", base |-> b, name |-> n, content |-> x,
                 keys |-> {}, seen |-> {}]]
    /\ UNCHANGED <<bases, copies, bucket, missed, flawed, kbFaults>>
-----------------------------------------------------------------------------
(* POST and PATCH /knowledge-bases *)

\* The name that an UPDATE would set: the row's own name is no change.
NewName(c) == IF bases[calls[c].base] = calls[c].name THEN "NONE" ELSE calls[c].name

\* get_by_name: the name is free, or its own; a description has no conflicts.
CheckName(c) ==
    LET taken == calls[c].name \in Names /\ ~NameFree(calls[c].base, calls[c].name) IN
    /\ At(c, "create", "new") \/ At(c, "rename", "new")
    /\ calls' = [calls EXCEPT ![c].pc = IF taken THEN "over" ELSE "checked",
                              ![c].name = NewName(c)]
    /\ UNCHANGED <<bases, copies, bucket, missed, flawed, kbFaults>>

\* INSERT, or get_by_id and UPDATE: it waits for another transaction that claims
\* the name or holds the row (a new name, as a key, also for one that shares it),
\* and fails if the name has been taken or the row deleted meanwhile.
WriteName(c) ==
    LET b == calls[c].base
        n == NewName(c)
        fails == \/ n \in Names /\ ~NameFree(b, n)
                 \/ calls[c].kind = "rename" /\ ~Exists(b) IN
    /\ At(c, "create", "checked") \/ At(c, "rename", "checked")
    /\ Claiming(n) = {} \/ n = "NONE"
    /\ Holding(b) = {}
    /\ n \in Names => Sharing(b) = {}
    /\ calls' = [calls EXCEPT ![c].pc = IF fails THEN "over" ELSE "open", ![c].name = n]
    /\ UNCHANGED <<bases, copies, bucket, missed, flawed, kbFaults>>

CommitName(c) ==
    /\ At(c, "create", "open") \/ At(c, "rename", "open")
    /\ bases' = IF calls[c].name \in Names
                THEN [bases EXCEPT ![calls[c].base] = calls[c].name]
                ELSE bases
    /\ Move(c, "over")
    /\ UNCHANGED <<copies, bucket, missed, flawed, kbFaults>>
-----------------------------------------------------------------------------
(* DELETE /knowledge-bases/{kb_id} *)

FindBase(c) ==
    /\ At(c, "drop", "new")
    /\ Move(c, IF Exists(calls[c].base) THEN "checked" ELSE "over")
    /\ UNCHANGED <<bases, copies, bucket, missed, flawed, kbFaults>>

\* get_storage_keys_for_kb sees committed rows only.
ReadKeys(c) ==
    LET b == calls[c].base IN
    /\ At(c, "drop", "checked")
    /\ calls' = [calls EXCEPT ![c].pc = "ready", ![c].keys = KeysOf(b)]
    /\ UNCHANGED <<bases, copies, bucket, missed, flawed, kbFaults>>

\* DELETE ... RETURNING waits for the uploads that have inserted their rows, and
\* for whoever else holds the base.
DropRow(c) ==
    LET b == calls[c].base IN
    /\ At(c, "drop", "ready")
    /\ Sharing(b) = {} /\ Holding(b) = {}
    /\ Move(c, IF Exists(b) THEN "open" ELSE "over")
    /\ UNCHANGED <<bases, copies, bucket, missed, flawed, kbFaults>>

\* The rows of the documents go with the base.
CommitDrop(c) ==
    LET b == calls[c].base IN
    /\ At(c, "drop", "open")
    /\ bases' = [bases EXCEPT ![b] = "GONE"]
    /\ copies' = copies \ InBase(b)
    /\ Move(c, "purging")
    /\ UNCHANGED <<bucket, missed, flawed, kbFaults>>

\* Mutant of MayPurge: the objects go before the commit.
MayPurgeBeforeCommit(c) == At(c, "drop", "open") \/ At(c, "drop", "purging")

MayPurge(c) == At(c, "drop", "purging")

\* delete_object for one key after the other; a failure is logged.
Purge(c) ==
    /\ MayPurge(c)
    /\ \E k \in calls[c].keys :
          /\ calls' = [calls EXCEPT ![c].keys = @ \ {k}]
          /\ \/ bucket' = bucket \ {k} /\ UNCHANGED <<flawed, kbFaults>>
             \/ KbFault("object") /\ flawed' = flawed \union {k} /\ UNCHANGED bucket
    /\ UNCHANGED <<bases, copies, missed>>

Purged(c) ==
    /\ At(c, "drop", "purging")
    /\ calls[c].keys = {}
    /\ Move(c, "over")
    /\ UNCHANGED <<bases, copies, bucket, missed, flawed, kbFaults>>
-----------------------------------------------------------------------------
(* POST /documents *)

\* sanitize_filename and sniff_and_validate_mime accept the file, or refuse it.
FileVerdicts == {"checked", "over"}

FindTarget(c) ==
    /\ At(c, "upload", "new")
    /\ \E pc \in FileVerdicts : Move(c, IF Exists(calls[c].base) THEN pc ELSE "over")
    /\ UNCHANGED <<bases, copies, bucket, missed, flawed, kbFaults>>

Same(c) == {d \in KeysOf(calls[c].base) : calls[d].content = calls[c].content}

\* Mutant of Refused: scalar_one_or_none gives up on more than one row.
RefusedIfOne(c) == Cardinality(Same(c)) = 1

\* find_version_by_checksum finds a row, or more than one and raises.
Refused(c) == Same(c) # {}

FindCopy(c) ==
    /\ At(c, "upload", "checked")
    /\ calls' = [calls EXCEPT ![c].pc = IF Refused(c) THEN "over" ELSE "ready",
                              ![c].seen = copies]
    /\ UNCHANGED <<bases, copies, bucket, missed, flawed, kbFaults>>

\* put_object.  When it fails the object may be there all the same, and nobody
\* cleans up.
PutObject(c) ==
    /\ At(c, "upload", "ready")
    /\ \/ bucket' = bucket \union {c} /\ Move(c, "stored") /\ UNCHANGED <<flawed, kbFaults>>
       \/ /\ KbFault("put")
          /\ flawed' = flawed \union {c}
          /\ bucket' \in {bucket, bucket \union {c}}
          /\ Move(c, "over")
    /\ UNCHANGED <<bases, copies, missed>>

\* The INSERTs wait for whoever holds the base; without the base the foreign key
\* fails.
InsertRows(c) ==
    LET b == calls[c].base IN
    /\ At(c, "upload", "stored")
    /\ {d \in Holding(b) : calls[d].name \in Names \/ calls[d].kind = "drop"} = {}
    /\ \/ Move(c, IF Exists(b) THEN "open" ELSE "undoing") /\ UNCHANGED kbFaults
       \/ KbFault("rows") /\ Move(c, "undoing")
    /\ UNCHANGED <<bases, copies, bucket, missed, flawed>>

\* Mutant of UndoUpload: the foreign key's failure is taken for a duplicate, whose
\* object is still needed.
UndoNothing(c) ==
    /\ At(c, "upload", "undoing")
    /\ Move(c, "over")
    /\ UNCHANGED <<bases, copies, bucket, missed, flawed, kbFaults>>

\* The object is deleted again; a failure is logged.
UndoUpload(c) ==
    /\ At(c, "upload", "undoing")
    /\ \/ bucket' = bucket \ {c} /\ UNCHANGED <<flawed, kbFaults>>
       \/ KbFault("object") /\ flawed' = flawed \union {c} /\ UNCHANGED bucket
    /\ Move(c, "over")
    /\ UNCHANGED <<bases, copies, missed>>

CommitRowsOf(c) ==
    /\ At(c, "upload", "open")
    /\ copies' = copies \union {c}
    /\ missed' = IF \E d \in DOMAIN calls : /\ At(d, "drop", "ready")
                                           /\ calls[d].base = calls[c].base
                 THEN missed \union {c}
                 ELSE missed
    /\ Move(c, "over")
    /\ UNCHANGED <<bases, bucket, flawed, kbFaults>>
-----------------------------------------------------------------------------

\* A commit raises, the request rolls back, and an upload leaves its object; or
\* the process dies, and what is not committed is rolled back.
Abort(c) ==
    /\ c \in DOMAIN calls
    /\ \/ calls[c].pc = "open" /\ KbFault("commit")
       \/ calls[c].pc # "over" /\ KbFault("crash")
    /\ flawed' = flawed \union {c} \union (IF MayPurge(c) THEN calls[c].keys ELSE {})
    /\ Move(c, "over")
    /\ UNCHANGED <<bases, copies, bucket, missed>>

KbNext ==
    \/ BeginCall
    \/ \E c \in Calls :
          \/ CheckName(c) \/ WriteName(c) \/ CommitName(c)
          \/ FindBase(c) \/ ReadKeys(c) \/ DropRow(c) \/ CommitDrop(c)
          \/ Purge(c) \/ Purged(c)
          \/ FindTarget(c) \/ FindCopy(c) \/ PutObject(c) \/ InsertRows(c)
          \/ UndoUpload(c) \/ CommitRowsOf(c)
          \/ Abort(c)

KbSpec == KbInit /\ [][KbNext]_kbVars
-----------------------------------------------------------------------------

\* No committed row lacks its object, whichever step of an upload or of a
\* deletion fails.
RowsHaveObjects == copies \subseteq bucket

\* An object without a row, whose upload is over, is about to be purged, or a
\* fault has spared it, or its rows were committed between the reading of the
\* keys of its base and the deletion.
OrphansAreExplained ==
    \A c \in bucket \ copies :
       \/ calls[c].pc # "over"
       \/ c \in flawed \union missed
       \/ \E d \in DOMAIN calls : MayPurge(d) /\ c \in calls[d].keys

\* A base holds the same content twice only if neither of the two uploads could
\* see the other's row when it looked for a copy: an upload that begins later
\* never adds one.
CopiesHaveRaced ==
    \A c, d \in copies :
       c # d /\ calls[c].base = calls[d].base /\ calls[c].content = calls[d].content
          => d \notin calls[c].seen
=============================================================================
