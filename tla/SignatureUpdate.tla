-------------------------- MODULE SignatureUpdate --------------------------
(***************************************************************************)
(* Distribution of hash signatures: the update server                      *)
(* (src/src/update_server) whose administrator adds and redefines          *)
(* signatures, and Engine::CheckForSignatureUpdates                        *)
(* (src/src/engine/src/engine.cpp), run by `avconsolehost --update`, which *)
(* fetches the manifest and then, when the versions differ, the list, in   *)
(* two requests, verifies the list against the manifest's hash, upserts    *)
(* entry by entry and records the version last.                            *)
(*                                                                         *)
(* A SHA-256 of a list or of a program is modelled by the thing itself, a  *)
(* signature by who signed what. Opening either database writes the seed   *)
(* signature into it again. The server may also offer a build of the       *)
(* application, signed when the server starts; nothing in this repository  *)
(* asks for it yet.                                                        *)
(*                                                                         *)
(* What the surroundings may do is chosen once, at the start: may, one of  *)
(* the fault sets in Admitted. A property names the faults it excludes.    *)
(***************************************************************************)
EXTENDS Naturals, FiniteSets

CONSTANTS
  Sha, Def,      \* file hashes; what a signature says of one
  NoDef,         \* there is no signature for this hash
  Seed, SeedDef, \* the signature that SeedDefaultSignatures writes
  NoSha,         \* the empty hash, which the administrator can send as well
  NoFile,        \* there is no such file
  Build, Key,    \* builds of the application; key pairs that --genkey makes
  Client,        \* invocations of --update on the one local database
  Admitted,      \* the sets of faults that this instance lets happen together
  MaxVersion     \* bound: the last version the server reaches

Fault == { "serverDies",   \* the server may end between upsert and version
           "emptySha",     \* the administrator may send an empty hash
           "appUpdates",   \* the server may be started with a build to offer
           "clientDies",   \* an update may end between two statements
           "concurrent",   \* two updates may run on one local database
           "seedEdited",   \* the administrator may redefine the seed signature
           "damaged" }     \* a downloaded list may differ from the one served

ASSUME SignatureUpdateAssumption ==
  /\ NoDef \notin Def
  /\ Seed \in Sha /\ SeedDef \in Def
  /\ NoSha \in Sha \ {Seed}
  /\ NoFile \notin Build \cup Key \cup [Sha -> Def \cup {NoDef}]
  /\ Admitted \subseteq SUBSET Fault
  /\ MaxVersion \in Nat \ {0}

Slot == Def \cup {NoDef}
List == [Sha -> Slot]
Blank == [s \in Sha |-> NoDef]
Seeded(list) == [list EXCEPT ![Seed] = SeedDef]

\* Database::Open: the tables are created where they are missing, and seeded.
Open(file) == Seeded(IF file = NoFile THEN Blank ELSE file)

Signature == [by : Key, of : Build]
SignEd25519(key, message) == [by |-> key, of |-> message]

\* As --verify does.
Verifies(public, message, signature) == signature = SignEd25519(public, message)

\* Of two different lists the hashes differ.
ComputeSha256Bytes(list) == <<"sha256", list>>

Listed(list) == {s \in Sha : list[s] # NoDef}

VARIABLES
  may,
  srv, srvVersion,     \* the server's tables; version 0 is "none stored"
  admin,               \* "idle", or "bump" between upsert and new version
  running,             \* the server listens
  disk, pem,           \* the files at --app-binary and --signing-key
  app, app_signature,  \* what the server read and signed, or NoFile
  local, localVersion, \* the client's tables
  pc, version, expected, body, todo,   \* of each update
  published            \* history: <<version, list>> as served in a manifest

appVars == <<running, disk, pem, app, app_signature>>
serverVars == <<srv, srvVersion, admin, appVars>>
localVars == <<local, localVersion>>
clientVars == <<pc, version, expected, body, todo>>
vars == <<may, serverVars, localVars, clientVars, published>>

-----------------------------------------------------------------------------
\* The version a manifest states.
ServedVersion == IF srvVersion = 0 THEN 1 ELSE srvVersion

TypeOK ==
  /\ may \subseteq Fault
  /\ srv \in List /\ local \in List
  /\ srvVersion \in 0..MaxVersion /\ localVersion \in 0..MaxVersion
  /\ admin \in {"idle", "bump"} /\ running \in BOOLEAN
  /\ disk \in Build /\ pem \in Key \cup {NoFile}
  /\ app \in Build \cup {NoFile} /\ app_signature \in Signature \cup {NoFile}
  /\ pc \in [Client -> {"idle", "compare", "download", "apply"}]
  /\ version \in [Client -> 0..MaxVersion]
  /\ expected \in [Client -> {"sha256"} \X List] /\ body \in [Client -> List]
  /\ todo \in [Client -> SUBSET Sha]
  /\ \A c \in Client : pc[c] = "apply" => /\ ComputeSha256Bytes(body[c]) = expected[c]
                                         /\ todo[c] \subseteq Listed(body[c])

Init ==
  /\ may \in Admitted
  /\ srv = Open(NoFile) /\ srvVersion = 0 /\ admin = "idle"
  /\ running = TRUE /\ app = NoFile /\ app_signature = NoFile
  /\ disk \in Build /\ pem = NoFile
  /\ local = Open(NoFile) /\ localVersion = 0
  /\ pc = [c \in Client |-> "idle"]
  /\ version = [c \in Client |-> 0]
  /\ expected = [c \in Client |-> ComputeSha256Bytes(Blank)]
  /\ body = [c \in Client |-> Blank]
  /\ todo = [c \in Client |-> {}]
  /\ published = {}

Goes(c, to) == pc' = [pc EXCEPT ![c] = to]

\* The update ends, and its locals with it.
Ends(c) ==
  /\ Goes(c, "idle")
  /\ version' = [version EXCEPT ![c] = 0]
  /\ expected' = [expected EXCEPT ![c] = ComputeSha256Bytes(Blank)]
  /\ body' = [body EXCEPT ![c] = Blank]
  /\ todo' = [todo EXCEPT ![c] = {}]

-----------------------------------------------------------------------------
(* The server. Every handler holds db_mutex, so requests see no "bump".    *)

\* POST /admin/signatures: upsert ...
AdminUpsert ==
  /\ running /\ admin = "idle" /\ ServedVersion < MaxVersion
  /\ \E s \in Sha, d \in Def :
       /\ s # Seed \/ "seedEdited" \in may
       /\ s # NoSha \/ "emptySha" \in may
       /\ srv' = [srv EXCEPT ![s] = d]
  /\ admin' = "bump"
  /\ UNCHANGED <<may, srvVersion, appVars, localVars, clientVars, published>>

\* Variant: the first change is published under the version of the seed.
AdminBump_FromOne ==
  /\ admin = "bump"
  /\ srvVersion' = srvVersion + 1
  /\ admin' = "idle"
  /\ UNCHANGED <<may, srv, appVars, localVars, clientVars, published>>

\* ... then the next version.
AdminBump ==
  /\ admin = "bump"
  /\ srvVersion' = ServedVersion + 1
  /\ admin' = "idle"
  /\ UNCHANGED <<may, srv, appVars, localVars, clientVars, published>>

\* The second statement fails and the handler answers 400: the row stays.
AdminFails ==
  /\ "serverDies" \in may
  /\ admin = "bump"
  /\ admin' = "idle"
  /\ UNCHANGED <<may, srv, srvVersion, appVars, localVars, clientVars, published>>

\* The server ends, wherever it is, or between requests, to be started anew.
ServerEnds ==
  /\ running
  /\ "serverDies" \in may \/ ("appUpdates" \in may /\ admin = "idle")
  /\ running' = FALSE /\ admin' = "idle"
  /\ app' = NoFile /\ app_signature' = NoFile
  /\ UNCHANGED <<may, srv, srvVersion, disk, pem, localVars, clientVars, published>>

\* main: a build is offered only if it could be signed; else the server exits.
ServerStarts ==
  /\ ~running
  /\ running' = TRUE
  /\ srv' = Open(srv)
  /\ \/ UNCHANGED <<app, app_signature>>
     \/ /\ "appUpdates" \in may /\ pem # NoFile
        /\ app' = disk
        /\ app_signature' = SignEd25519(pem, disk)
  /\ UNCHANGED <<may, srvVersion, admin, disk, pem, localVars, clientVars, published>>

\* --genkey, over whatever key the file held.
GenKey ==
  /\ "appUpdates" \in may
  /\ pem' \in Key
  /\ UNCHANGED <<may, srv, srvVersion, admin, running, disk, app, app_signature,
                 localVars, clientVars, published>>

\* A new build takes the place of the old, whether the server runs or not.
Rebuilds ==
  /\ "appUpdates" \in may
  /\ disk' \in Build
  /\ UNCHANGED <<may, srv, srvVersion, admin, running, pem, app, app_signature,
                 localVars, clientVars, published>>

\* Variant: the build is read anew for every download.
AppDownload_FromDisk == IF app = NoFile THEN NoFile ELSE disk

\* GET /app/download.
AppDownload == app

-----------------------------------------------------------------------------
(* CheckForSignatureUpdates                                                *)

\* avconsolehost opens the database; GET /manifest.json.
GetManifest(c) ==
  /\ pc[c] = "idle" /\ running /\ admin = "idle"
  /\ "concurrent" \in may \/ \A o \in Client : pc[o] = "idle"
  /\ local' = Open(local)
  /\ version' = [version EXCEPT ![c] = ServedVersion]
  /\ expected' = [expected EXCEPT ![c] = ComputeSha256Bytes(srv)]
  /\ published' = published \cup {<<ServedVersion, srv>>}
  /\ Goes(c, "compare")
  /\ UNCHANGED <<may, serverVars, localVersion, body, todo>>

\* The versions are equal, and the update ends ("already up to date"), or not.
Compare(c) ==
  /\ pc[c] = "compare"
  /\ IF version[c] = localVersion
       THEN Ends(c)
       ELSE Goes(c, "download") /\ UNCHANGED <<version, expected, body, todo>>
  /\ UNCHANGED <<may, serverVars, localVars, published>>

\* Variant: the list is taken as it comes.
Download_Unverified(c) ==
  /\ pc[c] = "download" /\ running /\ admin = "idle"
  /\ \E list \in {srv} \cup (IF "damaged" \in may THEN List ELSE {}) :
       /\ body' = [body EXCEPT ![c] = list]
       /\ todo' = [todo EXCEPT ![c] = Listed(list) \ {NoSha}]
  /\ Goes(c, "apply")
  /\ UNCHANGED <<may, serverVars, localVars, version, expected, published>>

\* GET /signatures.json, then the integrity check.
Download(c) ==
  /\ pc[c] = "download" /\ running /\ admin = "idle"
  /\ \E list \in {srv} \cup (IF "damaged" \in may THEN List ELSE {}) :
       IF ComputeSha256Bytes(list) = expected[c]
         THEN /\ body' = [body EXCEPT ![c] = list]
              /\ todo' = [todo EXCEPT ![c] = Listed(list) \ {NoSha}]
              /\ Goes(c, "apply")
              /\ UNCHANGED <<version, expected>>
         ELSE Ends(c)
  /\ UNCHANGED <<may, serverVars, localVars, published>>

\* Either request fails; the engine reports it and the update ends.
RequestFails(c) ==
  /\ pc[c] = "download"
  /\ Ends(c)
  /\ UNCHANGED <<may, serverVars, localVars, published>>

\* One entry, in whatever order the list has; one without a hash is skipped.
Upsert(c) ==
  /\ pc[c] = "apply"
  /\ \E s \in todo[c] :
       /\ local' = [local EXCEPT ![s] = body[c][s]]
       /\ todo' = [todo EXCEPT ![c] = @ \ {s}]
  /\ UNCHANGED <<may, serverVars, localVersion, pc, version, expected, body,
                 published>>

\* Variant: the version is recorded before the last entry.
RecordVersion_Early(c) ==
  /\ pc[c] = "apply" /\ localVersion # version[c]
  /\ localVersion' = version[c]
  /\ IF todo[c] = {} THEN Ends(c) ELSE UNCHANGED clientVars
  /\ UNCHANGED <<may, serverVars, local, published>>

\* SetAppliedSignatureDbVersion.
RecordVersion(c) ==
  /\ pc[c] = "apply" /\ todo[c] = {}
  /\ localVersion' = version[c]
  /\ Ends(c)
  /\ UNCHANGED <<may, serverVars, local, published>>

\* A statement throws, or the process is ended.
ClientDies(c) ==
  /\ "clientDies" \in may
  /\ pc[c] # "idle"
  /\ Ends(c)
  /\ UNCHANGED <<may, serverVars, localVars, published>>

UpdateStep(c) == \/ GetManifest(c) \/ Compare(c) \/ Download(c)
                 \/ Upsert(c) \/ RecordVersion(c)

Next ==
  \/ AdminUpsert \/ AdminBump \/ AdminFails
  \/ ServerEnds \/ ServerStarts \/ GenKey \/ Rebuilds
  \/ \E c \in Client : UpdateStep(c) \/ RequestFails(c) \/ ClientDies(c)

\* The server finishes the requests it began; somebody keeps running --update,
\* and a download that is tried again and again succeeds in the end.
Fairness ==
  /\ WF_vars(AdminBump)
  /\ \A c \in Client :
       /\ WF_vars(UpdateStep(c))
       /\ SF_vars(Download(c) /\ pc'[c] = "apply")

Spec == Init /\ [][Next]_vars /\ Fairness

-----------------------------------------------------------------------------
(* Properties                                                              *)

\* One update at a time, and no change of the server's list goes unversioned.
Versioned == may \cap {"concurrent", "serverDies", "seedEdited"} = {}

\* The recorded version is a promise about the content: no local signature is
\* older than it, whatever updates were cut short in between. (One that was cut
\* short may have left newer ones.)
NeverOlderThanVersion ==
  Versioned /\ localVersion # 0 =>
    \A s \in Sha \ {NoSha} : \E p \in published :
      p[1] >= localVersion /\ local[s] = p[2][s]

\* Nothing gets into the local database that the server did not publish, however
\* the download was damaged and however updates and restarts interleave.
OnlyPublished ==
  \A s \in Sha :
    \/ local[s] = NoDef
    \/ s = Seed /\ local[s] = SeedDef
    \/ \E p \in published : local[s] = p[2][s]

\* A version is given to one list only, so that equal versions mean equal lists.
VersionNamesOneList ==
  Versioned => \A p, q \in published : p[1] = q[1] => p[2] = q[2]

\* The build that can be downloaded is the one the manifest's signature is of, with
\* whatever key, although build and key files change under the running server.
OfferVerifies ==
  running /\ app_signature # NoFile =>
    \E key \in Key : Verifies(key, AppDownload, app_signature)

\* What a manifest says stands for what is then downloaded: its version for one
\* list, and its signature for one build.
VersionInv == TypeOK /\ VersionNamesOneList /\ OfferVerifies

\* A client that keeps asking gets the server's signatures once the administrator
\* is done, in spite of failing requests and damaged downloads.
CatchesUp ==
  may \subseteq {"damaged", "emptySha"} =>
    <>[](\A s \in Listed(srv) \ {NoSha} : local[s] = srv[s])
=============================================================================
