------------------------ MODULE SignatureUpdateProofs ------------------------
(***************************************************************************)
(* Proofs, for any signatures, clients and bound on versions, that what a  *)
(* manifest says stands for what is downloaded, that nothing unpublished   *)
(* gets into the local database, and that no local signature is older than *)
(* the recorded version.                                                   *)
(*                                                                         *)
(* The last is the deep one. Nothing is ever deleted on the server, so     *)
(* lists only grow with the version (Growing). When an update records its  *)
(* version, a local signature that its list does not have can then only    *)
(* come from a newer list, left by an update that was cut short.           *)
(***************************************************************************)
EXTENDS SignatureUpdate, TLAPS

Active(c) == pc[c] # "idle"

\* There is room for the version that the administrator's change will get.
BumpFits == admin = "bump" => ServedVersion < MaxVersion

\* The signature is of the build that the server holds, running or not.
SignedOffer ==
  app_signature # NoFile => \E key \in Key : app_signature = SignEd25519(key, app)

PublishedTyped == published \subseteq (1..MaxVersion) \X List

\* An update carries the version and the hash of one published list.
CarriesPublished ==
  \A c \in Client :
    Active(c) => \E list \in List : /\ <<version[c], list>> \in published
                                    /\ expected[c] = ComputeSha256Bytes(list)

\* What the server has published is no newer and no longer than what it serves.
Growing ==
  /\ srv[Seed] = SeedDef
  /\ \A p \in published :
       /\ p[1] <= ServedVersion
       /\ admin = "idle" /\ p[1] = ServedVersion => p[2] = srv
       /\ Listed(p[2]) \subseteq Listed(srv)
       /\ p[2][Seed] = SeedDef
       /\ \A q \in published :
            /\ p[1] = q[1] => p[2] = q[2]
            /\ p[1] <= q[1] => Listed(p[2]) \subseteq Listed(q[2])

\* The one update there is has the local database to itself and moves it forward.
Forward ==
  /\ \A c, d \in Client : Active(c) /\ Active(d) => c = d
  /\ localVersion <= ServedVersion
  /\ \A c \in Client :
       /\ Active(c) => localVersion <= version[c]
       /\ pc[c] = "apply" =>
            \A s \in Listed(body[c]) \ ({NoSha} \cup todo[c]) : local[s] = body[c][s]

Local == OnlyPublished /\ NeverOlderThanVersion

IInv ==
  /\ TypeOK /\ BumpFits /\ SignedOffer
  /\ PublishedTyped /\ CarriesPublished
  /\ Versioned => Growing /\ Forward
  /\ Local

-----------------------------------------------------------------------------
LEMMA ListOK ==
  /\ Blank \in List
  /\ \A list \in List : /\ Open(list) = Seeded(list) /\ Seeded(list) \in List
                        /\ Seeded(list)[Seed] = SeedDef
                        /\ \A s \in Sha \ {Seed} : Seeded(list)[s] = list[s]
  /\ Open(NoFile) = Seeded(Blank)
BY SignatureUpdateAssumption DEF Blank, List, Slot, Open, Seeded

LEMMA HashOfList ==
  ASSUME NEW a, NEW b
  PROVE  ComputeSha256Bytes(a) = ComputeSha256Bytes(b) <=> a = b
BY DEF ComputeSha256Bytes

\* The list that an update applies is published under the update's version.
LEMMA AppliesPublished ==
  ASSUME IInv, NEW c \in Client, pc[c] = "apply"
  PROVE  <<version[c], body[c]>> \in published /\ body[c] \in List
<1>1. PICK list \in List : /\ <<version[c], list>> \in published
                           /\ expected[c] = ComputeSha256Bytes(list)
  BY DEF IInv, CarriesPublished, Active
<1>2. ComputeSha256Bytes(body[c]) = ComputeSha256Bytes(list)
  BY <1>1 DEF IInv, TypeOK
<1>3. body[c] = list
  BY <1>2, HashOfList
<1> QED
  BY <1>1, <1>3

LEMMA EndsTyped ==
  ASSUME TypeOK, NEW c \in Client, Ends(c), UNCHANGED <<may, serverVars, local>>,
         localVersion' \in 0..MaxVersion
  PROVE  /\ TypeOK'
         /\ pc'[c] = "idle"
         /\ \A d \in Client \ {c} :
              UNCHANGED <<pc[d], version[d], expected[d], body[d], todo[d]>>
<1> USE DEF TypeOK
<1>1. /\ pc' = [pc EXCEPT ![c] = "idle"]
      /\ version' = [version EXCEPT ![c] = 0]
      /\ expected' = [expected EXCEPT ![c] = ComputeSha256Bytes(Blank)]
      /\ body' = [body EXCEPT ![c] = Blank]
      /\ todo' = [todo EXCEPT ![c] = {}]
  BY DEF Ends, Goes
<1>2. /\ Blank \in List
      /\ ComputeSha256Bytes(Blank) \in {"sha256"} \X List
  BY ListOK DEF ComputeSha256Bytes
<1>3. 0 \in 0..MaxVersion
  BY SignatureUpdateAssumption
<1>4. /\ pc' \in [Client -> {"idle", "compare", "download", "apply"}]
      /\ version' \in [Client -> 0..MaxVersion]
      /\ expected' \in [Client -> {"sha256"} \X List] /\ body' \in [Client -> List]
      /\ todo' \in [Client -> SUBSET Sha]
  BY <1>1, <1>2, <1>3
<1>5. \A d \in Client \ {c} :
        UNCHANGED <<pc[d], version[d], expected[d], body[d], todo[d]>>
  BY <1>1
<1>6. pc'[c] = "idle"
  BY <1>1
<1>7. \A d \in Client : pc'[d] = "apply" =>
        ComputeSha256Bytes(body'[d]) = expected'[d] /\ todo'[d] \subseteq Listed(body'[d])
  BY <1>5, <1>6
<1> QED
  BY <1>4, <1>5, <1>6, <1>7 DEF serverVars, appVars

-----------------------------------------------------------------------------
(* The server                                                              *)

\* Without a step of an update, or of the list, only the offer is in question.
LEMMA UpdatesUntouched ==
  ASSUME IInv,
         UNCHANGED <<may, srvVersion, localVars, clientVars, published>>,
         TypeOK', SignedOffer', BumpFits',
         Versioned => UNCHANGED <<srv, admin>>
  PROVE  IInv'
<1> USE DEF IInv, localVars, clientVars
<1>1. PublishedTyped' /\ CarriesPublished'
  BY DEF PublishedTyped, CarriesPublished, Active
<1>2. (Versioned => Growing /\ Forward)'
  BY DEF Versioned, Growing, Forward, Active, ServedVersion
<1>3. Local'
  BY DEF Local, OnlyPublished, NeverOlderThanVersion, Versioned
<1> QED
  BY <1>1, <1>2, <1>3

LEMMA ServerKeeps ==
  ASSUME IInv,
         \/ AdminUpsert \/ AdminBump \/ AdminFails
         \/ ServerEnds \/ ServerStarts \/ GenKey \/ Rebuilds
  PROVE  IInv'
<1> USE SignatureUpdateAssumption DEF IInv, TypeOK
<1>1. CASE AdminUpsert
  <2>1. PICK s \in Sha, d \in Def : /\ s # Seed \/ "seedEdited" \in may
                                    /\ srv' = [srv EXCEPT ![s] = d]
    BY <1>1 DEF AdminUpsert
  <2>2. /\ UNCHANGED <<may, srvVersion, appVars, localVars, clientVars, published>>
        /\ admin = "idle" /\ admin' = "bump" /\ ServedVersion < MaxVersion
        /\ ServedVersion' = ServedVersion
    BY <1>1 DEF AdminUpsert, ServedVersion
  <2>3. srv' \in List /\ d # NoDef
    BY <2>1 DEF List, Slot
  <2>4. TypeOK' /\ BumpFits' /\ SignedOffer'
    BY <2>2, <2>3 DEF BumpFits, SignedOffer, appVars, localVars, clientVars
  <2>5. PublishedTyped' /\ CarriesPublished'
    BY <2>2 DEF PublishedTyped, CarriesPublished, Active, clientVars
  <2>6. (Versioned => Growing)'
    <3> SUFFICES ASSUME Versioned PROVE Growing'
      BY <2>2 DEF Versioned
    <3>1. srv'[Seed] = SeedDef
      BY <2>1 DEF Versioned, Growing, List
    <3>2. Listed(srv) \subseteq Listed(srv')
      BY <2>1, <2>3 DEF Listed, List
    <3> QED
      BY <2>2, <3>1, <3>2 DEF Growing
  <2>7. (Versioned => Forward)'
    BY <2>2 DEF Versioned, Forward, Active, localVars, clientVars
  <2>8. Local'
    BY <2>2 DEF Local, OnlyPublished, NeverOlderThanVersion, Versioned, localVars
  <2> QED
    BY <2>4, <2>5, <2>6, <2>7, <2>8
<1>2. CASE AdminBump
  <2>1. /\ UNCHANGED <<may, srv, appVars, localVars, clientVars, published>>
        /\ srvVersion' = ServedVersion + 1 /\ admin' = "idle"
        /\ ServedVersion < MaxVersion /\ ServedVersion \in 1..MaxVersion
    BY <1>2 DEF AdminBump, BumpFits, ServedVersion
  <2>2. srvVersion' \in 0..MaxVersion /\ ServedVersion' = ServedVersion + 1
    BY <2>1 DEF ServedVersion
  <2>3. TypeOK' /\ BumpFits' /\ SignedOffer'
    BY <2>1, <2>2 DEF BumpFits, SignedOffer, appVars, localVars, clientVars
  <2>4. PublishedTyped' /\ CarriesPublished'
    BY <2>1 DEF PublishedTyped, CarriesPublished, Active, clientVars
  <2>5. (Versioned => Growing)'
    <3> SUFFICES ASSUME Versioned PROVE Growing'
      BY <2>1 DEF Versioned
    <3>1. ASSUME NEW p \in published
          PROVE  p[1] <= ServedVersion' /\ p[1] # ServedVersion'
      <4>1. p[1] \in 1..MaxVersion /\ p[1] <= ServedVersion
        BY <3>1 DEF PublishedTyped, Growing
      <4> QED
        BY <4>1, <2>1, <2>2
    <3> QED
      BY <2>1, <3>1 DEF Growing
  <2>6. (Versioned => Forward)'
    BY <2>1, <2>2 DEF Versioned, Forward, Active, localVars, clientVars
  <2>7. Local'
    BY <2>1 DEF Local, OnlyPublished, NeverOlderThanVersion, Versioned, localVars
  <2> QED
    BY <2>3, <2>4, <2>5, <2>6, <2>7
<1>3. CASE AdminFails
  <2>1. TypeOK' /\ BumpFits' /\ SignedOffer'
    BY <1>3 DEF AdminFails, BumpFits, SignedOffer, appVars, localVars, clientVars
  <2> QED
    BY <1>3, <2>1, UpdatesUntouched DEF AdminFails, Versioned
<1>4. CASE ServerEnds
  <2>1. TypeOK' /\ BumpFits' /\ SignedOffer'
    BY <1>4 DEF ServerEnds, BumpFits, SignedOffer, localVars, clientVars
  <2> QED
    BY <1>4, <2>1, UpdatesUntouched DEF ServerEnds, Versioned
<1>5. CASE ServerStarts
  <2>1. srv' = Seeded(srv) /\ srv' \in List
    BY <1>5, ListOK DEF ServerStarts
  <2>2. SignedOffer' /\ app' \in Build \cup {NoFile}
                     /\ app_signature' \in Signature \cup {NoFile}
    BY <1>5 DEF ServerStarts, SignedOffer, SignEd25519, Signature
  <2>3. TypeOK' /\ BumpFits'
    BY <1>5, <2>1, <2>2
       DEF ServerStarts, BumpFits, ServedVersion, localVars, clientVars
  <2>4. Versioned => srv' = srv
    BY <2>1 DEF Growing, Seeded, List
  <2> QED
    BY <1>5, <2>2, <2>3, <2>4, UpdatesUntouched DEF ServerStarts
<1>6. CASE GenKey \/ Rebuilds
  <2>1. TypeOK' /\ BumpFits' /\ SignedOffer'
    BY <1>6 DEF GenKey, Rebuilds, BumpFits, ServedVersion, SignedOffer, localVars,
                clientVars
  <2> QED
    BY <1>6, <2>1, UpdatesUntouched DEF GenKey, Rebuilds
<1> QED
  BY <1>1, <1>2, <1>3, <1>4, <1>5, <1>6

-----------------------------------------------------------------------------
(* The updates                                                             *)

\* An update that ends with nothing recorded keeps everything.
LEMMA EndsKeeps ==
  ASSUME IInv, NEW c \in Client, Ends(c),
         UNCHANGED <<may, serverVars, localVars, published>>
  PROVE  IInv'
<1> USE DEF IInv
<1>1. /\ TypeOK' /\ pc'[c] = "idle"
      /\ \A d \in Client \ {c} :
           UNCHANGED <<pc[d], version[d], expected[d], body[d], todo[d]>>
  BY EndsTyped DEF TypeOK, localVars
<1>2. BumpFits' /\ SignedOffer' /\ PublishedTyped' /\ Local'
  BY DEF serverVars, appVars, localVars, BumpFits, SignedOffer, PublishedTyped, Local,
         OnlyPublished, NeverOlderThanVersion, Versioned, ServedVersion
<1>3. CarriesPublished'
  BY <1>1 DEF CarriesPublished, Active
<1>4. (Versioned => Growing)'
  BY DEF Versioned, Growing, ServedVersion, serverVars, appVars
<1>5. (Versioned => Forward)'
  <2> SUFFICES ASSUME Versioned PROVE Forward'
    BY DEF Versioned
  <2> QED
    BY <1>1 DEF Forward, Active, ServedVersion, serverVars, localVars
<1> QED
  BY <1>1, <1>2, <1>3, <1>4, <1>5

LEMMA ManifestKeeps ==
  ASSUME IInv, NEW c \in Client, GetManifest(c)
  PROVE  IInv'
<1> USE SignatureUpdateAssumption DEF IInv, TypeOK
<1>1. /\ pc[c] = "idle" /\ admin = "idle"
      /\ "concurrent" \in may \/ \A o \in Client : pc[o] = "idle"
      /\ local' = Seeded(local)
      /\ version' = [version EXCEPT ![c] = ServedVersion]
      /\ expected' = [expected EXCEPT ![c] = ComputeSha256Bytes(srv)]
      /\ published' = published \cup {<<ServedVersion, srv>>}
      /\ pc' = [pc EXCEPT ![c] = "compare"]
      /\ UNCHANGED <<may, serverVars, localVersion, body, todo>>
  BY ListOK DEF GetManifest, Goes
<1>2. local' \in List /\ ServedVersion \in 1..MaxVersion
  BY <1>1, ListOK DEF ServedVersion
<1>3. ComputeSha256Bytes(srv) \in {"sha256"} \X List
  BY DEF ComputeSha256Bytes
<1>4. TypeOK'
  BY <1>1, <1>2, <1>3 DEF serverVars, appVars
<1>5. BumpFits' /\ SignedOffer' /\ PublishedTyped' /\ ServedVersion' = ServedVersion
  BY <1>1, <1>2 DEF BumpFits, SignedOffer, PublishedTyped, ServedVersion, serverVars,
                    appVars
<1>6. CarriesPublished'
  BY <1>1 DEF CarriesPublished, Active
<1>7. (Versioned => Growing)'
  <2> SUFFICES ASSUME Versioned PROVE Growing'
    BY <1>1 DEF Versioned
  <2>1. ASSUME NEW p \in published
        PROVE  /\ p[1] \in Nat /\ p[1] <= ServedVersion
               /\ p[1] = ServedVersion => p[2] = srv
               /\ Listed(p[2]) \subseteq Listed(srv) /\ p[2][Seed] = SeedDef
    BY <1>1, <2>1 DEF Growing, PublishedTyped
  <2>2. srv[Seed] = SeedDef
    BY DEF Growing
  <2>3. UNCHANGED <<srv, admin, srvVersion>>
    BY <1>1 DEF serverVars
  <2>4. \A p \in published' : p \in published \/ (p[1] = ServedVersion /\ p[2] = srv)
    BY <1>1
  <2>5. ASSUME NEW p \in published', NEW q \in published'
        PROVE  /\ p[1] <= ServedVersion
               /\ p[1] = ServedVersion => p[2] = srv
               /\ Listed(p[2]) \subseteq Listed(srv) /\ p[2][Seed] = SeedDef
               /\ p[1] = q[1] => p[2] = q[2]
               /\ p[1] <= q[1] => Listed(p[2]) \subseteq Listed(q[2])
    <3>1. CASE p \in published /\ q \in published
      BY <2>1, <3>1 DEF Growing
    <3>2. CASE p \in published /\ q[1] = ServedVersion /\ q[2] = srv
      BY <2>1, <3>2
    <3>3. CASE p[1] = ServedVersion /\ p[2] = srv /\ q \in published
      <4>1. q[1] \in Nat /\ q[1] <= ServedVersion /\ (q[1] = ServedVersion => q[2] = srv)
        BY <2>1, <3>3
      <4>2. p[1] <= q[1] => q[1] = ServedVersion
        <5>1. \A a, b \in Nat : a <= b /\ b <= a => b = a
          OBVIOUS
        <5>2. ServedVersion \in Nat
          BY <1>2
        <5> QED
          BY <3>3, <4>1, <5>1, <5>2, Zenon
      <4> QED
        BY <1>2, <2>2, <3>3, <4>1, <4>2
    <3>4. CASE p[1] = ServedVersion /\ p[2] = srv /\ q[1] = ServedVersion /\ q[2] = srv
      BY <1>2, <2>2, <3>4
    <3> QED
      BY <2>4, <3>1, <3>2, <3>3, <3>4
  <2> QED
    BY <1>5, <2>2, <2>3, <2>5 DEF Growing
<1>8. (Versioned => Forward)'
  <2> SUFFICES ASSUME Versioned PROVE Forward'
    BY <1>1 DEF Versioned
  <2>1. \A o \in Client : pc[o] = "idle"
    BY <1>1 DEF Versioned
  <2> QED
    BY <1>1, <1>5, <2>1 DEF Forward, Active
<1>9. OnlyPublished'
  BY <1>1, ListOK DEF Local, OnlyPublished
<1>10. NeverOlderThanVersion'
  <2> SUFFICES ASSUME Versioned, localVersion # 0, NEW s \in Sha \ {NoSha}
               PROVE  \E p \in published : p[1] >= localVersion /\ local'[s] = p[2][s]
    BY <1>1 DEF Versioned, NeverOlderThanVersion
  <2>1. PICK p \in published : p[1] >= localVersion /\ local[s] = p[2][s]
    BY DEF Local, NeverOlderThanVersion
  <2>2. p[2][Seed] = SeedDef
    BY DEF Growing
  <2> QED
    BY <1>1, <2>1, <2>2, ListOK
<1> QED
  BY <1>4, <1>5, <1>6, <1>7, <1>8, <1>9, <1>10 DEF Local

LEMMA DownloadKeeps ==
  ASSUME IInv, NEW c \in Client, Download(c)
  PROVE  IInv'
<1> USE DEF IInv
<1>1. CASE Ends(c)
  BY <1>1, EndsKeeps DEF Download
<1>2. CASE ~Ends(c)
  <2>1. PICK list \in List :
          /\ ComputeSha256Bytes(list) = expected[c]
          /\ body' = [body EXCEPT ![c] = list]
          /\ todo' = [todo EXCEPT ![c] = Listed(list) \ {NoSha}]
    BY <1>2 DEF Download, TypeOK
  <2>2. /\ pc[c] = "download"
        /\ pc' = [pc EXCEPT ![c] = "apply"]
        /\ UNCHANGED <<may, serverVars, localVars, published, version, expected>>
    BY <1>2 DEF Download, Goes
  <2>3. Listed(list) \subseteq Sha
    BY DEF Listed
  <2>4. TypeOK'
    BY <2>1, <2>2, <2>3 DEF TypeOK, serverVars, appVars, localVars
  <2>5. BumpFits' /\ SignedOffer' /\ PublishedTyped' /\ Local'
    BY <2>2 DEF serverVars, appVars, localVars, BumpFits, SignedOffer, PublishedTyped,
                Local, OnlyPublished, NeverOlderThanVersion, Versioned, ServedVersion
  <2>6. CarriesPublished'
    BY <2>2 DEF CarriesPublished, Active, TypeOK
  <2>7. (Versioned => Growing)'
    BY <2>2 DEF Versioned, Growing, ServedVersion, serverVars
  <2>8. (Versioned => Forward)'
    <3> SUFFICES ASSUME Versioned PROVE Forward'
      BY <2>2 DEF Versioned
    <3>1. Listed(body'[c]) \ ({NoSha} \cup todo'[c]) = {}
      BY <2>1 DEF TypeOK
    <3>2. \A d \in Client \ {c} : UNCHANGED <<pc[d], body[d], todo[d]>>
      BY <2>1, <2>2 DEF TypeOK
    <3>3. \A d \in Client : Active(d)' <=> Active(d)
      BY <2>2 DEF Active, TypeOK
    <3> QED
      BY <2>2, <3>1, <3>2, <3>3 DEF Forward, ServedVersion, serverVars, localVars
  <2> QED
    BY <2>4, <2>5, <2>6, <2>7, <2>8
<1> QED
  BY <1>1, <1>2

LEMMA UpsertKeeps ==
  ASSUME IInv, NEW c \in Client, Upsert(c)
  PROVE  IInv'
<1> USE DEF IInv, TypeOK
<1>1. PICK s \in todo[c] : /\ local' = [local EXCEPT ![s] = body[c][s]]
                           /\ todo' = [todo EXCEPT ![c] = @ \ {s}]
  BY DEF Upsert
<1>2. /\ pc[c] = "apply"
      /\ UNCHANGED <<may, serverVars, localVersion, pc, version, expected, body,
                     published>>
  BY DEF Upsert
<1>3. <<version[c], body[c]>> \in published /\ body[c] \in List /\ s \in Sha
  BY <1>2, AppliesPublished
<1>4. local' \in List
  BY <1>1, <1>3 DEF List
<1>5. TypeOK'
  BY <1>1, <1>2, <1>4 DEF serverVars, appVars
<1>6. BumpFits' /\ SignedOffer' /\ PublishedTyped' /\ CarriesPublished'
  BY <1>2 DEF serverVars, appVars, BumpFits, SignedOffer, PublishedTyped, ServedVersion,
              CarriesPublished, Active
<1>7. (Versioned => Growing)'
  BY <1>2 DEF Versioned, Growing, ServedVersion, serverVars
<1>8. (Versioned => Forward)'
  <2> SUFFICES ASSUME Versioned PROVE Forward'
    BY <1>2 DEF Versioned
  <2>1. \A d \in Client : pc[d] = "apply" => d = c
    BY <1>2 DEF Forward, Active
  <2>2. \A t \in Listed(body[c]) \ ({NoSha} \cup todo'[c]) : local'[t] = body[c][t]
    BY <1>1, <1>2, <1>3 DEF Forward, Listed, List
  <2> QED
    BY <1>2, <2>1, <2>2 DEF Forward, Active, ServedVersion, serverVars
<1>9. OnlyPublished'
  BY <1>1, <1>2, <1>3 DEF Local, OnlyPublished, List
<1>10. NeverOlderThanVersion'
  <2> SUFFICES ASSUME Versioned, localVersion # 0, NEW t \in Sha \ {NoSha}
               PROVE  \E p \in published : p[1] >= localVersion /\ local'[t] = p[2][t]
    BY <1>2 DEF Versioned, NeverOlderThanVersion
  <2>1. localVersion <= version[c]
    BY <1>2 DEF Forward, Active
  <2>2. CASE t = s
    BY <1>1, <1>3, <2>1, <2>2 DEF List
  <2>3. CASE t # s
    BY <1>1, <2>3 DEF Local, NeverOlderThanVersion, List
  <2> QED
    BY <2>2, <2>3
<1> QED
  BY <1>5, <1>6, <1>7, <1>8, <1>9, <1>10 DEF Local

LEMMA RecordKeeps ==
  ASSUME IInv, NEW c \in Client, RecordVersion(c)
  PROVE  IInv'
<1> USE DEF IInv
<1>1. /\ pc[c] = "apply" /\ todo[c] = {}
      /\ localVersion' = version[c] /\ Ends(c)
      /\ UNCHANGED <<may, serverVars, local, published>>
  BY DEF RecordVersion
<1>2. <<version[c], body[c]>> \in published /\ body[c] \in List
  BY <1>1, AppliesPublished
<1>3. version[c] \in 1..MaxVersion
  BY <1>2 DEF PublishedTyped
<1>4. /\ TypeOK' /\ pc'[c] = "idle"
      /\ \A d \in Client \ {c} :
           UNCHANGED <<pc[d], version[d], expected[d], body[d], todo[d]>>
  BY <1>1, <1>3, EndsTyped, SignatureUpdateAssumption
<1>5. BumpFits' /\ SignedOffer' /\ PublishedTyped' /\ OnlyPublished'
  BY <1>1 DEF serverVars, appVars, BumpFits, SignedOffer, PublishedTyped, Local,
              OnlyPublished, ServedVersion
<1>6. CarriesPublished'
  BY <1>1, <1>4 DEF CarriesPublished, Active
<1>7. (Versioned => Growing)'
  BY <1>1 DEF Versioned, Growing, ServedVersion, serverVars
<1>8. (Versioned => Forward)'
  <2> SUFFICES ASSUME Versioned PROVE Forward'
    BY <1>1 DEF Versioned
  <2>1. \A d \in Client : ~Active(d)'
    BY <1>1, <1>4 DEF Forward, Active
  <2>2. version[c] <= ServedVersion
    BY <1>2 DEF Growing
  <2> QED
    BY <1>1, <2>1, <2>2 DEF Forward, Active, ServedVersion, serverVars
<1>9. NeverOlderThanVersion'
  <2> SUFFICES ASSUME Versioned, NEW s \in Sha \ {NoSha}
               PROVE  \E p \in published : p[1] >= version[c] /\ local[s] = p[2][s]
    BY <1>1 DEF Versioned, NeverOlderThanVersion
  <2>1. CASE s \in Listed(body[c])
    BY <1>1, <1>2, <1>3, <2>1 DEF Forward
  <2>2. CASE s \notin Listed(body[c]) /\ local[s] = NoDef
    BY <1>2, <1>3, <2>2 DEF Listed
  <2>3. CASE s \notin Listed(body[c]) /\ local[s] # NoDef
    <3>1. s # Seed
      BY <1>2, <2>3, SignatureUpdateAssumption DEF Growing, Listed
    <3>2. PICK p \in published : local[s] = p[2][s]
      BY <2>3, <3>1 DEF Local, OnlyPublished
    <3>3. ~(Listed(p[2]) \subseteq Listed(body[c]))
      BY <2>3, <3>2 DEF Listed
    <3>4. ~(p[1] <= version[c])
      BY <1>2, <3>3 DEF Growing
    <3> QED
      BY <1>3, <3>2, <3>4 DEF PublishedTyped
  <2> QED
    BY <2>1, <2>2, <2>3
<1> QED
  BY <1>4, <1>5, <1>6, <1>7, <1>8, <1>9 DEF Local

LEMMA UpdateKeeps ==
  ASSUME IInv, NEW c \in Client, UpdateStep(c) \/ RequestFails(c) \/ ClientDies(c)
  PROVE  IInv'
<1>1. CASE Compare(c) /\ ~Ends(c)
  <2>1. /\ pc[c] = "compare" /\ pc' = [pc EXCEPT ![c] = "download"]
        /\ UNCHANGED <<may, serverVars, localVars, published, version, expected, body,
                       todo>>
    BY <1>1 DEF Compare, Goes
  <2>2. TypeOK'
    BY <2>1 DEF IInv, TypeOK, serverVars, appVars, localVars
  <2>3. \A d \in Client : /\ Active(d)' <=> Active(d)
                          /\ (pc[d] = "apply")' <=> pc[d] = "apply"
    BY <2>1 DEF Active, IInv, TypeOK
  <2>4. BumpFits' /\ SignedOffer' /\ PublishedTyped' /\ CarriesPublished'
    BY <2>1, <2>3 DEF IInv, serverVars, appVars, BumpFits, SignedOffer, PublishedTyped,
                      CarriesPublished, ServedVersion
  <2>5. (Versioned => Growing /\ Forward)'
    BY <2>1, <2>3 DEF IInv, Versioned, Growing, Forward, ServedVersion, serverVars,
                      localVars
  <2>6. Local'
    BY <2>1 DEF IInv, Local, OnlyPublished, NeverOlderThanVersion, Versioned, localVars
  <2> QED
    BY <2>2, <2>4, <2>5, <2>6 DEF IInv
<1>2. CASE (Compare(c) \/ RequestFails(c) \/ ClientDies(c)) /\ Ends(c)
  BY <1>2, EndsKeeps DEF Compare, RequestFails, ClientDies
<1>3. RequestFails(c) \/ ClientDies(c) => Ends(c)
  BY DEF RequestFails, ClientDies
<1> QED
  BY <1>1, <1>2, <1>3, ManifestKeeps, DownloadKeeps, UpsertKeeps, RecordKeeps
     DEF UpdateStep

-----------------------------------------------------------------------------
(* The inductive invariant                                                 *)

LEMMA InitInv == Init => IInv
<1> SUFFICES ASSUME Init PROVE IInv
  OBVIOUS
<1> USE SignatureUpdateAssumption
<1>1. /\ srv \in List /\ local \in List /\ srv[Seed] = SeedDef
      /\ \A s \in Sha : local[s] = NoDef \/ (s = Seed /\ local[s] = SeedDef)
  BY ListOK DEF Init, Blank
<1>2. Blank \in List /\ ComputeSha256Bytes(Blank) \in {"sha256"} \X List
  BY ListOK DEF ComputeSha256Bytes
<1>3. TypeOK
  <2>1. may \subseteq Fault
    BY DEF Init
  <2> QED
    BY <1>1, <1>2, <2>1 DEF Init, TypeOK
<1>4. BumpFits /\ SignedOffer /\ PublishedTyped /\ CarriesPublished
  BY DEF Init, BumpFits, SignedOffer, PublishedTyped, CarriesPublished, Active
<1>5. Growing /\ Forward
  BY <1>1 DEF Init, Growing, Forward, Active, ServedVersion
<1>6. Local
  BY <1>1 DEF Init, Local, OnlyPublished, NeverOlderThanVersion
<1> QED
  BY <1>3, <1>4, <1>5, <1>6 DEF IInv

LEMMA NextInv == IInv /\ [Next]_vars => IInv'
<1> SUFFICES ASSUME IInv, [Next]_vars PROVE IInv'
  OBVIOUS
<1>1. CASE UNCHANGED vars
  <2>1. UNCHANGED <<may, serverVars, localVars, clientVars, published>>
    BY <1>1 DEF vars
  <2>2. TypeOK' /\ SignedOffer' /\ BumpFits'
    BY <2>1 DEF IInv, TypeOK, SignedOffer, BumpFits, ServedVersion, serverVars, appVars,
                localVars, clientVars
  <2> QED
    BY <2>1, <2>2, UpdatesUntouched DEF serverVars
<1>2. ASSUME NEW c \in Client, UpdateStep(c) \/ RequestFails(c) \/ ClientDies(c)
      PROVE  IInv'
  BY <1>2, UpdateKeeps
<1> QED
  BY <1>1, <1>2, ServerKeeps DEF Next

LEMMA Invariance == Spec => []IInv
BY InitInv, NextInv, PTL DEF Spec

-----------------------------------------------------------------------------
(* The theorems                                                            *)

\* A version names one list, and an offered signature is of the build that is
\* downloaded, whatever the server's files become while it runs.
THEOREM VersionsHold == Spec => []VersionInv
<1>1. IInv => VersionInv
  BY DEF IInv, VersionInv, VersionNamesOneList, Growing, OfferVerifies, SignedOffer,
         Verifies, AppDownload
<1> QED
  BY <1>1, Invariance, PTL

\* What the local database has, the server has published, whatever was damaged or cut
\* short, for any number of updates at a time.
THEOREM NothingElseGetsIn == Spec => []OnlyPublished
<1>1. IInv => OnlyPublished
  BY DEF IInv, Local
<1> QED
  BY <1>1, Invariance, PTL

\* No local signature is older than the recorded version, wherever updates are cut
\* short, as long as they run one at a time.
THEOREM VersionIsAPromise == Spec => []NeverOlderThanVersion
<1>1. IInv => NeverOlderThanVersion
  BY DEF IInv, Local
<1> QED
  BY <1>1, Invariance, PTL
==============================================================================
