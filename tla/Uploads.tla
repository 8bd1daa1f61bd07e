------------------------------ MODULE Uploads ------------------------------
(***************************************************************************)
(* What a creator uploads before registering on the chain: PinFile pins a  *)
(* media file with Pinata and stores it in S3 or in ./uploads, PinToIPFS   *)
(* pins the metadata that name it (internal/content).  When Pinata does    *)
(* not answer, both make an identifier up, and nobody can tell: what the   *)
(* pipeline makes of it is part of this module, and so is the server that  *)
(* serves the uploads (module Startup), whose start sets the store up and  *)
(* whose end interrupts them.                                              *)
(***************************************************************************)
EXTENDS Startup

CONSTANTS
    Media,      \* files to upload: their bytes and extension, thus their name
    Metadata,   \* metadata to upload
    MediaOf,    \* the file each of them names
    NoItem,     \* what an idle request uploads
    Uploaders,  \* requests served at the same time
    Tries,      \* attempts at pinning: 3
    Size        \* writes it takes to copy a file to the disk

ASSUME UploadAssumption ==
    /\ Media \cap Metadata = {}
    /\ NoItem \notin Media \cup Metadata
    /\ MediaOf \in [Metadata -> Media]
    /\ Tries \in Nat \ {0}
    /\ Size \in Nat \ {0}

Item == Media \cup Metadata

VARIABLES
    config,    \* local: no S3 keys are set; jwt: Pinata's token is set
    bucket,    \* whether the bucket exists
    object,    \* the writes of each file that are in its object
    ipfs,      \* what Pinata has pinned
    upload,    \* what each request is doing
    urls,      \* files whose URL has been answered
    cids,      \* identifiers answered for metadata: "pinned" or "mock"
    chain,     \* identifier each metadata was registered with, or "none"
    row,       \* the record made of it: "full", "degraded" or "absent"
    torn       \* history: files of which a copy was interrupted

answers == <<urls, cids>>
registry == <<chain, row>>
uploadVars == <<config, bucket, object, ipfs, upload, answers, registry, torn>>
serverVars == <<vars, uploadVars>>

NoUpload == [at |-> "idle", item |-> NoItem, count |-> 0]

Whole == 1..Size

UploadInit ==
    /\ Init
    /\ config \in [local : BOOLEAN, jwt : BOOLEAN]
    /\ bucket = FALSE
    /\ object = [f \in Media |-> {}]
    /\ ipfs = {}
    /\ upload = [u \in Uploaders |-> NoUpload]
    /\ urls = {} /\ cids = {}
    /\ chain = [m \in Metadata |-> "none"]
    /\ row = [m \in Metadata |-> "absent"]
    /\ torn = {}

Set(u, at, item, count) ==
    upload' = [upload EXCEPT ![u] = [at |-> at, item |-> item, count |-> count]]

End(u) == upload' = [upload EXCEPT ![u] = NoUpload]

At(u, at) == upload[u].at = at
ItemOf(u) == upload[u].item

Copying == {ItemOf(u) : u \in {u \in Uploaders : At(u, "copy")}}

-----------------------------------------------------------------------------
(* Pinning                                                                 *)

Free(u) == pc = "serving" /\ At(u, "idle")

\* PinFile; without a token the file is stored only.
PinFile(u, f) ==
    /\ Free(u)
    /\ Set(u, IF config.jwt THEN "pin" ELSE "store", f, 0)
    /\ UNCHANGED <<vars, config, bucket, object, ipfs, answers, registry, torn>>

\* PinToIPFS, of metadata that name a file already uploaded; without a token it
\* is an error.
PinToIPFS(u, m) ==
    /\ Free(u)
    /\ config.jwt
    /\ MediaOf[m] \in urls
    /\ Set(u, "pin", m, 0)
    /\ UNCHANGED <<vars, config, bucket, object, ipfs, answers, registry, torn>>

\* After the last attempt: a file goes to the store, metadata are answered.
Pinned(u, cid) ==
    IF ItemOf(u) \in Media
    THEN Set(u, "store", ItemOf(u), 0) /\ UNCHANGED cids
    ELSE End(u) /\ cids' = cids \cup {<<ItemOf(u), cid>>}

Attempt(u) ==
    /\ At(u, "pin")
    /\ ipfs' = ipfs \cup {ItemOf(u)}
    /\ Pinned(u, "pinned")
    /\ UNCHANGED <<vars, config, bucket, object, urls, registry, torn>>

\* Mutant: what could not be pinned is answered like the rest.
AttemptFailsUnmarked(u) ==
    /\ At(u, "pin")
    /\ ipfs' \in {ipfs, ipfs \cup {ItemOf(u)}}
    /\ IF upload[u].count + 1 = Tries
       THEN Pinned(u, "pinned")
       ELSE Set(u, "pin", ItemOf(u), upload[u].count + 1) /\ UNCHANGED cids
    /\ UNCHANGED <<vars, config, bucket, object, urls, registry, torn>>

\* No answer in time, although it may be pinned, or an error: tried again, and
\* after the last time the identifier is made up.
AttemptFails(u) ==
    /\ At(u, "pin")
    /\ ipfs' \in {ipfs, ipfs \cup {ItemOf(u)}}
    /\ IF upload[u].count + 1 = Tries
       THEN Pinned(u, "mock")
       ELSE Set(u, "pin", ItemOf(u), upload[u].count + 1) /\ UNCHANGED cids
    /\ UNCHANGED <<vars, config, bucket, object, urls, registry, torn>>

\* Pinned, but the answer cannot be read: no other attempt, and an error for
\* metadata.
AnswerUnreadable(u) ==
    /\ At(u, "pin")
    /\ ipfs' = ipfs \cup {ItemOf(u)}
    /\ IF ItemOf(u) \in Media THEN Set(u, "store", ItemOf(u), 0) ELSE End(u)
    /\ UNCHANGED <<vars, config, bucket, object, answers, registry, torn>>

-----------------------------------------------------------------------------
(* Storing a file                                                          *)

\* PutObject: the object is replaced as a whole, and is not without its bucket.
PutObject(u) ==
    /\ At(u, "store")
    /\ ~config.local
    /\ bucket
    /\ object' = [object EXCEPT ![ItemOf(u)] = Whole]
    /\ urls' = urls \cup {ItemOf(u)}
    /\ End(u)
    /\ UNCHANGED <<vars, config, bucket, ipfs, cids, registry, torn>>

\* Mutant: the URL is answered although the store refused the file.
PutObjectFailsUnseen(u) ==
    /\ At(u, "store")
    /\ ~config.local
    /\ urls' = urls \cup {ItemOf(u)}
    /\ End(u)
    /\ UNCHANGED <<vars, config, bucket, object, ipfs, cids, registry, torn>>

\* An error; the file stays pinned.
PutObjectFails(u) ==
    /\ At(u, "store")
    /\ ~config.local
    /\ End(u)
    /\ UNCHANGED <<vars, config, bucket, object, ipfs, answers, registry, torn>>

\* os.Create empties a file that exists under the name.
CreateFile(u) ==
    /\ At(u, "store")
    /\ config.local
    /\ object' = [object EXCEPT ![ItemOf(u)] = {}]
    /\ Set(u, "copy", ItemOf(u), 0)
    /\ UNCHANGED <<vars, config, bucket, ipfs, answers, registry, torn>>

\* io.Copy, write by write, each at its own place in the file.
Copy(u) ==
    /\ At(u, "copy")
    /\ upload[u].count < Size
    /\ object' = [object EXCEPT ![ItemOf(u)] = @ \cup {upload[u].count + 1}]
    /\ Set(u, "copy", ItemOf(u), upload[u].count + 1)
    /\ UNCHANGED <<vars, config, bucket, ipfs, answers, registry, torn>>

Copied(u) ==
    /\ At(u, "copy")
    /\ upload[u].count = Size
    /\ urls' = urls \cup {ItemOf(u)}
    /\ End(u)
    /\ UNCHANGED <<vars, config, bucket, object, ipfs, cids, registry, torn>>

\* The disk is full: an error, and what was written stays.
CopyFails(u) ==
    /\ At(u, "copy")
    /\ Fault
    /\ torn' = torn \cup {ItemOf(u)}
    /\ End(u)
    /\ UNCHANGED <<pc, pings, up, stores, seen, step>>
    /\ UNCHANGED <<config, bucket, object, ipfs, answers, registry>>

-----------------------------------------------------------------------------
(* Registration                                                            *)

\* The creator registers on the chain, once, with an identifier answered.
RegisterOnChain(m) ==
    /\ chain[m] = "none"
    /\ \E cid \in {"pinned", "mock"} :
         /\ <<m, cid>> \in cids
         /\ chain' = [chain EXCEPT ![m] = cid]
    /\ UNCHANGED <<vars, config, bucket, object, ipfs, upload, answers, row, torn>>

\* What a gateway serves: nothing under an identifier that was made up, even if
\* the same metadata have been pinned since.
Served(m) == chain[m] = "pinned" /\ m \in ipfs

\* fetchMetadata and what processEvent records: without metadata the content is
\* an image with no media, no address for notices and no use for training.
Process(m) ==
    /\ pc = "serving"
    /\ chain[m] # "none" /\ row[m] = "absent"
    /\ \/ /\ Served(m)
          /\ row' = [row EXCEPT ![m] = "full"]
          /\ UNCHANGED faults
       \/ /\ IF Served(m) THEN Fault ELSE UNCHANGED faults
          /\ row' = [row EXCEPT ![m] = "degraded"]
    /\ UNCHANGED <<pc, pings, up, stores, seen, step>>
    /\ UNCHANGED <<config, bucket, object, ipfs, upload, answers, chain, torn>>

-----------------------------------------------------------------------------
(* The server                                                              *)

\* InitStorageProvider: a bucket that cannot be created is no error, and is not
\* tried again before the next start.
InitStorage ==
    IF config.local THEN UNCHANGED bucket ELSE bucket' \in {bucket, TRUE}

\* The server starts or stops.  Uploads end with it.
ServerStep ==
    /\ Next
    /\ IF pc # "serving" /\ pc' = "serving" THEN InitStorage ELSE UNCHANGED bucket
    /\ IF pc' = "serving" THEN UNCHANGED <<upload, torn>>
       ELSE /\ upload' = [u \in Uploaders |-> NoUpload]
            /\ torn' = torn \cup Copying
    /\ UNCHANGED <<config, object, ipfs, answers, registry>>

UploadStep(u) ==
    \/ \E f \in Media : PinFile(u, f)
    \/ \E m \in Metadata : PinToIPFS(u, m)
    \/ Attempt(u) \/ AttemptFails(u) \/ AnswerUnreadable(u)
    \/ PutObject(u) \/ PutObjectFails(u)
    \/ CreateFile(u) \/ Copy(u) \/ Copied(u) \/ CopyFails(u)

UploadNext ==
    \/ ServerStep
    \/ \E u \in Uploaders : UploadStep(u)
    \/ \E m \in Metadata : RegisterOnChain(m) \/ Process(m)

UploadSpec == UploadInit /\ [][UploadNext]_serverVars

FairUploadSpec == UploadSpec /\ WF_serverVars(ServerStep /\ StartStep)

-----------------------------------------------------------------------------
(* Properties                                                              *)

\* Type invariant of the uploads, of the stores they go to and of the records.
UploadTypeOK ==
    /\ config \in [local : BOOLEAN, jwt : BOOLEAN]
    /\ bucket \in BOOLEAN
    /\ object \in [Media -> SUBSET Whole]
    /\ ipfs \subseteq Item
    /\ upload \in [Uploaders -> [at : {"idle", "pin", "store", "copy"},
                                 item : Item \cup {NoItem}, count : Nat]]
    /\ \A u \in Uploaders :
         /\ At(u, "idle") \/ pc # "serving" => upload[u] = NoUpload
         /\ At(u, "pin") => ItemOf(u) \in Item
         /\ At(u, "store") => ItemOf(u) \in Media
         /\ At(u, "copy") => ItemOf(u) \in Media /\ upload[u].count <= Size /\ config.local
    /\ urls \subseteq Media
    /\ cids \subseteq Metadata \X {"pinned", "mock"}
    /\ chain \in [Metadata -> {"none", "pinned", "mock"}]
    /\ row \in [Metadata -> {"absent", "full", "degraded"}]
    /\ torn \subseteq Media

\* A URL that was answered names the whole file from then on, with S3 always.
\* On the disk an upload of the same file empties it first: it is not whole
\* while one is under way, nor after one was interrupted.
UrlNamesWholeFile ==
    \A f \in urls :
        object[f] # Whole => config.local /\ f \in Copying \cup torn

\* A content loses its metadata only if its creator was answered an identifier
\* that was made up, or if the gateways failed.
DegradedOnlyIfMock ==
    \A m \in Metadata :
        row[m] = "degraded" => chain[m] = "mock" \/ faults < MaxFaults
=============================================================================
