-------------------------------- MODULE PodCA --------------------------------
(***************************************************************************)
(* The pod's certificate authority (internal/pki/provider.go): the private *)
(* key and certificate kept in one volume of the pod, the public copy in   *)
(* another.  The files survive the process; the process may die between    *)
(* two of them.  A CA is a number, a file holds the CA it belongs to, and  *)
(* NoCA is an absent file.  A file is written to a temporary name and      *)
(* renamed, so it is never torn.                                           *)
(***************************************************************************)
EXTENDS Naturals

CONSTANTS NoCA, MaxCAs

ASSUME NoCAAssumption == NoCA \notin Nat

VARIABLES
    disk,      \* the files: key, cert and pub
    minted,    \* how many CAs were ever generated
    capc,      \* where NewPodCAProvider is
    held       \* the CA the provider signs with

caVars == <<disk, minted, capc, held>>

CAs == 1 .. MaxCAs

CAInit ==
    /\ disk = [key |-> NoCA, cert |-> NoCA, pub |-> NoCA]
    /\ minted = 0
    /\ capc = "off"
    /\ held = NoCA

\* Both private files: load.  Neither: generate.  One: fatal.
NewPodCAProvider ==
    /\ capc = "stat"
    /\ capc' = IF NoCA \notin {disk.key, disk.cert} THEN "load"
               ELSE IF disk.key = NoCA /\ disk.cert = NoCA THEN "generate"
               ELSE "failed"
    /\ UNCHANGED <<disk, minted, held>>

\* Mutant of VerifyPublicCopy: a missing public copy is written again.
VerifyPublicCopyMissing == disk.pub \in {NoCA, disk.cert}

VerifyPublicCopy == disk.pub = disk.cert

\* The key belongs to the certificate, and the public copy is the same.
LoadCA ==
    /\ capc = "load"
    /\ IF disk.key = disk.cert /\ VerifyPublicCopy
       THEN capc' = "ready" /\ held' = disk.cert
       ELSE capc' = "failed" /\ UNCHANGED held
    /\ UNCHANGED <<disk, minted>>

\* A key and a certificate in memory; the three files follow one by one.
GenerateCA ==
    /\ capc = "generate" /\ minted < MaxCAs
    /\ minted' = minted + 1
    /\ capc' = "key"
    /\ UNCHANGED <<disk, held>>

AtomicWriteFile(f) == disk' = [disk EXCEPT ![f] = minted]

PersistKey ==
    /\ capc = "key" /\ capc' = "cert"
    /\ AtomicWriteFile("key")
    /\ UNCHANGED <<minted, held>>

PersistCert ==
    /\ capc = "cert" /\ capc' = "pub"
    /\ AtomicWriteFile("cert")
    /\ UNCHANGED <<minted, held>>

PersistPublic ==
    /\ capc = "pub" /\ capc' = "ready"
    /\ AtomicWriteFile("pub")
    /\ held' = minted
    /\ UNCHANGED minted

\* An unreadable, expired or unwritable file, at any step, is fatal.
CAFault ==
    /\ capc \in {"stat", "load", "generate", "key", "cert", "pub"}
    /\ capc' = "failed"
    /\ UNCHANGED <<disk, minted, held>>

CAStep ==
    \/ NewPodCAProvider \/ LoadCA \/ GenerateCA
    \/ PersistKey \/ PersistCert \/ PersistPublic

CATypeOK ==
    /\ disk \in [key : CAs \cup {NoCA}, cert : CAs \cup {NoCA}, pub : CAs \cup {NoCA}]
    /\ minted \in 0 .. MaxCAs
    /\ held \in CAs \cup {NoCA}
=============================================================================
