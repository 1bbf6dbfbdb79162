--------------------------- MODULE ArtifactStore ---------------------------
(***************************************************************************)
(* LocalCasArtifacts: concurrent puts of one payload, the only puts that   *)
(* share files, as file system steps.  A name in a directory refers to an  *)
(* inode.  _atomic_write opens the temporary name (truncating the inode it *)
(* finds there, or making one), writes, and renames it over the path.  The *)
(* temporary name is derived from the path, so all writers of an artifact  *)
(* use the same one.  A process may die between any two steps.             *)
(***************************************************************************)
EXTENDS Integers, Sequences

CONSTANTS Putters, PutBound     \* processes, and a bound on the puts begun

Parts == <<"blob", "manifest">> \* put writes the blob, then the manifest
PartNames == {Parts[i] : i \in DOMAIN Parts}
NoInode == 0
Inodes == 1 .. (2 * PutBound)   \* a put creates at most two files

VARIABLES
  casPath,      \* per part: the inode of the final name
  casTmp,       \* per part: the inode of the temporary name
  casWhole,     \* the inodes whose content is complete
  casUsed,      \* the inodes made so far
  casPut,       \* per process: its step, its part, its open file, alone so far
  casBegun,     \* puts begun
  casOverlap,   \* two puts were under way at once (a history)
  casReturned   \* some put has returned the record (a history)

casVars == <<casPath, casTmp, casWhole, casUsed, casPut, casBegun, casOverlap, casReturned>>

NoPut == [at |-> "idle", part |-> 1, fd |-> NoInode, alone |-> TRUE]

CasInit ==
    /\ casPath = [n \in PartNames |-> NoInode]
    /\ casTmp = [n \in PartNames |-> NoInode]
    /\ casWhole = {} /\ casUsed = 0
    /\ casPut = [p \in Putters |-> NoPut]
    /\ casBegun = 0 /\ casOverlap = FALSE /\ casReturned = FALSE

Active(p) == casPut[p].at # "idle"
Part(p) == Parts[casPut[p].part]

PutBegin(p) ==
    /\ ~Active(p) /\ casBegun < PutBound
    /\ LET others == {q \in Putters : Active(q)}
       IN /\ casPut' = [q \in Putters |->
                IF q = p THEN [NoPut EXCEPT !.at = "look", !.alone = others = {}]
                ELSE [casPut[q] EXCEPT !.alone = @ /\ ~Active(q)]]
          /\ casOverlap' = (casOverlap \/ others # {})
    /\ casBegun' = casBegun + 1
    /\ UNCHANGED <<casPath, casTmp, casWhole, casUsed, casReturned>>

\* The blob is compared with its digest, the manifest only has to exist.
Present(n) == casPath[n] # NoInode /\ (n = "blob" => casPath[n] \in casWhole)

\* To the next part, or put returns its record.
PartDone(p) ==
    IF casPut[p].part < Len(Parts)
    THEN /\ casPut' = [casPut EXCEPT ![p].at = "look", ![p].part = @ + 1, ![p].fd = NoInode]
         /\ UNCHANGED casReturned
    ELSE /\ casPut' = [casPut EXCEPT ![p] = NoPut]
         /\ casReturned' = TRUE

PutLook(p) ==
    /\ casPut[p].at = "look"
    /\ IF Present(Part(p)) THEN PartDone(p)
       ELSE /\ casPut' = [casPut EXCEPT ![p].at = "open"]
            /\ UNCHANGED casReturned
    /\ UNCHANGED <<casPath, casTmp, casWhole, casUsed, casBegun, casOverlap>>

\* write_bytes: open with truncation, then the content.
PutOpen(p) ==
    /\ casPut[p].at = "open"
    /\ LET old == casTmp[Part(p)]
           new == IF old = NoInode THEN casUsed + 1 ELSE old
       IN /\ casTmp' = [casTmp EXCEPT ![Part(p)] = new]
          /\ casUsed' = IF old = NoInode THEN casUsed + 1 ELSE casUsed
          /\ casWhole' = casWhole \ {new}
          /\ casPut' = [casPut EXCEPT ![p].at = "write", ![p].fd = new]
    /\ UNCHANGED <<casPath, casBegun, casOverlap, casReturned>>

\* Mutant of PutWrite: a temporary file an earlier put left is unlinked once it
\* is written.
DropsLeftover(p) ==
    /\ casPut[p].at = "write"
    /\ casWhole' = casWhole \cup {casPut[p].fd}
    /\ casTmp' = IF casPut[p].fd < casUsed THEN [casTmp EXCEPT ![Part(p)] = NoInode] ELSE casTmp
    /\ casPut' = [casPut EXCEPT ![p].at = "replace"]
    /\ UNCHANGED <<casPath, casUsed, casBegun, casOverlap, casReturned>>

PutWrite(p) ==
    /\ casPut[p].at = "write"
    /\ casWhole' = casWhole \cup {casPut[p].fd}
    /\ casPut' = [casPut EXCEPT ![p].at = "replace"]
    /\ UNCHANGED <<casPath, casTmp, casUsed, casBegun, casOverlap, casReturned>>

\* os.replace moves whatever inode the temporary name has now.
PutReplace(p) ==
    /\ casPut[p].at = "replace" /\ casTmp[Part(p)] # NoInode
    /\ casPath' = [casPath EXCEPT ![Part(p)] = casTmp[Part(p)]]
    /\ casTmp' = [casTmp EXCEPT ![Part(p)] = NoInode]
    /\ PartDone(p)
    /\ UNCHANGED <<casWhole, casUsed, casBegun, casOverlap>>

\* The temporary name is gone: os.replace raises, and so does put.
PutRaises(p) ==
    /\ casPut[p].at = "replace" /\ casTmp[Part(p)] = NoInode
    /\ casPut' = [casPut EXCEPT ![p] = NoPut]
    /\ UNCHANGED <<casPath, casTmp, casWhole, casUsed, casBegun, casOverlap, casReturned>>

PutDies(p) ==
    /\ Active(p)
    /\ casPut' = [casPut EXCEPT ![p] = NoPut]
    /\ UNCHANGED <<casPath, casTmp, casWhole, casUsed, casBegun, casOverlap, casReturned>>

CasNext ==
    \E p \in Putters :
        \/ PutBegin(p) \/ PutLook(p) \/ PutOpen(p) \/ PutWrite(p)
        \/ PutReplace(p) \/ PutRaises(p) \/ PutDies(p)

CasSpec == CasInit /\ [][CasNext]_casVars

\* verify: the manifest parses and the blob it names has its digest.
CasVerifies ==
    \A n \in PartNames : casPath[n] # NoInode /\ casPath[n] \in casWhole

-----------------------------------------------------------------------------
CasTypeOK ==
    /\ casPath \in [PartNames -> {NoInode} \cup Inodes]
    /\ casTmp \in [PartNames -> {NoInode} \cup Inodes]
    /\ casWhole \subseteq Inodes
    /\ \A p \in Putters : casPut[p].at \in {"idle", "look", "open", "write", "replace"}

\* As long as no two puts of an artifact overlap, the record put returned
\* verifies, then and at all later times, although processes die in any step
\* and leave a half-written temporary file for the next put to reuse.
ReturnedVerifies == casReturned /\ ~casOverlap => CasVerifies

\* A put that nobody else interferes with never raises, whatever earlier puts
\* left behind: the temporary name it opened is there when it is renamed.
LonePutNeverRaises ==
    [][\A p \in Putters : PutRaises(p) => ~casPut[p].alone]_casVars

\* put repairs a blob: when one that ran alone returns, the blob matches its
\* digest, even if overlapping writers had left a truncated file in its place.
LonePutHealsBlob ==
    [][\A p \in Putters :
        casPut[p].alone /\ Active(p) /\ PartDone(p) /\ casPut'[p] = NoPut
          => casPath'["blob"] \in casWhole']_casVars

\* What put promises, whatever processes died before: a record that verifies,
\* as long as puts do not overlap; and by itself, no error and a whole blob.
PutContract == []ReturnedVerifies /\ LonePutNeverRaises /\ LonePutHealsBlob
=============================================================================
