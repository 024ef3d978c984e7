------------------------------ MODULE BlobCache ------------------------------
(***************************************************************************)
(* The Router's cache of sealed blobs of a Domain (routerBlobCache.ts over *)
(* blob-store.ts). A gateway seals a blob anew for each upload, so two     *)
(* uploads of one blob are different ciphertexts under one name            *)
(* (blobUploader.ts); a lease with a generation admits one of them at a    *)
(* time. Files change before the index is written: a Router that stops in  *)
(* between, or whose index cannot be read, works from what is on disk.     *)
(***************************************************************************)
EXTENDS Naturals, Sequences, FiniteSets

CONSTANTS
    Blobs,
    Uploads,
    Chunks,     \* chunks of a blob
    Quota,      \* quotaBytesPerDomain, in chunks
    MaxRestarts \* bound

ASSUME CacheAssumption ==
    /\ IsFiniteSet(Blobs)
    /\ 0 \notin Uploads
    /\ Chunks \in Nat \ {0} /\ Quota \in Nat /\ MaxRestarts \in Nat

VARIABLES
    part,       \* blob -> the chunks of its .part file, by upload
    final,      \* blob -> the chunks of its file, empty for none
    index,      \* blob -> [digest, lease, live], 0 for none
    saved,      \* the index on disk
    recovery,   \* blob -> the digest in its recovery file, 0 for none
    upload,     \* upload -> [stage, blob, sent]
    restarts,
    cacheDown   \* the Router stopped before it wrote its index

cacheVars == <<part, final, index, saved, recovery, upload, restarts, cacheDown>>
files == <<part, final>>

NoBlob == [digest |-> 0, lease |-> 0, live |-> FALSE]
Unleased(digest) == [digest |-> digest, lease |-> 0, live |-> FALSE]
Whole(u) == [k \in 1 .. Chunks |-> u]
Complete(b) == final[b] # <<>>
Have(f, p, b) == IF f[b] # <<>> THEN Len(f[b]) ELSE Len(p[b])
CacheMax(a, b) == IF a > b THEN a ELSE b

\* The sum of the amounts: so many chunks of each blob, told apart.
Total(amount) == Cardinality(UNION {{b} \X (1 .. amount[b]) : b \in Blobs})

\* A lease reserves the whole blob.
reserved(f, p, idx, b) == CacheMax(Have(f, p, b), IF idx[b].lease # 0 THEN Chunks ELSE 0)
used(f, p, idx) == Total([b \in Blobs |-> reserved(f, p, idx, b)])

-----------------------------------------------------------------------------
(* Eviction *)

Evictable(f, idx) == {b \in Blobs : idx[b].lease = 0 /\ idx[b] # NoBlob /\ f[b] # <<>>}

\* The complete blobs removed to free so many chunks: any, oldest read first.
evict(f, idx, need) ==
    LET c == Evictable(f, idx)
        n == (need + Chunks - 1) \div Chunks
    IN IF need = 0 THEN {{}}
       ELSE {e \in SUBSET c : Cardinality(e) = IF n < Cardinality(c) THEN n ELSE Cardinality(c)}

Without(f, gone) == [b \in Blobs |-> IF b \in gone THEN <<>> ELSE f[b]]
Bare(idx, gone) == [b \in Blobs |-> IF b \in gone THEN NoBlob ELSE idx[b]]
Forgotten(rec, gone) == [b \in Blobs |-> IF b \in gone THEN 0 ELSE rec[b]]

-----------------------------------------------------------------------------
(* Uploads *)

\* A file without metadata, and a part of another ciphertext, are removed.
discarded(u, b) == IF index[b].digest \notin {0, u} \/ Complete(b) THEN {b} ELSE {}

UploadEnds(u, how) == upload' = [upload EXCEPT ![u].stage = how]

\* The index is written at the end of an operation and the upload told, unless
\* the Router stops: then the call fails, and the upload with it.
Persist(u, told) ==
    \/ saved' = index' /\ upload' = [upload EXCEPT ![u] = told] /\ UNCHANGED cacheDown
    \/ /\ restarts < MaxRestarts /\ cacheDown' = TRUE
       /\ UploadEnds(u, "failed")
       /\ UNCHANGED saved

begin(u, b) ==
    LET p     == Without(part, discarded(u, b))
        f     == Without(final, discarded(u, b))
        own   == reserved(f, p, index, b)
        need  == used(f, p, index) - own + Chunks
    IN /\ upload[u].stage = "new" /\ ~cacheDown
       /\ \/ /\ Complete(b) /\ index[b].digest # 0     \* exists
             /\ UploadEnds(u, "done")
             /\ UNCHANGED <<files, index, saved, recovery, cacheDown>>
          \/ /\ ~(Complete(b) /\ index[b].digest # 0)
             /\ \E gone \in evict(f, index, IF need > Quota THEN need - Quota ELSE 0) :
                  LET idx == Bare(index, gone) IN
                  /\ part' = p /\ final' = Without(f, gone)
                  /\ IF used(final', p, idx) - own + Chunks > Quota
                     THEN /\ index' = idx /\ recovery' = Forgotten(recovery, gone)
                          /\ UploadEnds(u, "failed")
                          /\ UNCHANGED <<saved, cacheDown>>
                     ELSE /\ index' = [idx EXCEPT ![b] = [digest |-> u, lease |-> u, live |-> TRUE]]
                          /\ recovery' = [Forgotten(recovery, gone) EXCEPT ![b] = u]
                          /\ Persist(u, [stage |-> "sending", blob |-> b, sent |-> 0])
       /\ UNCHANGED restarts

\* Mutant: whoever began may go on writing.
admittedAny(u, b) == index[b].lease # 0 /\ index[b].live

admitted(u, b) == index[b].lease = u /\ index[b].live

\* renew and commitChunk: the next chunk; the last one seals the file when its
\* digest is right.
commitChunk(u) ==
    LET b    == upload[u].blob
        sent == upload[u].sent
        p    == IF sent >= Len(part[b]) THEN Append(part[b], u) ELSE part[b]
        last == sent + 1 = Chunks
    IN /\ upload[u].stage = "sending" /\ ~cacheDown
       /\ \/ /\ ~admitted(u, b) \/ sent > Len(part[b])      \* lease_expired, gap
             /\ UploadEnds(u, "failed")
             /\ UNCHANGED <<files, index, saved, cacheDown>>
          \/ /\ admitted(u, b) /\ sent <= Len(part[b]) /\ ~last
             /\ part' = [part EXCEPT ![b] = p]
             /\ UNCHANGED <<final, index>>
             /\ Persist(u, [upload[u] EXCEPT !.sent = @ + 1])
          \/ /\ admitted(u, b) /\ sent <= Len(part[b]) /\ last
             /\ part' = [part EXCEPT ![b] = <<>>]
             /\ IF p = Whole(index[b].digest)
                THEN /\ final' = [final EXCEPT ![b] = p]
                     /\ index' = [index EXCEPT ![b] = Unleased(@.digest)]
                     /\ Persist(u, [upload[u] EXCEPT !.stage = "done"])
                ELSE UploadEnds(u, "failed") /\ UNCHANGED <<final, index, saved, cacheDown>>
       /\ UNCHANGED <<recovery, restarts>>

\* A call fails: the upload is given up.
UploadFails(u) ==
    /\ upload[u].stage = "sending"
    /\ UploadEnds(u, "failed")
    /\ UNCHANGED <<files, index, saved, recovery, restarts, cacheDown>>

LeaseExpires(b) ==
    /\ saved[b].live
    /\ index' = [index EXCEPT ![b].live = FALSE]
    /\ saved' = [saved EXCEPT ![b].live = FALSE]
    /\ UNCHANGED <<files, recovery, upload, restarts, cacheDown>>

-----------------------------------------------------------------------------
(* Sweeps and restarts *)

\* Leases of complete files end; expired ones end with their part.
Lapsed(idx) == {b \in Blobs : idx[b].lease # 0 /\ ~Complete(b) /\ ~idx[b].live}
Reconciled(idx) ==
    [b \in Blobs |-> CASE b \in Lapsed(idx) -> NoBlob
                       [] b \notin Lapsed(idx) /\ Complete(b) -> Unleased(idx[b].digest)
                       [] OTHER -> idx[b]]

sweepBlobs ==
    /\ Lapsed(index) # {} /\ ~cacheDown
    /\ part' = Without(part, Lapsed(index))
    /\ index' = Reconciled(index)
    /\ saved' = index'
    /\ recovery' = Forgotten(recovery, Lapsed(index))
    /\ UNCHANGED <<final, upload, restarts, cacheDown>>

recovered(b) == recovery[b] # 0 /\ final[b] = Whole(recovery[b])

\* The index is read back, or rebuilt from complete files and their recovery
\* files; parts without a lease are reclaimed. The index that is read may be
\* older than the files: whatever the last operation removed or promoted.
CacheRestarts ==
    /\ restarts < MaxRestarts /\ restarts' = restarts + 1
    /\ \/ /\ index' = Reconciled(saved)
          /\ final' = final
          /\ recovery' = Forgotten(recovery, Lapsed(saved))
       \/ /\ index' = [b \in Blobs |-> IF Complete(b) /\ recovered(b)
                                       THEN Unleased(recovery[b]) ELSE NoBlob]
          /\ final' = [b \in Blobs |-> IF Complete(b) /\ recovered(b) THEN final[b] ELSE <<>>]
          /\ recovery' = Forgotten(recovery, {b \in Blobs : Complete(b) /\ ~recovered(b)})
    /\ part' = [b \in Blobs |-> IF index'[b].lease # 0 THEN part[b] ELSE <<>>]
    /\ saved' = index' /\ cacheDown' = FALSE
    /\ UNCHANGED upload

CacheInit ==
    /\ part = [b \in Blobs |-> <<>>] /\ final = part
    /\ index = [b \in Blobs |-> NoBlob] /\ saved = index
    /\ recovery = [b \in Blobs |-> 0]
    /\ upload = [u \in Uploads |-> [stage |-> "new", blob |-> 0, sent |-> 0]]
    /\ restarts = 0 /\ cacheDown = FALSE

CacheNext ==
    \/ \E u \in Uploads : commitChunk(u) \/ UploadFails(u) \/ \E b \in Blobs : begin(u, b)
    \/ \E b \in Blobs : LeaseExpires(b)
    \/ sweepBlobs \/ CacheRestarts

CacheSpec == CacheInit /\ [][CacheNext]_cacheVars

-----------------------------------------------------------------------------
(* Properties *)

\* What the cache serves as complete is one ciphertext, whole, and the one its
\* entry describes.
ServedWhole == \A b \in Blobs : Complete(b) /\ index[b].digest # 0 => final[b] = Whole(index[b].digest)

\* An upload that is admitted finds in the part file chunks it sent and nothing
\* else: no other upload of the blob writes between them or leaves some behind.
\* (A begin that a stop cut short may have cost it what it had sent: it is then
\* told of a gap.)
LeaseOwnsPart ==
    \A u \in Uploads : LET b == upload[u].blob IN
        upload[u].stage = "sending" /\ ~cacheDown /\ admitted(u, b) =>
            /\ Len(part[b]) <= upload[u].sent
            /\ \A k \in DOMAIN part[b] : part[b][k] = u

\* The files of a Domain stay within its quota, with what leases reserve.
QuotaKept == used(final, part, index) <= Quota

\* Uploads that overlap, die or are resumed leave the cache with whole blobs, parts of
\* one writer and room accounted for (gatewayBlobCache).
CacheSound == ServedWhole /\ LeaseOwnsPart /\ QuotaKept
=============================================================================
