-------------------------- MODULE MerchantsSilver --------------------------
(***************************************************************************)
(* merchants_silver.py: each upload is a file with the whole catalogue,    *)
(* Auto Loader appends it to bronze stamped with the ingestion time, and   *)
(* silver deduplicates on merchant_id within a watermark of a day over     *)
(* that time.  A key stays in the state store until a batch whose          *)
(* watermark has reached its expiry is over; rows of a key that is there   *)
(* are dropped, whatever they say.                                         *)
(***************************************************************************)
EXTENDS Integers, Sequences

CONSTANTS
  Merchant,
  Profile,          \* the attributes that matter downstream: risk and blacklisting
  Broken,           \* attributes that break a drop rule, not a profile
  Delay,            \* the watermark delay
  MaxBatch,         \* bound: files one batch of silver covers
  MaxTime,          \* bound: the clock
  MaxFiles          \* bound: uploads

VARIABLES
  now,              \* the clock
  bronze,           \* the files ingested: [at, catalogue]
  filesRead,        \* how many of them silver has read
  watermark,
  expiry,           \* the state store: when a remembered merchant expires
  merchants         \* finguard.silver.merchants: [merchant, file]

vars == <<now, bronze, filesRead, watermark, expiry, merchants>>

NoKeys == [m \in {} |-> 0]

Init ==
  /\ now = 0 /\ bronze = << >>
  /\ filesRead = 0 /\ watermark = 0 /\ expiry = NoKeys /\ merchants = {}

Tick ==
  /\ now < MaxTime
  /\ now' = now + 1
  /\ UNCHANGED <<bronze, filesRead, watermark, expiry, merchants>>

\* upload_merchants.py writes a new file with every merchant, and bronze takes it in.
Upload(catalogue) ==
  /\ Len(bronze) < MaxFiles
  /\ bronze' = Append(bronze, [at |-> now, catalogue |-> catalogue])
  /\ UNCHANGED <<now, filesRead, watermark, expiry, merchants>>

\* The files one batch lets through, for each merchant: any one of the batch, if
\* the state store does not hold the merchant.  None is late, as time only grows.
FirstFiles(batch) ==
  [m \in Merchant |-> IF m \in DOMAIN expiry THEN {} ELSE batch]

Expires(file) == bronze[file].at + Delay

\* New keys are added, then those the batch's watermark has reached are evicted.
Remember(chosen) ==
  LET until == [m \in DOMAIN expiry \cup DOMAIN chosen |->
                  IF m \in DOMAIN expiry THEN expiry[m] ELSE Expires(chosen[m])]
  IN  [m \in {k \in DOMAIN until : watermark < until[k]} |-> until[m]]

\* expect_or_drop comes after the dedup: a broken row has claimed its merchant.
Passes(m, file) == bronze[file].catalogue[m] # Broken

\* A micro-batch over the next files, or one without data that evicts state.
SilverBatch(upto) ==
  LET batch == filesRead + 1 .. upto
      new == {m \in Merchant : FirstFiles(batch)[m] # {}}
  IN  /\ filesRead <= upto /\ upto <= filesRead + MaxBatch
      /\ \E chosen \in [new -> batch] :
           /\ expiry' = Remember(chosen)
           /\ merchants' = merchants \cup
                {[merchant |-> m, file |-> chosen[m]] : m \in {m \in new : Passes(m, chosen[m])}}
      /\ watermark' = IF upto > 0 /\ bronze[upto].at - Delay > watermark
                      THEN bronze[upto].at - Delay ELSE watermark
      /\ filesRead' = upto
      /\ UNCHANGED <<now, bronze>>

Next ==
  \/ Tick
  \/ \E catalogue \in [Merchant -> Profile \cup {Broken}] : Upload(catalogue)
  \/ \E upto \in 0 .. Len(bronze) : SilverBatch(upto)

Spec == Init /\ [][Next]_vars

-----------------------------------------------------------------------------
\* A new file is picked up as new rows, "which is exactly what makes merchant
\* attribute changes (risk rating, blacklisting) visible downstream": when silver
\* has read every file, it holds the attributes that the latest file gave a
\* merchant, if that file came longer than the watermark delay after the first.
ChangesAreVisible ==
  \A m \in Merchant : \A file \in DOMAIN bronze :
    /\ filesRead = Len(bronze) /\ file = Len(bronze)
    /\ Passes(m, file) /\ Passes(m, 1)
    /\ bronze[file].at > bronze[1].at + Delay
    => \E row \in merchants :
         row.merchant = m /\ bronze[row.file].catalogue[m] = bronze[file].catalogue[m]
=============================================================================
