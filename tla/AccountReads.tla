------------------------------ MODULE AccountReads -----------------------------
(***************************************************************************)
(* One account of one kind over its life, and what the SDK reads from it.  *)
(* The owning program creates, rewrites, extends and closes it; it writes  *)
(* a value over the front of the account and leaves the bytes behind it as *)
(* they are, so a shrunk list leaves its old entries there.  The SDK's     *)
(* decoders and optional fetches are what AccountData translates; the      *)
(* programs are external.                                                  *)
(***************************************************************************)
EXTENDS AccountData, VolumeDays, FeeLadder, Functions

CONSTANTS
  MaxWrites,   \* bound: times the account is rewritten
  MaxEntries,  \* bound: entries of a list
  CapMax       \* bound: market caps

ASSUME ReadsAssumption == MaxWrites \in Nat /\ MaxEntries \in Nat /\ CapMax \in Nat

VARIABLES
  kind,     \* what the account is
  present,  \* whether it exists
  acct,     \* discriminator, allocated bytes, cells
  content,  \* history: what the program last wrote
  room,     \* history: the allocation it last wrote into
  writes    \* rewrites so far

vars == <<kind, present, acct, content, room, writes>>

(* Allocations: older pools and curves end before their later fields;      *)
(* everything else is allocated with room to spare.                        *)
Allocations(k) ==
  CASE k = "GlobalConfig"  -> {949}
    [] k = "FeeConfig"     -> {4097}
    [] k = "UserVolume"    -> {137}
    [] k = "GlobalVolume"  -> {600}
    [] k = "SharingConfig" -> {1024}
    [] k = "Pool"          -> {245, 261, 271, 301}
    [] k = "BondingCurve"  -> {125, 166}

Extended == [Pool |-> 301, BondingCurve |-> 166]

(* What a program can have written: write number v, the value of the       *)
(* flags, the lengths of the lists, the times of the incentives and the    *)
(* thresholds of the fee tiers, which ascend.                              *)
Times == {"start_time", "end_time", "seconds_in_a_day"}
NamesAs(k, as) == {f.name : f \in {g \in Range(Layout(k)) : g.as = as}}

Thresholds(n) ==
  {c \in [1 .. n -> 0 .. CapMax] : \A i, j \in 1 .. n : i < j => c[i] < c[j]}

Contents(k, v) ==
  UNION {[v : {v},
          flag : IF NamesAs(k, "flag") = {} THEN {0} ELSE {0, 1},
          len : {len},
          time : [NamesAs(k, "plain") \cap Times -> I64],
          caps : IF k = "FeeConfig" THEN Thresholds(len["fee_tiers"]) ELSE {<<>>}] :
         len \in [NamesAs(k, "list") -> 0 .. MaxEntries]}

Blank(k) == [v |-> 0, flag |-> 0, len |-> [n \in NamesAs(k, "list") |-> 0],
             time |-> [n \in NamesAs(k, "plain") \cap Times |-> 0], caps |-> <<>>]

(* A field's value in a content; the owner of an accumulator never changes. *)
FieldValue(c, f) ==
  CASE f.name = "user"   -> Value("user", 0, 0, 1)
    [] f.name \in Times  -> Value(f.name, 0, 0, c.time[f.name])
    [] f.as = "flag"     -> Value(f.name, 0, 0, c.flag)
    [] OTHER             -> Value(f.name, 0, 0, c.v)

(* Part k of entry i, counted from 0.  The rates of the fee tiers descend  *)
(* and are all above the flat ones.                                        *)
EntryValue(c, f, i, k) ==
  CASE f.name = "fee_tiers" /\ k = 1 -> Value(f.name, i, k, c.caps[i + 1])
    [] f.name = "fee_tiers" /\ k > 1 -> Value(f.name, i, k, c.v + MaxEntries - i)
    [] OTHER                         -> Value(f.name, i, k, c.v)

FieldValues(c, f) ==
  IF f.as # "list" THEN <<FieldValue(c, f)>>
  ELSE LET p == Len(f.parts) IN
         [j \in 1 .. c.len[f.name] * p |->
            EntryValue(c, f, (j - 1) \div p, ((j - 1) % p) + 1)]

------------------------------------------------------------------------------
(* The serialisation of a content: cells one behind the other.             *)
WrittenStarts(k, c) ==
  Starts(Layout(k), LAMBDA f, p : IF f.as = "list" THEN 4 + c.len[f.name] * f.w ELSE f.w)

WrittenEnd(k, c) == WrittenStarts(k, c)[Len(Layout(k)) + 1]

Cell(pos, w, val) == [pos |-> pos, w |-> w, val |-> val]

FieldCells(c, f, p) ==
  IF f.as # "list" THEN {Cell(p, f.w, FieldValue(c, f))}
  ELSE {Cell(p, 4, Value("len", 0, 0, c.len[f.name]))} \cup
       {Cell(p + 4 + i * f.w + f.parts[k].at, f.parts[k].w, EntryValue(c, f, i, k)) :
          i \in 0 .. c.len[f.name] - 1, k \in DOMAIN f.parts}

Encoding(k, c) ==
  LET start == WrittenStarts(k, c) IN
    UNION {FieldCells(c, Layout(k)[i], start[i]) : i \in DOMAIN Layout(k)}

(* A rewrite replaces the cells it covers, as far as the account reaches,  *)
(* and leaves those behind it.                                             *)
Overwritten(a, k, c) ==
  [a EXCEPT !.mem = {d \in Encoding(k, c) : d.pos + d.w <= a.len}
                    \cup {d \in @ : d.pos >= WrittenEnd(k, c)}]

(* A list that the account has no room for fails the program that would    *)
(* write it; the later fields of an old pool or curve are left out.        *)
Fits(k, c, len) == k \in Typed => WrittenEnd(k, c) <= len

NoAccount == [disc |-> "none", len |-> 0, mem |-> {}]

Init ==
  /\ kind \in Kinds /\ present = FALSE
  /\ acct = NoAccount /\ content = Blank(kind) /\ room = 0 /\ writes = 0

(* The program allocates the account and writes its first value; an        *)
(* accumulator starts with every counter at zero.                          *)
Create ==
  /\ ~ present /\ present' = TRUE
  /\ \E len \in Allocations(kind) :
       acct' = Overwritten([disc |-> kind, len |-> len, mem |-> {}], kind, Blank(kind))
  /\ content' = Blank(kind) /\ room' = acct'.len
  /\ UNCHANGED <<kind, writes>>

(* A trade, a sync, a claim, an admin's update or an edit of the split.    *)
Rewrite ==
  /\ present /\ writes < MaxWrites /\ writes' = writes + 1
  /\ \E c \in Contents(kind, writes + 1) :
       /\ Fits(kind, c, acct.len)
       /\ content' = c /\ acct' = Overwritten(acct, kind, c)
  /\ room' = acct.len
  /\ UNCHANGED <<kind, present>>

(* extend_account: the pool gets the present allocation, filled with zeros. *)
ExtendAccount ==
  /\ present /\ kind \in DOMAIN Extended /\ acct.len < Extended[kind]
  /\ acct' = [acct EXCEPT !.len = Extended[kind]]
  /\ UNCHANGED <<kind, present, content, room, writes>>

(* close_user_volume_accumulator.                                          *)
CloseAccount ==
  /\ present /\ kind = "UserVolume"
  /\ present' = FALSE /\ acct' = NoAccount /\ content' = Blank(kind) /\ room' = 0
  /\ UNCHANGED <<kind, writes>>

Next == Create \/ Rewrite \/ ExtendAccount \/ CloseAccount

Spec == Init /\ [][Next]_vars

------------------------------------------------------------------------------
(* Slip: the substitute for a missing accumulator has no owner.            *)
EmptyForgetsTheUser == [i \in DOMAIN UserVolumeLayout |-> <<Zero>>]

(* UserVolumeAccumulator::empty.                                           *)
EmptyAccumulator ==
  [i \in DOMAIN UserVolumeLayout |->
     IF UserVolumeLayout[i].name = "user" THEN <<Value("user", 0, 0, 1)>> ELSE <<Zero>>]

(* What a fetch returns: fetch_user_volume_accumulator and                 *)
(* fetch_sharing_config answer None for a missing account, where the       *)
(* others fail.                                                            *)
Fetched ==
  IF present
  THEN LET r == Decode(acct, kind) IN
         [is |-> IF r.ok THEN "some" ELSE "error", value |-> IF r.ok THEN r.out ELSE <<>>]
  ELSE [is |-> IF kind \in {"UserVolume", "SharingConfig"} THEN "none" ELSE "error",
        value |-> <<>>]

(* The caller's view, with empty standing in for a missing accumulator.    *)
View ==
  IF Fetched.is = "none" /\ kind = "UserVolume"
  THEN [is |-> "some", value |-> EmptyAccumulator] ELSE Fetched

------------------------------------------------------------------------------
(* What a reader should see of the i-th field: what was written, or zero   *)
(* where the program had no room for it.                                   *)
FieldEnd(i) == WrittenStarts(kind, content)[i + 1]

Expected(i) ==
  IF FieldEnd(i) > room THEN <<Zero>> ELSE FieldValues(content, Layout(kind)[i])

(* Every decoder returns what the program last wrote: after lists that     *)
(* grew and shrank over old entries (state.rs:906-908), in accounts        *)
(* allocated before the later fields (state.rs:168-171), and with spare    *)
(* room behind.                                                            *)
DecodeIsWhatWasWritten ==
  present => /\ Fetched.is = "some"
             /\ \A i \in DOMAIN Fetched.value : Fetched.value[i] = Expected(i)

(* A cut-off account is never taken for a whole one: the Reader fails on   *)
(* every cut short of the encoding and is indifferent to one behind it     *)
(* (state.rs:288-291); the offset-based decoders take each of the later    *)
(* fields whole or as zero, never in part (state.rs:196-212, 263-268).     *)
TruncationIsSeen ==
  present =>
    LET end   == WrittenEnd(kind, content)
        whole == Fetched.value
    IN \A n \in 0 .. end + 1 :
         LET r == Decode([acct EXCEPT !.len = IF n < @ THEN n ELSE @], kind) IN
           CASE kind \in Typed ->
                  /\ r.ok <=> n >= end
                  /\ r.ok => r.out = whole
             [] OTHER ->
                  /\ r.ok <=> n >= (IF kind = "Pool" THEN PoolStructEnd ELSE 8)
                  /\ r.ok => \A i \in DOMAIN r.out :
                       r.out[i] = IF n >= FieldEnd(i) THEN whole[i] ELSE <<Zero>>

(* day_index on the decoded schedule never leaves the arrays, and for a    *)
(* programme that starts after 1970 it is the bucket whose day contains    *)
(* the timestamp, None only outside the window or past the last bucket     *)
(* (state.rs:824-837).                                                     *)
RightBucket ==
  kind = "GlobalVolume" /\ Fetched.is = "some" =>
    BucketsAreRight(Fetched.value[1][1].v, Fetched.value[2][1].v, Fetched.value[3][1].v)

(* The fee configuration as fees_for_pool reads it off the decoded         *)
(* account.                                                                *)
Schedule(x, y, z) == [lp |-> x.v, protocol |-> y.v, creator |-> z.v]

DecodedConfig ==
  LET flat  == Fetched.value[3][1]
      parts == Fetched.value[4]
  IN [flat |-> Schedule(flat, flat, flat),
      tiers |-> [i \in 1 .. Len(parts) \div 4 |->
        [threshold |-> parts[4 * i - 3].v,
         fees |-> Schedule(parts[4 * i - 2], parts[4 * i - 1], parts[4 * i])]]]

LadderRead == kind = "FeeConfig" /\ Fetched.is = "some"

(* On the decoded ladder, a rung applies from its threshold, included, up  *)
(* to the next one (state.rs:523-524, "the highest tier whose threshold is *)
(* at or below it"): a search in the wrong direction or a strict           *)
(* comparison is off exactly at a boundary.  A pool below a ladder that    *)
(* starts above zero is quoted the most expensive rung, never less than it *)
(* may be charged (state.rs:554-557).                                      *)
RungOfItsInterval ==
  LadderRead => \A cap \in 0 .. CapMax :
    RungApplies(DecodedConfig, cap) /\ BelowIsDearest(DecodedConfig, cap)

(* Creating a user's accumulator changes nothing for a caller who          *)
(* substitutes empty for a missing one (state.rs:702-707), and extending   *)
(* an old pool changes nothing in what is read from it (state.rs:168-171). *)
ReadsSurvive ==
  [][(Create /\ kind = "UserVolume") \/ ExtendAccount => View' = View]_vars
==============================================================================
