------------------------------ MODULE AccountData ------------------------------
(***************************************************************************)
(* The account decoders of state.rs: the bounds-checked Reader and the     *)
(* from_account_data functions built on it, and the Pool and BondingCurve  *)
(* decoders, which read at absolute offsets.                               *)
(*                                                                         *)
(* An account is a discriminator, a number of allocated bytes and the      *)
(* cells written into them: a cell is a run of bytes written as one value, *)
(* at its offset and with its width.  Bytes never written are zero.  What  *)
(* a value is does not matter here, only which field of which write it     *)
(* belongs to, except for lengths, flags and times.                        *)
(***************************************************************************)
EXTENDS Integers, Sequences

(* A value: field f of write v, in entry i and part k when it is in a list. *)
Value(f, i, k, v) ==
  IF v = 0 THEN [f |-> "zero", i |-> 0, k |-> 0, v |-> 0]
  ELSE [f |-> f, i |-> i, k |-> k, v |-> v]
Zero == Value("zero", 0, 0, 0)

(* Bytes that are not one cell, read as a number: anything, so a large one. *)
Junk == [f |-> "junk", i |-> 0, k |-> 0, v |-> 65535]

(* No value: the bytes are not there.                                      *)
Cut == [f |-> "cut", i |-> 0, k |-> 0, v |-> -1]

------------------------------------------------------------------------------
(* The layouts, in reading order; arrays are one field.  The live accounts *)
(* follow the same order.                                                  *)
Plain(name, w) == [name |-> name, w |-> w, as |-> "plain", parts |-> <<>>]
Flag(name)     == [name |-> name, w |-> 1, as |-> "flag", parts |-> <<>>]
List(name, w, parts) == [name |-> name, w |-> w, as |-> "list", parts |-> parts]

GlobalConfigLayout ==
  << Plain("admin", 32), Plain("lp_fee_basis_points", 8),
     Plain("protocol_fee_basis_points", 8), Plain("disable_flags", 1),
     Plain("protocol_fee_recipients", 8 * 32),
     Plain("coin_creator_fee_basis_points", 8),
     Plain("admin_set_coin_creator_authority", 32), Plain("whitelist_pda", 32),
     Plain("reserved_fee_recipient", 32), Flag("mayhem_mode_enabled"),
     Plain("reserved_fee_recipients", 7 * 32), Flag("is_cashback_enabled"),
     Plain("buyback_fee_recipients", 8 * 32), Plain("buyback_basis_points", 8) >>

(* FeeTier::read: a u128 threshold and the three rates of Fees::read.      *)
TierParts == << [at |-> 0, w |-> 16], [at |-> 16, w |-> 8], [at |-> 24, w |-> 8],
                [at |-> 32, w |-> 8] >>

FeeConfigLayout ==
  << Plain("bump", 1), Plain("admin", 32), Plain("flat_fees", 24),
     List("fee_tiers", 40, TierParts), List("stable_fee_tiers", 40, TierParts) >>

UserVolumeLayout ==
  << Plain("user", 32), Flag("needs_claim"), Plain("total_unclaimed_tokens", 8),
     Plain("total_claimed_tokens", 8), Plain("current_sol_volume", 8),
     Plain("last_update_timestamp", 8), Flag("has_total_claimed_tokens"),
     Plain("cashback_earned", 8), Plain("total_cashback_claimed", 8) >>

GlobalVolumeLayout ==
  << Plain("start_time", 8), Plain("end_time", 8), Plain("seconds_in_a_day", 8),
     Plain("mint", 32), Plain("total_token_supply", 30 * 8),
     Plain("sol_volumes", 30 * 8) >>

(* Shareholder::read: an address and its share.                            *)
ShareholderParts == << [at |-> 0, w |-> 32], [at |-> 32, w |-> 2] >>

(* ConfigStatus::read accepts the two variants a flag has.                 *)
SharingConfigLayout ==
  << Plain("bump", 1), Plain("version", 1), Flag("status"), Plain("mint", 32),
     Plain("admin", 32), Flag("admin_revoked"), List("shareholders", 34, ShareholderParts) >>

(* The Pool struct, and what later layouts appended to it.                 *)
PoolFront ==
  << Plain("pool_bump", 1), Plain("index", 2), Plain("creator", 32),
     Plain("base_mint", 32), Plain("quote_mint", 32), Plain("lp_mint", 32),
     Plain("pool_base_token_account", 32), Plain("pool_quote_token_account", 32),
     Plain("lp_supply", 8), Plain("coin_creator", 32), Flag("is_mayhem_mode"),
     Flag("is_cashback_coin") >>
PoolTail ==
  << Plain("virtual_quote_reserves", 16), Plain("creator_fee_bps", 8),
     Flag("can_edit_creator_fee"), Flag("is_holder_reward"),
     Plain("protocol_fees", 8), Plain("creator_fees", 8) >>

(* A bonding curve, of which the SDK reads one late field.                 *)
CurveFront == << Plain("curve", 117) >>
CurveTail  == << Plain("creator_fee", 8) >>

Typed == {"GlobalConfig", "FeeConfig", "UserVolume", "GlobalVolume", "SharingConfig"}
Kinds == Typed \cup {"Pool", "BondingCurve"}

Layout(kind) ==
  CASE kind = "GlobalConfig"  -> GlobalConfigLayout
    [] kind = "FeeConfig"     -> FeeConfigLayout
    [] kind = "UserVolume"    -> UserVolumeLayout
    [] kind = "GlobalVolume"  -> GlobalVolumeLayout
    [] kind = "SharingConfig" -> SharingConfigLayout
    [] kind = "Pool"          -> PoolFront \o PoolTail
    [] kind = "BondingCurve"  -> CurveFront \o CurveTail

------------------------------------------------------------------------------
(* Where each field starts when the extent of field f at p is Extent(f, p); *)
(* the last entry is the end of the last field.                            *)
Starts(fields, Extent(_, _)) ==
  LET start[i \in 1 .. Len(fields) + 1] ==
        IF i = 1 THEN 8
        ELSE LET p == start[i - 1] IN p + Extent(fields[i - 1], p)
  IN start

------------------------------------------------------------------------------
(* Slips of the code that the properties have to notice.                   *)

(* Take: bytes past the end read as zero.                                  *)
TakeZeroFilled(acc, pos, w) ==
  LET at == {c \in acc.mem : c.pos = pos /\ c.w = w} IN
    IF pos + w > acc.len \/ at = {} THEN Zero ELSE (CHOOSE c \in at : TRUE).val

(* EntriesToRead: every entry the remaining bytes have room for.           *)
EntriesThatFit(acc, pos, w) == (acc.len - pos - 4) \div w

------------------------------------------------------------------------------
(* Reader::take: the w bytes at pos, or nothing if they are not all there. *)
Take(acc, pos, w) ==
  LET at == {c \in acc.mem : c.pos = pos /\ c.w = w} IN
    IF pos + w > acc.len THEN Cut
    ELSE IF at # {} THEN (CHOOSE c \in at : TRUE).val
    ELSE IF \E c \in acc.mem : c.pos < pos + w /\ pos < c.pos + c.w THEN Junk
    ELSE Zero

(* Reader::vec: the u32 in front says how many entries follow.             *)
EntriesToRead(acc, pos, w) == Take(acc, pos, 4).v

(* How far reading field f at p moves the Reader on.                       *)
ReadExtent(acc, f, p) ==
  IF f.as = "list" THEN 4 + EntriesToRead(acc, p, f.w) * f.w ELSE f.w

(* Whether the Reader gets through it: a flag byte is 0 or 1; a length is  *)
(* checked against the remaining bytes, in which the entries then are.     *)
Readable(acc, f, p) ==
  CASE f.as = "flag"  -> Take(acc, p, 1).v \in {0, 1}
    [] f.as = "plain" -> Take(acc, p, f.w) # Cut
    [] f.as = "list"  -> /\ Take(acc, p, 4) # Cut
                         /\ EntriesToRead(acc, p, f.w) * f.w <= acc.len - (p + 4)

(* What it gets: one value, or the entries of a list part by part.         *)
ReadValues(acc, f, p) ==
  IF f.as # "list" THEN <<Take(acc, p, f.w)>>
  ELSE LET k == Len(f.parts) IN
         [j \in 1 .. EntriesToRead(acc, p, f.w) * k |->
            LET part == f.parts[((j - 1) % k) + 1] IN
              Take(acc, p + 4 + ((j - 1) \div k) * f.w + part.at, part.w)]

(* Reader::after_discriminator.                                            *)
RightDiscriminator(acc, kind) == acc.len >= 8 /\ acc.disc = kind

NotDecoded == [ok |-> FALSE, out |-> <<>>]

(* Field after field; the first one that fails fails the decoding.         *)
DecodeTyped(acc, kind) ==
  LET fields == Layout(kind)
      start  == Starts(fields, LAMBDA f, p : ReadExtent(acc, f, p))
  IN IF ~ RightDiscriminator(acc, kind) THEN NotDecoded
     ELSE IF \E i \in DOMAIN fields : ~ Readable(acc, fields[i], start[i])
       THEN NotDecoded
       ELSE [ok |-> TRUE,
             out |-> [i \in DOMAIN fields |-> ReadValues(acc, fields[i], start[i])]]

(* Slip: a later field counts as present when its first byte is.           *)
LaterFieldFromFirstByte(acc, pos, w) ==
  LET at == {c \in acc.mem : c.pos = pos} IN
    IF pos >= acc.len \/ at = {} THEN Zero ELSE (CHOOSE c \in at : TRUE).val

(* data.get(offset..offset + w), or zero when the account ends before.     *)
LaterField(acc, pos, w) ==
  IF pos + w <= acc.len THEN Take(acc, pos, w) ELSE Zero

(* Absolute offsets: those of the layout.                                  *)
Offsets(kind) == Starts(Layout(kind), LAMBDA f, p : f.w)

(* PoolInfo::from_account_data: only the length is checked, and the fields *)
(* of the later layouts are taken if they are there.                       *)
PoolStructEnd == 8 + 237

DecodePool(acc) ==
  IF acc.len < PoolStructEnd THEN NotDecoded
  ELSE [ok |-> TRUE,
        out |-> [i \in DOMAIN Layout("Pool") |->
                   LET p == Offsets("Pool")[i]  w == Layout("Pool")[i].w IN
                     <<IF i \in DOMAIN PoolFront THEN Take(acc, p, w)
                       ELSE LaterField(acc, p, w)>>]]

(* bonding_curve_creator_fee.                                              *)
CreatorFeeOffset == 125

DecodeCurve(acc) ==
  IF ~ RightDiscriminator(acc, "BondingCurve") THEN NotDecoded
  ELSE [ok |-> TRUE, out |-> [i \in {2} |-> <<LaterField(acc, CreatorFeeOffset, 8)>>]]

(* The fields in the order of the layout.                                  *)
Decode(acc, kind) ==
  CASE kind = "Pool"         -> DecodePool(acc)
    [] kind = "BondingCurve" -> DecodeCurve(acc)
    [] OTHER                 -> DecodeTyped(acc, kind)
==============================================================================
