------------------------------- MODULE Signer -------------------------------
(***************************************************************************)
(* EIP155Signer.Sender and the P-256 public-key recovery under it          *)
(* (src/filter/signer.go), as pure operators.  The curve keeps the form of *)
(* P-256, y^2 = x^3 - 3x + B over the field of the prime P, with a         *)
(* generator G of prime order N < P, but P is small enough for TLC to      *)
(* enumerate every key, nonce and digest.  Big integers are integers;      *)
(* Go's elliptic package writes the point at infinity as (0, 0).          *)
(*                                                                         *)
(* A digest is the integer SetBytes(hash) reads, not reduced modulo N;     *)
(* Digest(payload, chainId) stands for rlpHash of the EIP-155 fields.  An *)
(* address is Keccak256 of the public key; the key itself stands for it.  *)
(***************************************************************************)
EXTENDS Integers

CONSTANTS
  P, B,         \* the field prime and the curve's constant term
  N,            \* the order of G
  Gx, Gy,       \* the base point
  Nil,          \* a nil *big.Int
  Payloads,     \* the transaction fields other than chain id and signature
  Digest(_, _)  \* the hash Sender recovers from: Digest(payload, chainId)

ASSUME P % 4 = 3 /\ N < P

Infinity == [x |-> 0, y |-> 0]
G == [x |-> Gx, y |-> Gy]

(* The errors of the package and the nil results of its helpers. *)
Fail(e) == [err |-> e]
ErrNotEIP155 == Fail("invalid signer type")
ErrInvalidChainId == Fail("invalid chain id for signer")
ErrInvalidSig == Fail("invalid transaction v, r, s values")
ErrInvalidRecoveryID == Fail("invalid signature recovery id")
NoPoint == Fail("nil public key")

secp256r1halfN == N \div 2

RECURSIVE PowMod(_, _, _)
PowMod(a, e, m) ==
  IF e = 0 THEN 1 % m
  ELSE LET h == PowMod(a, e \div 2, m)
       IN (h * h * (IF e % 2 = 1 THEN a ELSE 1)) % m

(* big.Int.ModInverse modulo a prime. *)
ModInverse(a, m) == PowMod(a % m, m - 2, m)

(* big.Int.ModSqrt for P = 3 mod 4: -1 stands for the nil of a non-square.*)
ModSqrt(a) ==
  CASE a % P = 0                              -> 0
    [] PowMod(a, (P - 1) \div 2, P) # 1       -> -1
    [] OTHER                                  -> PowMod(a, (P + 1) \div 4, P)

(* P256().Add of two affine points. *)
PointAdd(p1, p2) ==
  CASE p1 = Infinity -> p2
    [] p2 = Infinity -> p1
    [] p1.x = p2.x /\ (p1.y + p2.y) % P = 0 -> Infinity
    [] OTHER ->
         LET l  == IF p1 = p2
                     THEN ((3 * p1.x * p1.x - 3) * ModInverse(2 * p1.y, P)) % P
                     ELSE ((p2.y - p1.y) * ModInverse(p2.x - p1.x, P)) % P
             x3 == (l * l - p1.x - p2.x) % P
         IN [x |-> x3, y |-> (l * (p1.x - x3) - p1.y) % P]

(* P256().ScalarMult by double and add over the bits of k. *)
RECURSIVE ScalarMult(_, _)
ScalarMult(pt, k) ==
  IF k = 0 THEN Infinity
  ELSE LET h == ScalarMult(pt, k \div 2)
           d == PointAdd(h, h)
       IN IF k % 2 = 1 THEN PointAdd(d, pt) ELSE d

ScalarBaseMult(k) == ScalarMult(G, k)

(* NewEIP155Signer: a nil chain id is 0. *)
NewEIP155Signer(chainId) ==
  LET c == IF chainId = Nil THEN 0 ELSE chainId
  IN [chainId |-> c, chainIdMul |-> 2 * c]

(* Mutant of ValidateSignatureValues: s equal to half of N refused. *)
ValidateSignatureValuesHalfOpen(v, r, s, homestead) ==
  /\ r >= 1 /\ s >= 1
  /\ ~(homestead /\ s >= secp256r1halfN)
  /\ r < N /\ s < N /\ v \in {0, 1}

(* ValidateSignatureValues: r and s in 1..N-1, s in the lower half, v 0/1.*)
ValidateSignatureValues(v, r, s, homestead) ==
  /\ r >= 1 /\ s >= 1
  /\ ~(homestead /\ s > secp256r1halfN)
  /\ r < N /\ s < N /\ v \in {0, 1}

(* checkSignature: the 65-byte length always holds for the sig recoverPlain *)
(* builds; the recovery id must be below 4.                                 *)
checkSignature(recId) == IF recId >= 4 THEN ErrInvalidRecoveryID ELSE Nil

(* decompressPubkey2: the point of abscissa x whose ordinate has the      *)
(* parity yBit asks for (2 even, 3 odd).                                  *)
decompressPubkey2(x, yBit) ==
  LET yy == ((x * x - 3) * x + B) % P
      y1 == ModSqrt(yy)
  IN CASE yBit \notin {2, 3} \/ x = Nil -> NoPoint
       [] y1 = -1                       -> NoPoint
       [] (y1 % 2 = 0) = (yBit = 2)     -> [x |-> x, y |-> y1]
       [] OTHER                         -> [x |-> x, y |-> (0 - y1) % P]

(* ecRecovery2: R from r and the recovery id, checked to have order N,    *)
(* then the key r^-1 (s R - e G).                                          *)
ecRecovery2(e, r, s, recId) ==
  LET x == r + (recId \div 2) * N
      R == decompressPubkey2(x, IF recId % 2 = 0 THEN 2 ELSE 3)
  IN IF recId < 0 \/ recId > 3 \/ r > N \/ s > N \/ x > P THEN NoPoint
     ELSE IF R = NoPoint \/ ScalarMult(R, N) # Infinity THEN NoPoint
     ELSE LET eInv     == (0 - e) % N
              rInv     == ModInverse(r, N)
              srInv    == (rInv * s) % N
              eInvrInv == (rInv * eInv) % N
              k        == PointAdd(ScalarMult(R, srInv), ScalarBaseMult(eInvrInv))
          IN IF k = Infinity THEN NoPoint ELSE k

(* Ecrecover over the 65-byte signature r || s || v. *)
Ecrecover(e, r, s, v) ==
  IF checkSignature(v) # Nil THEN checkSignature(v) ELSE ecRecovery2(e, r, s, v)

(* recoverPlain: Vb must fit a byte; V = byte(Vb - 27) is the recovery id. *)
recoverPlain(e, r, s, Vb, homestead) ==
  LET V == ((IF Vb < 0 THEN -Vb ELSE Vb) - 27) % 256
  IN IF Vb <= -256 \/ Vb >= 256 THEN ErrInvalidSig
     ELSE IF ~ValidateSignatureValues(V, r, s, homestead) THEN ErrInvalidSig
     ELSE Ecrecover(e, r, s, V)

(* types.Transaction.Protected and ChainId: a legacy V of 27 or 28 has no *)
(* chain id; otherwise it is (V - 35) / 2.  A typed transaction carries   *)
(* its chain id and a V of 0 or 1.                                         *)
Protected(tx) == tx.type # "legacy" \/ tx.v \notin {0, 1, 27, 28}
TxChainId(tx) ==
  CASE tx.type # "legacy"   -> tx.chainId
    [] tx.v \in {27, 28}    -> 0
    [] OTHER                -> (tx.v - 35) \div 2

(* EIP155Signer.Hash: rlpHash of the fields with the signer's chain id. *)
Hash(sg, tx) == Digest(tx.payload, sg.chainId)

(* EIP155Signer.Sender. *)
Sender(sg, tx) ==
  CASE ~Protected(tx)                -> ErrNotEIP155
    [] TxChainId(tx) # sg.chainId    -> ErrInvalidChainId
    [] OTHER -> recoverPlain(Hash(sg, tx), tx.r, tx.s,
                             tx.v - sg.chainIdMul - 8, TRUE)

-----------------------------------------------------------------------------
(* The reference: ECDSA signing of the digest e with key d and nonce k, in *)
(* the lower-s form (s and the parity bit flipped together), with the      *)
(* recovery id of R = kG.  A nonce giving r = 0 or s = 0 is not used.      *)
PubKey(d) == ScalarBaseMult(d)

Sign(d, k, e) ==
  LET R  == ScalarBaseMult(k)
      r  == R.x % N
      s0 == (ModInverse(k, N) * (e + r * d)) % N
      hi == s0 > secp256r1halfN
  IN [r |-> r, s |-> IF hi THEN N - s0 ELSE s0, ok |-> r # 0 /\ s0 # 0,
      recId |-> (IF R.x >= N THEN 2 ELSE 0) + ((R.y + (IF hi THEN 1 ELSE 0)) % 2)]

(* The transaction a wallet builds on chain c: EIP-155 V for a legacy one. *)
LegacyTx(sig, c, pl) ==
  [type |-> "legacy", v |-> 2 * c + 35 + sig.recId, r |-> sig.r, s |-> sig.s,
   payload |-> pl]
DynamicFeeTx(sig, c, pl) ==
  [type |-> "dynamic", chainId |-> c, v |-> sig.recId, r |-> sig.r, s |-> sig.s,
   payload |-> pl]

(* The sender the from rule sees for every transaction signed on chain c  *)
(* by every key with every nonce: the signing key for a legacy transaction *)
(* whose R has an abscissa below N (V 35 or 36 above 2c), an error for a   *)
(* dynamic-fee one, whose V of 0 or 1 Sender offsets by 2c + 8 as well.    *)
SenderRecoversSigner(c) ==
  \A d \in 1..(N - 1), k \in 1..(N - 1), pl \in Payloads :
    LET sig == Sign(d, k, Digest(pl, c))
        sg  == NewEIP155Signer(c)
    IN sig.ok /\ sig.recId < 2 =>
         /\ Sender(sg, LegacyTx(sig, c, pl)) = PubKey(d)
         /\ "err" \in DOMAIN Sender(sg, DynamicFeeTx(sig, c, pl))

=============================================================================
