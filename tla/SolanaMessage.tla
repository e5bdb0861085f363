---------------------------- MODULE SolanaMessage ----------------------------
(***************************************************************************)
(* The message of a Solana transaction (solanatx.go): how NewSolanaTx and  *)
(* NewSolanaTxV0 compile instructions into a list of account keys, a       *)
(* header of three counts and instructions that name accounts by index,    *)
(* and what UnmarshalBinary accepts.                                       *)
(*                                                                         *)
(* An account key is a number: numbers are ordered as the 32 bytes of the  *)
(* keys are.  Legacy and v0 messages are the same record, the lookups of a *)
(* legacy message being empty.                                             *)
(***************************************************************************)
EXTENDS Ordered, Integers, Sequences, FiniteSets, FiniteSetsExt, SequencesExt

CONSTANTS
    Byte,   \* number of values of a uint8, 256 in the code
    Texts   \* what blockhashes and instruction data may be

ASSUME ByteAssumption == Byte \in Nat /\ Byte % 2 = 0 /\ Byte > 2
ASSUME TextsAssumption == {"zero", "h0", "none"} \subseteq Texts

ZeroKey == 0

\* The zero value of a SolanaMessage.
EmptyMessage == [req |-> 0, ros |-> 0, rou |-> 0, keys |-> <<>>,
                 hash |-> "zero", ixs |-> <<>>, lookups |-> <<>>]

\* The values of instructions and messages.
Instructions == [prog : Nat, accts : Seq([key : Nat, signer : BOOLEAN, writable : BOOLEAN]),
                 data : Texts]
CompiledIxs  == [prog : Nat, accts : Seq(Nat), data : Texts]
Lookups      == [key : Nat, writable : Seq(Nat), readonly : Seq(Nat)]
Messages     == [req : Nat, ros : Nat, rou : Nat, keys : Seq(Nat), hash : Texts,
                 ixs : Seq(CompiledIxs), lookups : Seq(Lookups)]

-----------------------------------------------------------------------------
(***************************************************************************)
(* Compilation.  An instruction is [prog, accts, data], and accts is a     *)
(* sequence of metas [key, signer, writable].                              *)
(***************************************************************************)
Metas(ixs) == UNION { ToSet(ixs[i].accts) : i \in DOMAIN ixs }

\* The map `seen` once every instruction is merged into it: its keys, and the
\* permissions of a key.  A program id adds no permission.
Seen(payer, ixs) == {payer} \cup { mt.key : mt \in Metas(ixs) }
                            \cup { ixs[i].prog : i \in DOMAIN ixs }

IsSigner(payer, ixs, k) ==
    k = payer \/ \E mt \in Metas(ixs) : mt.key = k /\ mt.signer

\* mutant: the first meta of a key decides, a later one does not add to it.
IsWritableFirst(payer, ixs, k) ==
    \/ k = payer
    \/ \E i \in DOMAIN ixs : \E j \in DOMAIN ixs[i].accts :
          /\ ixs[i].accts[j].key = k /\ ixs[i].accts[j].writable
          /\ \A h \in 1..i : \A l \in DOMAIN ixs[h].accts :
                (h < i \/ l < j) => ixs[h].accts[l].key # k

IsWritable(payer, ixs, k) ==
    k = payer \/ \E mt \in Metas(ixs) : mt.key = k /\ mt.writable

\* One of the four groups of accounts.
GroupSet(payer, ixs, signer, writable) ==
    { k \in Seen(payer, ixs) \ {payer} :
        /\ IsSigner(payer, ixs, k) <=> signer
        /\ IsWritable(payer, ixs, k) <=> writable }

Group(payer, ixs, signer, writable) == Sorted(GroupSet(payer, ixs, signer, writable))

AllAccounts(payer, ixs) ==
    <<payer>> \o Group(payer, ixs, TRUE, TRUE) \o Group(payer, ixs, TRUE, FALSE)
              \o Group(payer, ixs, FALSE, TRUE) \o Group(payer, ixs, FALSE, FALSE)

NumSigners(payer, ixs) == 1 + Len(Group(payer, ixs, TRUE, TRUE))
                            + Len(Group(payer, ixs, TRUE, FALSE))

\* mutant: one account more than indexes.
TooManyAccountsLate(payer, ixs) == Len(AllAccounts(payer, ixs)) > Byte + 1

TooManyAccounts(payer, ixs) == Len(AllAccounts(payer, ixs)) > Byte

\* indexMap.
IndexOf(keys, k) == SelectInSeq(keys, LAMBDA x : x = k) - 1

CompiledInstruction(keys, ix) ==
    [prog  |-> IndexOf(keys, ix.prog),
     accts |-> [j \in DOMAIN ix.accts |-> IndexOf(keys, ix.accts[j].key)],
     data  |-> ix.data]

\* The message; the three counts of the header are converted to uint8.
Compiled(payer, hash, lookups, ixs) ==
    LET keys == AllAccounts(payer, ixs)
    IN  [req     |-> NumSigners(payer, ixs) % Byte,
         ros     |-> Len(Group(payer, ixs, TRUE, FALSE)) % Byte,
         rou     |-> Len(Group(payer, ixs, FALSE, FALSE)) % Byte,
         keys    |-> keys,
         hash    |-> hash,
         ixs     |-> [i \in DOMAIN ixs |-> CompiledInstruction(keys, ixs[i])],
         lookups |-> lookups]

-----------------------------------------------------------------------------
(***************************************************************************)
(* What the header means to the runtime: the first req keys sign, the last *)
(* ros of those and the last rou of all keys are read only, as the comment *)
(* on the four groups of NewSolanaTx lays them out.                        *)
(***************************************************************************)
Signs(m, i)  == i <= m.req
Writes(m, i) == i <= m.req - m.ros \/ (i > m.req /\ i <= Len(m.keys) - m.rou)

\* m says what the instructions said (NewSolanaTx, solanatx.go:139): the fee payer is
\* first, signs and pays; every index leads back to the account the instruction named,
\* with at least the rights its metas ask for; and no account has a right that no meta
\* asked for.
Says(m, payer, ixs) ==
  /\ m.keys[1] = payer /\ Signs(m, 1) /\ Writes(m, 1)
  /\ \A a, b \in DOMAIN m.keys : m.keys[a] = m.keys[b] => a = b
  /\ Len(m.ixs) = Len(ixs)
  /\ \A i \in DOMAIN m.ixs :
        /\ m.keys[m.ixs[i].prog + 1] = ixs[i].prog
        /\ \A j \in DOMAIN m.ixs[i].accts :
              LET at == m.ixs[i].accts[j] + 1
                  mt == ixs[i].accts[j]
              IN  /\ m.keys[at] = mt.key
                  /\ mt.signer => Signs(m, at)
                  /\ mt.writable => Writes(m, at)
  /\ \A at \in 2..Len(m.keys) :
        /\ Signs(m, at) => \E mt \in Metas(ixs) : mt.key = m.keys[at] /\ mt.signer
        /\ Writes(m, at) => \E mt \in Metas(ixs) : mt.key = m.keys[at] /\ mt.writable

-----------------------------------------------------------------------------
(***************************************************************************)
(* Validation of a message that is read from bytes.                        *)
(***************************************************************************)
\* mutant: the two groups of accounts may not fill the keys.
HeaderOKStrict(m) == /\ m.req <= Len(m.keys)
                     /\ m.ros <= m.req
                     /\ m.req + m.rou < Len(m.keys)

HeaderOK(m) == /\ m.req <= Len(m.keys)
               /\ m.ros <= m.req
               /\ m.req + m.rou <= Len(m.keys)

\* A legacy instruction may name the static keys only (lookups are empty); a v0
\* instruction also what the lookup tables add.
Loaded(m) ==
    UNION { {l} \X (1 .. Len(m.lookups[l].writable) + Len(m.lookups[l].readonly)) :
              l \in DOMAIN m.lookups }

Addressable(m) == Len(m.keys) + Cardinality(Loaded(m))

InRange(m, ix) == /\ ix.prog < Addressable(m)
                  /\ \A j \in DOMAIN ix.accts : ix.accts[j] < Addressable(m)

IndexesOK(m) == \A i \in DOMAIN m.ixs : InRange(m, m.ixs[i])
=============================================================================
