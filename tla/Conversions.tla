----------------------------- MODULE Conversions -----------------------------
(***************************************************************************)
(* The conversions between what a client says, what the bindings pass on   *)
(* and what a module or a token makes of it: token labels, which are cut   *)
(* or padded when written and trimmed when read, and the structures and    *)
(* signing parameters of Layout and Signing.                               *)
(***************************************************************************)
EXTENDS Layout, Signing, FiniteSets

CONSTANTS Slots,    \* slot numbers, in the order of GetSlotList
          Width,    \* stands for 32, the width of a label
          Letters,  \* characters that are not blank
          Salts,    \* salt lengths that a client asks for, special ones included
          MaxSig    \* bytes of the longest signature

ASSUME SlotsAssumption == Slots \subseteq Nat
ASSUME WidthAssumption == Width \in Nat \ {0}
\* They are of type int.
ASSUME SaltsAssumption == Salts \subseteq -(UintMod \div 2)..UintMod \div 2 - 1
ASSUME MaxSigAssumption == MaxSig \in Nat

VARIABLES tokens,  \* tokens[s]: the label field of the token in slot s
          given,   \* history: the label last given to that token by InitToken
          result   \* of the call that has just returned, if the client still has it

vars == <<tokens, given, result>>

Blank == " "
Strings(n) == UNION {[1..k -> Letters \cup {Blank}] : k \in 0..n}
Labels == Strings(Width + 1)

-----------------------------------------------------------------------------
MutpadString(s, length) == \* without the blanks, as zeros
  [i \in 1..length |-> IF i <= Len(s) THEN s[i] ELSE "0"]

padString(s, length) == [i \in 1..length |-> IF i <= Len(s) THEN s[i] ELSE Blank]

trimPaddedString(b) ==
  LET end == CHOOSE end \in 0..Len(b) :
               /\ end = 0 \/ b[end] # Blank
               /\ \A i \in end + 1..Len(b) : b[i] = Blank
  IN SubSeq(b, 1, end)

\* A token that has not been initialised shows a blank label.
Init ==
  /\ tokens = [s \in Slots |-> padString(<< >>, Width)]
  /\ given = [s \in Slots |-> << >>]
  /\ result = [op |-> "none"]

Free == result = [op |-> "none"]

InitToken(s, label) ==
  /\ Free
  /\ tokens' = [tokens EXCEPT ![s] = padString(label, Width)]
  /\ given' = [given EXCEPT ![s] = label]
  /\ UNCHANGED result

\* The slots are tried in order; one whose token gives no information is skipped.
OpenSession(label, failing) ==
  LET matches == {s \in Slots \ failing : trimPaddedString(tokens[s]) = label}
  IN /\ Free
     /\ result' = [op |-> "OpenSession", label |-> label, failing |-> failing,
                   slot |-> {s \in matches : \A t \in matches : s <= t}]
     /\ UNCHANGED <<tokens, given>>

\* A structure goes from the module to the code, or the other way.
Pass(name) ==
  /\ Free
  /\ result' = [op |-> "Pass", name |-> name, got |-> Exchange(name)]
  /\ UNCHANGED <<tokens, given>>

SignRSA(scheme, hash, salt) ==
  /\ Free
  /\ result' = [op |-> "SignRSA",
                asked |-> [scheme |-> scheme, hash |-> hash, salt |-> salt],
                got |-> TokenSigns(IF scheme = "PSS" THEN PSSParams(hash, salt)
                                   ELSE PKCS1Params(hash))]
  /\ UNCHANGED <<tokens, given>>

\* The token gives its signature, r and s with their leading zeros, or some bytes.
SignECDSA(sig) ==
  /\ Free
  /\ result' = [op |-> "SignECDSA", sig |-> sig, got |-> pkcs11ToRFC5480(sig)]
  /\ UNCHANGED <<tokens, given>>

Continue ==
  /\ ~Free
  /\ result' = [op |-> "none"]
  /\ UNCHANGED <<tokens, given>>

Bytes(n) == UNION {[1..k -> 0..Base - 1] : k \in 0..n}

Next ==
  \/ \E label \in Labels :
       \/ \E s \in Slots : InitToken(s, label)
       \/ \E failing \in SUBSET Slots : OpenSession(label, failing)
  \/ \E name \in DOMAIN CStructs : Pass(name)
  \/ \E hash \in DOMAIN HashSize :
       \/ SignRSA("PKCS1v15", hash, 0)
       \/ \E salt \in Salts : SignRSA("PSS", hash, salt)
  \/ \E sig \in Bytes(MaxSig) : SignECDSA(sig)
  \/ Continue

Spec == Init /\ [][Next]_vars

-----------------------------------------------------------------------------
(* Properties *)

\* A label that fits, and does not end in a blank, finds the token that was given
\* it, if its information can be read, and never a token that was given another
\* such label.  (padString and trimPaddedString, which cut and trim, with the
\* comparison in openSession.)
Plain(label) == Len(label) <= Width /\ (label # << >> => label[Len(label)] # Blank)
LabelsFound ==
  result.op = "OpenSession" =>
    /\ \A s \in result.slot : Plain(given[s]) => given[s] = result.label
    /\ Plain(result.label)
         => (result.slot # {} \/ \A s \in Slots \ result.failing : given[s] # result.label)

\* Every field of a C structure is where the other side put it, none is read from
\* outside, those the code leaves alone are zero, and no module writes past the end
\* of a buffer.  (The offsets and sizes in pkcs11.go, arena.go, params.go and
\* funclist.go against pkcs11t.h.)
FieldsArrive ==
  result.op = "Pass" =>
    /\ result.got.fits
    /\ LET got == result.got.got
           places == CPlaces(CStructs[result.name])
       IN \A f \in DOMAIN got :
            got[f] = IF result.name \in DOMAIN Arguments
                        /\ f \notin DOMAIN Arguments[result.name].at
                     THEN Zeros(places[f][2]) ELSE Contents(f, places[f][2])

\* The token signs with the scheme, the hash and the salt length that were asked
\* for, the hash's for the two special lengths, or Sign fails; and it fails only for
\* a hash that is not supported or a salt that the key cannot take.  An ECDSA
\* signature keeps r and s, and bytes that are not two halves are refused.
\* (rsaSigningParams, digestInfoPrefix, pssHashToMechanism, pkcs11ToRFC5480.)
Wanted(asked) ==
  [asked EXCEPT !.salt =
     IF asked.scheme = "PSS" /\ @ \in {PSSSaltLengthAuto, PSSSaltLengthEqualsHash}
     THEN HashSize[asked.hash] ELSE @]
Halves(sig, r, s) == Len(r) = Len(s) /\ sig = r \o s /\ sig # << >>
SignsWhatWasAsked ==
  /\ result.op = "SignRSA" =>
       LET wanted == Wanted(result.asked)
       IN result.got = IF wanted.hash \in Supported /\ wanted.salt \in 0..MaxSalt
                       THEN wanted ELSE Error
  /\ result.op = "SignECDSA" =>
       IF \E r, s \in Bytes(MaxSig \div 2) : Halves(result.sig, r, s)
       THEN \E r, s \in Bytes(MaxSig \div 2) :
              /\ Halves(result.sig, r, s)
              /\ result.got = [scheme |-> "ECDSA", r |-> SetBytes(r), s |-> SetBytes(s)]
       ELSE result.got = Error
=============================================================================
