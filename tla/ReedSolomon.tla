---------------------------- MODULE ReedSolomon ----------------------------
(***************************************************************************)
(* The Reed-Solomon code of experimental/lib/src/reed_solomon, as RsCodec  *)
(* uses it: first root 0, primitive element 1 (so iprim is 1), no inverted *)
(* data, no erasures, no syndrome given by the caller, and a message of    *)
(* nn - nroots symbols, so that nothing is padded.  These are its tables   *)
(* and steps; EccExperiment runs them.                                     *)
(*                                                                         *)
(* A symbol is the set of its bits that are one, so that exclusive or is   *)
(* the symmetric difference and zero is {}.  Arrays of the code are        *)
(* functions on 0..n-1.  Polynomials are in index form where the code has  *)
(* them in index form: the index of zero is nn.                            *)
(***************************************************************************)
EXTENDS Integers, FiniteSets, FiniteSetsExt

CONSTANTS mm,      \* bits per symbol (symsize)
          gfpoly,  \* the field's generator polynomial, as the set of its exponents
          nroots   \* the number of parity symbols

nn == 2^mm - 1

ASSUME ReedSolomonAssumption ==
  /\ mm \in Nat \ {0}
  /\ gfpoly \in SUBSET (0..mm) /\ mm \in gfpoly
  /\ nroots \in 1..(nn - 1)

Symbol == SUBSET (0..mm-1)
DataSymbol == 0..(nn - nroots - 1)
Message == [DataSymbol -> Symbol]
Parity == [0..nroots-1 -> Symbol]

EBADMSG == 74

Xor(s, t) == (s \ t) \union (t \ s)
XorAll(S, Term(_)) == {bit \in 0..mm-1 : Cardinality({i \in S : bit \in Term(i)}) % 2 = 1}

\* rs_modnn() folds the bits above the mm-th onto the lower ones, as 2^mm = 1 modulo nn.
ModnnStep(x) == ((x - nn) \div 2^mm) + ((x - nn) % 2^mm)
rs_modnn[x \in Nat] == IF x >= nn THEN rs_modnn[ModnnStep(x)] ELSE x

(***************************************************************************)
(* rs_init(): the tables and the generator polynomial                      *)
(***************************************************************************)

\* sr <<= 1, reduced by the field's polynomial when a bit falls out.
ShiftLeft(sr) ==
  LET doubled == {bit + 1 : bit \in sr}
  IN  (IF mm \in doubled THEN Xor(doubled, gfpoly) ELSE doubled) \ {mm}

power[i \in Nat] == IF i = 0 THEN {0} ELSE ShiftLeft(power[i - 1])

alpha_to == [i \in 0..nn |-> IF i = nn THEN {} ELSE power[i]]

\* "If it's not primitive, exit": a necessary condition only, the powers may come back to
\* one before the nn-th.
PassesPrimitiveTest == power[nn] = power[0]

Primitive == PassesPrimitiveTest /\ Cardinality({power[i] : i \in 0..nn-1}) = nn

index_of == [s \in Symbol |-> CHOOSE i \in 0..nn : alpha_to[i] = s]

\* alpha to the power i, and the product of two symbols given by their indices.
Power(i) == alpha_to[rs_modnn[i]]
Product(i, j) == IF i = nn \/ j = nn THEN {} ELSE Power(i + j)

\* The product of x + alpha^root for the roots below i, coefficients as symbols.
partial[i \in 0..nroots] ==
  IF i = 0 THEN [j \in 0..nroots |-> IF j = 0 THEN {0} ELSE {}]
  ELSE [j \in 0..nroots |->
          Xor(IF j = 0 THEN {} ELSE partial[i - 1][j - 1],
              Product(index_of[partial[i - 1][j]], i - 1))]

genpoly == [j \in 0..nroots |-> index_of[partial[nroots][j]]]

(***************************************************************************)
(* encode_rs8(): a shift register with feedback                            *)
(***************************************************************************)

\* Takes one symbol in; the parity array need not be zero to begin with.
EncodeStep(par, symbol) ==
  LET fb == index_of[Xor(symbol, par[0])]
  IN  [j \in 0..nroots-1 |->
         Xor(IF j = nroots - 1 THEN {} ELSE par[j + 1],
             IF fb = nn THEN {} ELSE Power(fb + genpoly[nroots - 1 - j]))]

\* The parity array after the whole message, starting from what the array held.
encode_rs8(data, par) ==
  LET register[i \in 0..(nn - nroots)] ==
        IF i = 0 THEN par ELSE EncodeStep(register[i - 1], data[i - 1])
  IN  register[nn - nroots]

(***************************************************************************)
(* decode_rs8(): data and parity make a word of nn symbols                 *)
(***************************************************************************)

\* Word(x) at each of the generator's roots by Horner's rule, in index form.
Syndromes(word) ==
  [i \in 0..nroots-1 |->
     LET horner[j \in 0..nn-1] ==
           IF j = 0 THEN word[0]
           ELSE Xor(word[j], Product(index_of[horner[j - 1]], i))
     IN  index_of[horner[nn - 1]]]

\* The shift register of Berlekamp-Massey: lambda is the error locator polynomial in symbols,
\* b the correction polynomial in index form, el the register's length.
EmptyRegister ==
  [lambda |-> [i \in 0..nroots |-> IF i = 0 THEN {0} ELSE {}],
   b |-> [i \in 0..nroots |-> IF i = 0 THEN 0 ELSE nn],
   el |-> 0]

\* What the register predicts for the syndrome before r, together with that syndrome.
Discrepancy(lambda, r, s) ==
  XorAll(0..r-1, LAMBDA i : Product(index_of[lambda[i]], s[r - i - 1]))

\* Plausible bug: the correction polynomial is not shifted.
TimesXForgotten(b) == b
TimesX(b) == [i \in 0..nroots |-> IF i = 0 THEN nn ELSE b[i - 1]]

\* Step r of Berlekamp-Massey.
BerlekampMasseyStep(st, r, s) ==
  LET discr_r == index_of[Discrepancy(st.lambda, r, s)]
      t == [i \in 0..nroots |-> Xor(st.lambda[i], Product(discr_r, TimesX(st.b)[i]))]
      scaled == [i \in 0..nroots |-> IF st.lambda[i] = {} THEN nn
                                    ELSE rs_modnn[index_of[st.lambda[i]] - discr_r + nn]]
  IN  IF discr_r = nn THEN [st EXCEPT !.b = TimesX(st.b)]
      ELSE IF 2 * st.el <= r - 1 THEN [lambda |-> t, b |-> scaled, el |-> r - st.el]
      ELSE [st EXCEPT !.lambda = t, !.b = TimesX(st.b)]

IndexForm(lambda) == [i \in 0..nroots |-> index_of[lambda[i]]]

Degree(lambda) == Max({i \in 0..nroots : lambda[i] # nn})

\* A polynomial in index form, of which the coefficients in S count, at alpha^x.
ValueAt(poly, S, x) ==
  XorAll(S, LAMBDA i : IF poly[i] = nn THEN {} ELSE Power(poly[i] + i * x))

\* Chien search
Roots(lambda) == {i \in 1..nn : ValueAt(lambda, 0..Degree(lambda), i) = {}}

\* Forney's formula: the value of the error that belongs to a root.
ErrorValue(lambda, s, root) ==
  LET deg == Degree(lambda)
      omega == [i \in 0..deg-1 |-> index_of[XorAll(0..i, LAMBDA j : Product(s[i - j], lambda[j]))]]
      num1 == ValueAt(omega, 0..deg-1, root)
      num2 == Power(nn - root)
      \* the formal derivative of lambda: its odd coefficients, one power lower
      even == {i \in 0..(IF deg <= nroots - 1 THEN deg ELSE nroots - 1) : i % 2 = 0}
      den == ValueAt([i \in even |-> lambda[i + 1]], even, root)
  IN  IF num1 = {} THEN {}
      ELSE Power(index_of[num1] + index_of[num2] + nn - index_of[den])

\* The symbol that the error of a root of lambda is in.
\* Plausible bug: counted from one, as the roots are.
LocationFromOne(root) == root
Location(root) == root - 1

\* Plausible bug: fewer roots than the degree says are taken as good.
LocatedAny(lambda) == Roots(lambda) # {}
Located(lambda) == Cardinality(Roots(lambda)) = Degree(lambda)

\* What decode_rs8() returns for a register that has run over all syndromes, and what it
\* leaves in data; the parity is not corrected.
Correct(word, s, st) ==
  LET data == [i \in DataSymbol |-> word[i]]
      lambda == IndexForm(st.lambda)
      errors == [root \in Roots(lambda) |-> ErrorValue(lambda, s, root)]
      cor(i) == UNION {errors[root] : root \in {x \in DOMAIN errors : Location(x) = i}}
  IN  IF Located(lambda)
      THEN [count |-> Cardinality(DOMAIN errors),
            data |-> [i \in DataSymbol |-> Xor(data[i], cor(i))]]
      ELSE [count |-> -EBADMSG, data |-> data]
=============================================================================
