------------------------- MODULE WalletSession_proof -------------------------
(***************************************************************************)
(* The theorems about signing in (WalletSession): a nonce buys one token,   *)
(* and the stored session is that of the account the page shows.  Both hold *)
(* for any number of wallets, sign-ins, account changes, page loads and     *)
(* restarts, whatever is limited to a few of each in the runs.              *)
(*                                                                          *)
(* The nonces: a nonce is active for at most one wallet, at most once, and  *)
(* never again once a token was issued for it; a sign-in asks for its nonce *)
(* once.  The session: whatever starts a sign-in makes a running restore    *)
(* outdated and the other way round, so that the one who writes the store   *)
(* is the only one.                                                         *)
(***************************************************************************)
EXTENDS WalletSession, TLAPS

-----------------------------------------------------------------------------
(* Types.                                                                   *)

Accounts == Wallets \cup {None}
Chains == {"unknown", "cargo", "other"}
Web3s == [account : Accounts, signer : Accounts, chain : Chains, ready : BOOLEAN]
SignIns == [wallet : Wallets, stage : {"nonce", "signing", "verifying", "answered", "done"},
            token : Nat, current : BOOLEAN]
Tokens == [wallet : Wallets, nonce : Nat]
Verifies == [signIn : Nat, copy : 1..2, checked : BOOLEAN]
Chats == [status : {"disconnected", "unauthenticated", "authenticating", "authenticated", "error"},
          wallet : Accounts]
Restores == [token : Nat, wallet : Accounts, chain : Chains]

WalletTypes ==
  /\ selected \in Accounts /\ web3 \in Web3s /\ source \in Web3s
  /\ loading \in [wallet : Accounts, active : BOOLEAN]
  /\ connecting \in [wallet : Accounts, signIn : BOOLEAN]
  /\ connecting # Idle => connecting.wallet \in Wallets

ServerTypes ==
  /\ signIns \in Seq(SignIns) /\ tokens \in Seq(Tokens)
  /\ nonces \in [Wallets -> Seq(Nat)]
  /\ verifies \subseteq Verifies /\ \A v \in verifies : v.signIn \in DOMAIN signIns

-----------------------------------------------------------------------------
(* Nonces.                                                                  *)

(* The sign-in has asked for its nonce, for that wallet.                    *)
Asked(i, w) ==
  /\ i \in DOMAIN signIns
  /\ signIns[i].wallet = w /\ signIns[i].stage # "nonce"

Unused(i) == \A t \in DOMAIN tokens : tokens[t].nonce # i

(* The same of the next state.                                              *)
AskedNext(i, w) ==
  /\ i \in DOMAIN signIns'
  /\ signIns'[i].wallet = w /\ signIns'[i].stage # "nonce"

UnusedNext(i) == \A t \in DOMAIN tokens' : tokens'[t].nonce # i

NoncesOK(w) ==
  /\ \A k \in DOMAIN nonces[w] : Asked(nonces[w][k], w) /\ Unused(nonces[w][k])
  /\ \A k, l \in DOMAIN nonces[w] : nonces[w][k] = nonces[w][l] => k = l

NonceInv ==
  /\ \A w \in Wallets : NoncesOK(w)
  /\ \A t \in DOMAIN tokens : Asked(tokens[t].nonce, tokens[t].wallet)
  /\ OneTokenPerNonce

-----------------------------------------------------------------------------
(* The session.                                                             *)

SigningIn == \E i \in DOMAIN signIns : signIns[i].current

SessionInv ==
  /\ chat \in Chats /\ restoring \in Restores
  /\ store \in {0} \cup DOMAIN tokens
  /\ \A i \in DOMAIN signIns : signIns[i].stage = "answered" =>
       signIns[i].token \in DOMAIN tokens /\ tokens[signIns[i].token].wallet = signIns[i].wallet
  /\ SigningIn => restoring = NoRestore
  /\ restoring # NoRestore => restoring.token = store /\ store # 0
  /\ SessionIsTheAccounts

IInv == WalletTypes /\ ServerTypes /\ NonceInv /\ SessionInv

-----------------------------------------------------------------------------
(* What happens to the sign-ins.                                            *)

(* Sign-ins are only added, and none asks for its nonce again.              *)
Onward ==
  /\ signIns' \in Seq(SignIns) /\ DOMAIN signIns \subseteq DOMAIN signIns'
  /\ \A i \in DOMAIN signIns :
       /\ signIns'[i].wallet = signIns[i].wallet
       /\ signIns[i].stage # "nonce" => signIns'[i].stage # "nonce"

LEMMA OnwardUnchanged ==
  ASSUME ServerTypes, UNCHANGED signIns
  PROVE  Onward
BY DEF ServerTypes, Onward

LEMMA OutdatedFacts ==
  ASSUME NEW s \in Seq(SignIns)
  PROVE  /\ Outdated(s) \in Seq(SignIns) /\ DOMAIN Outdated(s) = DOMAIN s /\ Len(Outdated(s)) = Len(s)
         /\ \A i \in DOMAIN s : /\ Outdated(s)[i].wallet = s[i].wallet
                                /\ Outdated(s)[i].stage = s[i].stage
                                /\ Outdated(s)[i].token = s[i].token
                                /\ ~Outdated(s)[i].current
<1>1. \A i \in DOMAIN s : [s[i] EXCEPT !.current = FALSE] \in SignIns
  <2>1. \A i \in DOMAIN s : s[i] \in SignIns
    OBVIOUS
  <2>2. QED BY <2>1 DEF SignIns
<1>2. \A i \in DOMAIN s : /\ [s[i] EXCEPT !.current = FALSE].wallet = s[i].wallet
                          /\ [s[i] EXCEPT !.current = FALSE].stage = s[i].stage
                          /\ [s[i] EXCEPT !.current = FALSE].token = s[i].token
                          /\ ~[s[i] EXCEPT !.current = FALSE].current
  <2>1. \A i \in DOMAIN s : s[i] \in SignIns
    OBVIOUS
  <2>2. QED BY <2>1 DEF SignIns
<1>3. Outdated(s) = [i \in 1 .. Len(s) |-> [s[i] EXCEPT !.current = FALSE]]
  BY DEF Outdated
<1>4. Outdated(s) \in Seq(SignIns) /\ DOMAIN Outdated(s) = 1 .. Len(s)
  <2>1. \A i \in 1 .. Len(s) : [s[i] EXCEPT !.current = FALSE] \in SignIns
    BY <1>1
  <2>2. Outdated(s) \in [1 .. Len(s) -> SignIns] /\ Len(s) \in Nat
    BY <1>3, <2>1
  <2>3. QED BY <2>2
<1>5. DOMAIN s = 1 .. Len(s) /\ Len(s) \in Nat
  OBVIOUS
<1> HIDE DEF Outdated
<1>6. \A i \in DOMAIN s : Outdated(s)[i] = [s[i] EXCEPT !.current = FALSE]
  BY <1>3, <1>5
<1>7. Len(Outdated(s)) = Len(s)
  BY <1>4, <1>5
<1>8. QED BY <1>2, <1>4, <1>5, <1>6, <1>7

LEMMA OnwardOutdated ==
  ASSUME ServerTypes, signIns' = Outdated(signIns)
  PROVE  Onward
BY OutdatedFacts DEF ServerTypes, Onward

(* One sign-in goes on.                                                     *)
LEMMA OneGoesOn ==
  ASSUME ServerTypes, NEW i \in DOMAIN signIns, NEW new \in SignIns,
         new.wallet = signIns[i].wallet, new.stage # "nonce",
         signIns' = [signIns EXCEPT ![i] = new]
  PROVE  /\ Onward /\ DOMAIN signIns' = DOMAIN signIns /\ signIns'[i] = new
         /\ \A j \in DOMAIN signIns : j # i => signIns'[j] = signIns[j]
BY DEF ServerTypes, Onward

LEMMA DoneFacts ==
  ASSUME ServerTypes, NEW i \in DOMAIN signIns, Done(i)
  PROVE  /\ Onward /\ DOMAIN signIns' = DOMAIN signIns
         /\ signIns'[i].stage = "done" /\ ~signIns'[i].current
         /\ \A j \in DOMAIN signIns : j # i => signIns'[j] = signIns[j]
<1> DEFINE new == [signIns[i] EXCEPT !.stage = "done", !.token = 0, !.current = FALSE]
<1>1. signIns[i] \in SignIns
  BY DEF ServerTypes
<1>2. /\ new \in SignIns /\ new.wallet = signIns[i].wallet
      /\ new.stage = "done" /\ ~new.current
  BY <1>1 DEF SignIns
<1>3. signIns' = [signIns EXCEPT ![i] = new]
  BY DEF Done
<1> HIDE DEF new
<1>4. QED BY <1>2, <1>3, OneGoesOn

-----------------------------------------------------------------------------
(* What happens to the nonces.                                              *)

LEMMA AskedStays ==
  ASSUME Onward, NEW i, NEW w, Asked(i, w)
  PROVE  AskedNext(i, w)
BY DEF Onward, Asked, AskedNext

LEMMA NoncesRead ==
  ASSUME NEW w \in Wallets,
         \A k \in DOMAIN nonces'[w] : AskedNext(nonces'[w][k], w) /\ UnusedNext(nonces'[w][k]),
         \A k, l \in DOMAIN nonces'[w] : nonces'[w][k] = nonces'[w][l] => k = l
  PROVE  NoncesOK(w)'
BY DEF AskedNext, UnusedNext, NoncesOK, Asked, Unused

LEMMA InvRead ==
  ASSUME \A w \in Wallets : NoncesOK(w)',
         \A t \in DOMAIN tokens' : AskedNext(tokens'[t].nonce, tokens'[t].wallet), OneTokenPerNonce'
  PROVE  NonceInv'
BY DEF NonceInv, AskedNext, Asked

(* The active nonces of a wallet become fewer, in the same order or not.    *)
Selects(s, s2) ==
  \E f \in [DOMAIN s2 -> DOMAIN s] :
    /\ \A k \in DOMAIN s2 : s2[k] = s[f[k]]
    /\ \A k, l \in DOMAIN s2 : f[k] = f[l] => k = l

LEMMA SelectsSame == ASSUME NEW s PROVE Selects(s, s)
<1> DEFINE f == [k \in DOMAIN s |-> k]
<1>1. f \in [DOMAIN s -> DOMAIN s] /\ \A k \in DOMAIN s : f[k] = k
  OBVIOUS
<1> HIDE DEF f
<1>2. QED BY <1>1 DEF Selects

LEMMA SelectsTail ==
  ASSUME NEW s \in Seq(Nat), s # <<>>
  PROVE  Tail(s) \in Seq(Nat) /\ Selects(s, Tail(s))
<1> DEFINE f == [k \in DOMAIN Tail(s) |-> k + 1]
<1>1. Tail(s) \in Seq(Nat) /\ \A k \in DOMAIN Tail(s) : k + 1 \in DOMAIN s /\ Tail(s)[k] = s[k + 1]
  OBVIOUS
<1>2. DOMAIN Tail(s) \subseteq Nat
  BY <1>1
<1>3. /\ f \in [DOMAIN Tail(s) -> DOMAIN s]
      /\ \A k \in DOMAIN Tail(s) : f[k] = k + 1 /\ Tail(s)[k] = s[f[k]]
  BY <1>1
<1> HIDE DEF f
<1>4. \A k, l \in DOMAIN Tail(s) : f[k] = f[l] => k = l
  BY <1>2, <1>3
<1>5. QED BY <1>1, <1>3, <1>4 DEF Selects

Dropped(s, k) == [n \in 1 .. Len(s) - 1 |-> s[IF n < k THEN n ELSE n + 1]]

LEMMA SelectsDropped ==
  ASSUME NEW s \in Seq(Nat), NEW k \in DOMAIN s
  PROVE  /\ Dropped(s, k) \in Seq(Nat) /\ Selects(s, Dropped(s, k))
         /\ (\A m, l \in DOMAIN s : s[m] = s[l] => m = l)
              => \A n \in DOMAIN Dropped(s, k) : Dropped(s, k)[n] # s[k]
<1> DEFINE f == [n \in 1 .. Len(s) - 1 |-> IF n < k THEN n ELSE n + 1]
<1>1. Len(s) \in Nat /\ DOMAIN s = 1 .. Len(s) /\ k \in 1 .. Len(s) /\ \A m \in 1 .. Len(s) : s[m] \in Nat
  OBVIOUS
<1>2. \A n \in 1 .. Len(s) - 1 :
        (IF n < k THEN n ELSE n + 1) \in 1 .. Len(s) /\ (IF n < k THEN n ELSE n + 1) # k
  BY <1>1
<1>3. /\ f \in [1 .. Len(s) - 1 -> 1 .. Len(s)]
      /\ \A n \in 1 .. Len(s) - 1 : f[n] = (IF n < k THEN n ELSE n + 1) /\ f[n] # k
  BY <1>2
<1>4. \A n, l \in 1 .. Len(s) - 1 : f[n] = f[l] => n = l
  BY <1>1, <1>3
<1>5. /\ DOMAIN Dropped(s, k) = 1 .. Len(s) - 1
      /\ \A n \in 1 .. Len(s) - 1 : Dropped(s, k)[n] = s[f[n]]
  BY DEF Dropped
<1>6. Dropped(s, k) \in Seq(Nat)
  <2>1. Len(s) - 1 \in Nat
    BY <1>1
  <2>2. Dropped(s, k) \in [1 .. Len(s) - 1 -> Nat]
    BY <1>1, <1>2 DEF Dropped
  <2>3. QED BY <2>1, <2>2
<1> HIDE DEF f
<1>7. Selects(s, Dropped(s, k))
  <2>1. f \in [DOMAIN Dropped(s, k) -> DOMAIN s]
    BY <1>1, <1>3, <1>5
  <2>2. \A n \in DOMAIN Dropped(s, k) : Dropped(s, k)[n] = s[f[n]]
    BY <1>5
  <2>3. \A n, l \in DOMAIN Dropped(s, k) : f[n] = f[l] => n = l
    BY <1>4, <1>5
  <2>4. QED BY <2>1, <2>2, <2>3 DEF Selects
<1>8. ASSUME \A m, l \in DOMAIN s : s[m] = s[l] => m = l, NEW n \in DOMAIN Dropped(s, k)
      PROVE  Dropped(s, k)[n] # s[k]
  <2>1. f[n] \in DOMAIN s /\ f[n] # k /\ Dropped(s, k)[n] = s[f[n]]
    BY <1>1, <1>3, <1>5
  <2>2. QED BY <1>8, <2>1
<1>9. QED BY <1>6, <1>7, <1>8

LEMMA FewerOK ==
  ASSUME NEW w \in Wallets, NoncesOK(w), Onward, UNCHANGED tokens, Selects(nonces[w], nonces'[w])
  PROVE  NoncesOK(w)'
<1>1. PICK f \in [DOMAIN nonces'[w] -> DOMAIN nonces[w]] :
        /\ \A k \in DOMAIN nonces'[w] : nonces'[w][k] = nonces[w][f[k]]
        /\ \A k, l \in DOMAIN nonces'[w] : f[k] = f[l] => k = l
  BY DEF Selects
<1>2. ASSUME NEW k \in DOMAIN nonces'[w]
      PROVE  AskedNext(nonces'[w][k], w) /\ UnusedNext(nonces'[w][k])
  <2>1. Asked(nonces[w][f[k]], w) /\ Unused(nonces[w][f[k]]) /\ nonces'[w][k] = nonces[w][f[k]]
    BY <1>1 DEF NoncesOK
  <2>2. QED BY <2>1, AskedStays DEF Unused, UnusedNext
<1>3. ASSUME NEW k \in DOMAIN nonces'[w], NEW l \in DOMAIN nonces'[w], nonces'[w][k] = nonces'[w][l]
      PROVE  k = l
  BY <1>1, <1>3 DEF NoncesOK
<1>4. QED BY <1>2, <1>3, NoncesRead

(* No new nonce, no new token.                                              *)
LEMMA NoncesOnlyGo ==
  ASSUME NonceInv, Onward, UNCHANGED tokens, \A w \in Wallets : Selects(nonces[w], nonces'[w])
  PROVE  NonceInv'
<1>1. \A w \in Wallets : NoncesOK(w)'
  BY FewerOK DEF NonceInv
<1>2. \A t \in DOMAIN tokens' : AskedNext(tokens'[t].nonce, tokens'[t].wallet)
  BY AskedStays DEF NonceInv
<1>3. OneTokenPerNonce'
  BY DEF NonceInv, OneTokenPerNonce
<1>4. QED BY <1>1, <1>2, <1>3, InvRead

LEMMA NoncesKept ==
  ASSUME NonceInv, ServerTypes, Onward, UNCHANGED <<nonces, tokens>>,
         verifies' \subseteq Verifies, \A v \in verifies' : v.signIn \in DOMAIN signIns
  PROVE  NonceInv' /\ ServerTypes'
<1>1. \A w \in Wallets : Selects(nonces[w], nonces'[w])
  BY SelectsSame
<1>2. NonceInv'
  BY <1>1, NoncesOnlyGo
<1>3. QED BY <1>2 DEF ServerTypes, Onward

LEMMA NonceCreated ==
  ASSUME ServerTypes, NonceInv, Onward, UNCHANGED tokens, NEW i \in DOMAIN signIns,
         signIns[i].stage = "nonce", signIns'[i].stage # "nonce", CreateNonce(signIns[i].wallet, i)
  PROVE  NonceInv' /\ nonces' \in [Wallets -> Seq(Nat)]
<1>0. PICK w \in Wallets : w = signIns[i].wallet
  <2>1. signIns[i] \in SignIns
    BY DEF ServerTypes
  <2>2. QED BY <2>1 DEF SignIns
<1> DEFINE old == nonces[w]
           kept == IF Len(old) >= ActiveNonces THEN Tail(old) ELSE old
<1>1. w \in Wallets /\ old \in Seq(Nat) /\ i \in Nat /\ nonces \in [Wallets -> Seq(Nat)]
  BY DEF ServerTypes
<1>2. nonces' = [nonces EXCEPT ![w] = Append(kept, i)]
  BY <1>0 DEF CreateNonce
<1>3. kept \in Seq(Nat) /\ Selects(old, kept)
  <2>1. old = <<>> => ~(Len(old) >= ActiveNonces)
    BY SessionAssumption
  <2>2. CASE Len(old) >= ActiveNonces
    BY <1>1, <2>1, <2>2, SelectsTail
  <2>3. CASE ~(Len(old) >= ActiveNonces)
    BY <1>1, <2>3, SelectsSame
  <2>4. QED BY <2>2, <2>3
<1> HIDE DEF kept
<1>4. nonces' \in [Wallets -> Seq(Nat)] /\ nonces'[w] = Append(kept, i)
  BY <1>1, <1>2, <1>3
<1>5. AskedNext(i, w) /\ UnusedNext(i)
  <2>1. AskedNext(i, w)
    BY <1>0 DEF Onward, AskedNext
  <2>2. \A t \in DOMAIN tokens : tokens[t].nonce # i
    BY DEF NonceInv, Asked
  <2>3. QED BY <2>1, <2>2 DEF UnusedNext
<1>6. ASSUME NEW k \in DOMAIN kept
      PROVE  /\ AskedNext(kept[k], w) /\ UnusedNext(kept[k]) /\ kept[k] # i
             /\ \A l \in DOMAIN kept : kept[k] = kept[l] => k = l
  <2>1. PICK f \in [DOMAIN kept -> DOMAIN old] :
          /\ \A l \in DOMAIN kept : kept[l] = old[f[l]]
          /\ \A l, m \in DOMAIN kept : f[l] = f[m] => l = m
    BY <1>3 DEF Selects
  <2>2. NoncesOK(w)
    BY <1>1 DEF NonceInv
  <2>3. Asked(kept[k], w) /\ Unused(kept[k])
    BY <2>1, <2>2 DEF NoncesOK
  <2>4. AskedNext(kept[k], w) /\ UnusedNext(kept[k]) /\ kept[k] # i
    BY <2>3, AskedStays DEF Asked, Unused, UnusedNext
  <2>5. \A l \in DOMAIN kept : kept[k] = kept[l] => k = l
    BY <2>1, <2>2 DEF NoncesOK
  <2>6. QED BY <2>4, <2>5
<1>7. NoncesOK(w)'
  <2>1. /\ Len(kept) \in Nat /\ DOMAIN nonces'[w] = 1 .. Len(kept) + 1 /\ DOMAIN kept = 1 .. Len(kept)
        /\ nonces'[w][Len(kept) + 1] = i /\ \A k \in DOMAIN kept : nonces'[w][k] = kept[k]
    BY <1>1, <1>3, <1>4
  <2>2. \A k \in DOMAIN nonces'[w] : k = Len(kept) + 1 \/ k \in DOMAIN kept
    BY <2>1
  <2>3. \A k \in DOMAIN nonces'[w] : AskedNext(nonces'[w][k], w) /\ UnusedNext(nonces'[w][k])
    BY <1>5, <1>6, <2>1, <2>2
  <2>4. \A k, l \in DOMAIN nonces'[w] : nonces'[w][k] = nonces'[w][l] => k = l
    BY <1>6, <2>1, <2>2
  <2>5. QED BY <1>1, <2>3, <2>4, NoncesRead
<1>8. ASSUME NEW u \in Wallets, u # w PROVE NoncesOK(u)'
  <2>1. nonces'[u] = nonces[u]
    BY <1>1, <1>2, <1>8
  <2>2. Selects(nonces[u], nonces'[u])
    BY <2>1, SelectsSame
  <2>3. QED BY <2>2, FewerOK DEF NonceInv
<1>9. \A t \in DOMAIN tokens' : AskedNext(tokens'[t].nonce, tokens'[t].wallet)
  BY AskedStays DEF NonceInv
<1>10. OneTokenPerNonce'
  BY DEF NonceInv, OneTokenPerNonce
<1>11. QED BY <1>4, <1>7, <1>8, <1>9, <1>10, InvRead

(* Using a nonce up: whatever was checked before the signature, here it is  *)
(* still active, so no token was issued for it, and it is gone afterwards.  *)
LEMMA NonceUsed ==
  ASSUME ServerTypes, NonceInv, Onward, NEW i \in DOMAIN signIns, ConsumeNonce(i), IssueToken(i)
  PROVE  /\ NonceInv' /\ nonces' \in [Wallets -> Seq(Nat)]
         /\ tokens' = Append(tokens, [wallet |-> signIns[i].wallet, nonce |-> i])
         /\ tokens' \in Seq(Tokens)
<1> DEFINE w == signIns[i].wallet
           old == nonces[w]
           token == [wallet |-> w, nonce |-> i]
           n == Len(tokens) + 1
<1>1. w \in Wallets /\ old \in Seq(Nat) /\ i \in Nat /\ nonces \in [Wallets -> Seq(Nat)]
  <2>1. signIns[i] \in SignIns /\ i \in Nat
    BY DEF ServerTypes
  <2>2. QED BY <2>1 DEF ServerTypes, SignIns
<1>2. PICK k \in DOMAIN old : old[k] = i /\ nonces' = [nonces EXCEPT ![w] = Dropped(old, k)]
  BY DEF ConsumeNonce, Dropped
<1>3. Asked(i, w) /\ Unused(i) /\ \A m, l \in DOMAIN old : old[m] = old[l] => m = l
  BY <1>1, <1>2 DEF NonceInv, NoncesOK
<1>4. /\ Dropped(old, k) \in Seq(Nat) /\ Selects(old, Dropped(old, k))
      /\ \A m \in DOMAIN Dropped(old, k) : Dropped(old, k)[m] # i
  BY <1>1, <1>2, <1>3, SelectsDropped
<1>5. /\ nonces' \in [Wallets -> Seq(Nat)] /\ nonces'[w] = Dropped(old, k)
      /\ \A u \in Wallets : u # w => nonces'[u] = nonces[u]
  BY <1>1, <1>2, <1>4
<1>6. /\ tokens' = Append(tokens, token) /\ token \in Tokens /\ tokens' \in Seq(Tokens)
      /\ DOMAIN tokens' = DOMAIN tokens \cup {n} /\ n \notin DOMAIN tokens /\ tokens'[n] = token
      /\ \A t \in DOMAIN tokens : tokens'[t] = tokens[t]
  <2>1. tokens' = Append(tokens, token) /\ tokens \in Seq(Tokens) /\ token \in Tokens
    BY <1>1 DEF IssueToken, ServerTypes, Tokens
  <2> HIDE DEF token
  <2>2. QED BY <2>1
<1> HIDE DEF n
<1>7. token.wallet = w /\ token.nonce = i
  OBVIOUS
<1> HIDE DEF token
<1>8. ASSUME NEW j, NEW u, Asked(j, u), Unused(j), j # i PROVE AskedNext(j, u) /\ UnusedNext(j)
  BY <1>6, <1>7, <1>8, AskedStays DEF Unused, UnusedNext
<1>9. ASSUME NEW u \in Wallets PROVE NoncesOK(u)'
  <2>1. Selects(nonces[u], nonces'[u]) /\ \A m \in DOMAIN nonces'[u] : nonces'[u][m] # i
    <3>1. CASE u = w
      BY <1>4, <1>5, <3>1
    <3>2. CASE u # w
      <4>1. \A m \in DOMAIN nonces[u] : Asked(nonces[u][m], u)
        BY DEF NonceInv, NoncesOK
      <4>2. \A m \in DOMAIN nonces[u] : nonces[u][m] # i
        BY <3>2, <4>1 DEF Asked
      <4>3. QED BY <1>5, <3>2, <4>2, SelectsSame
    <3>3. QED BY <3>1, <3>2
  <2>2. PICK f \in [DOMAIN nonces'[u] -> DOMAIN nonces[u]] :
          /\ \A m \in DOMAIN nonces'[u] : nonces'[u][m] = nonces[u][f[m]]
          /\ \A m, l \in DOMAIN nonces'[u] : f[m] = f[l] => m = l
    BY <2>1 DEF Selects
  <2>3. NoncesOK(u)
    BY DEF NonceInv
  <2>4. ASSUME NEW m \in DOMAIN nonces'[u]
        PROVE  AskedNext(nonces'[u][m], u) /\ UnusedNext(nonces'[u][m])
    BY <1>8, <2>1, <2>2, <2>3 DEF NoncesOK
  <2>5. \A m, l \in DOMAIN nonces'[u] : nonces'[u][m] = nonces'[u][l] => m = l
    BY <2>2, <2>3 DEF NoncesOK
  <2>6. QED BY <2>4, <2>5, NoncesRead
<1>10. ASSUME NEW t \in DOMAIN tokens' PROVE AskedNext(tokens'[t].nonce, tokens'[t].wallet)
  <2>1. CASE t = n
    BY <1>3, <1>6, <1>7, <2>1, AskedStays
  <2>2. CASE t \in DOMAIN tokens
    BY <1>6, <2>2, AskedStays DEF NonceInv
  <2>3. QED BY <1>6, <2>1, <2>2
<1>11. OneTokenPerNonce'
  <2>1. \A t \in DOMAIN tokens : tokens'[t].nonce # i
    BY <1>3, <1>6 DEF Unused
  <2>2. \A t, u \in DOMAIN tokens : tokens'[t].nonce = tokens'[u].nonce => t = u
    BY <1>6 DEF NonceInv, OneTokenPerNonce
  <2>3. tokens'[n].nonce = i
    BY <1>6, <1>7
  <2>4. QED BY <1>6, <2>1, <2>2, <2>3 DEF OneTokenPerNonce
<1>12. QED BY <1>5, <1>6, <1>9, <1>10, <1>11, InvRead DEF token

-----------------------------------------------------------------------------
(* What happens to the session.                                             *)

TokensGrow ==
  /\ DOMAIN tokens \subseteq DOMAIN tokens'
  /\ \A t \in DOMAIN tokens : tokens'[t] = tokens[t]

(* A sign-in goes on: it stays current or not.                              *)
LEMMA GoingOnKeepsSession ==
  ASSUME SessionInv, DOMAIN signIns' = DOMAIN signIns, TokensGrow,
         UNCHANGED <<source, store, chat, restoring>>, NEW i \in DOMAIN signIns,
         \A j \in DOMAIN signIns : j # i => signIns'[j] = signIns[j],
         signIns'[i].current = signIns[i].current,
         signIns'[i].stage = "answered" =>
           /\ signIns'[i].token \in DOMAIN tokens'
           /\ tokens'[signIns'[i].token].wallet = signIns'[i].wallet
  PROVE  SessionInv'
<1>1. SigningIn' <=> SigningIn
  BY DEF SigningIn
<1>2. \A j \in DOMAIN signIns' : signIns'[j].stage = "answered" =>
         signIns'[j].token \in DOMAIN tokens' /\ tokens'[signIns'[j].token].wallet = signIns'[j].wallet
  BY DEF SessionInv, TokensGrow
<1>3. SessionIsTheAccounts'
  BY <1>1 DEF SessionInv, SessionIsTheAccounts, TokensGrow, SigningIn
<1>4. QED BY <1>1, <1>2, <1>3 DEF SessionInv, TokensGrow

LEMMA FailKeepsSession ==
  ASSUME ServerTypes, SessionInv, NEW i \in DOMAIN signIns, Fail(i),
         UNCHANGED <<source, restoring, tokens>>
  PROVE  SessionInv' /\ Onward /\ DOMAIN signIns' = DOMAIN signIns
         /\ (signIns[i].stage = "nonce" => signIns'[i].stage # "nonce")
<1>1. /\ Onward /\ DOMAIN signIns' = DOMAIN signIns
      /\ signIns'[i].stage = "done" /\ ~signIns'[i].current
      /\ \A j \in DOMAIN signIns : j # i => signIns'[j] = signIns[j]
  BY DoneFacts DEF Fail
<1>2. \A j \in DOMAIN signIns' : signIns'[j].stage = "answered" =>
         signIns'[j].token \in DOMAIN tokens' /\ tokens'[signIns'[j].token].wallet = signIns'[j].wallet
  BY <1>1 DEF SessionInv
<1>3. SigningIn' => SigningIn
  BY <1>1 DEF SigningIn
<1>4. CASE signIns[i].current
  <2>1. store' = 0 /\ chat' = [status |-> "error", wallet |-> None] /\ restoring = NoRestore
    BY <1>4 DEF Fail, SessionInv, SigningIn
  <2>2. SessionIsTheAccounts'
    BY <2>1 DEF SessionIsTheAccounts
  <2>3. chat' \in Chats
    BY <2>1 DEF Chats, Accounts
  <2>4. QED BY <1>1, <1>2, <2>1, <2>2, <2>3 DEF SessionInv
<1>5. CASE ~signIns[i].current
  <2>1. UNCHANGED <<store, chat>> /\ (SigningIn => SigningIn')
    BY <1>1, <1>5 DEF Fail, SigningIn
  <2>2. SessionIsTheAccounts'
    BY <1>3, <2>1 DEF SessionInv, SessionIsTheAccounts, SigningIn
  <2>3. QED BY <1>1, <1>2, <1>3, <2>1, <2>2 DEF SessionInv
<1>6. QED BY <1>1, <1>4, <1>5

(* Nobody signs in any more, and the session is gone or restored.           *)
LEMMA ClearedSession ==
  ASSUME ServerTypes, SessionInv, NEW w, ClearSession(w), restoring' = NoRestore, UNCHANGED tokens
  PROVE  SessionInv' /\ Onward
<1>1. /\ signIns' \in Seq(SignIns) /\ DOMAIN signIns' = DOMAIN signIns
      /\ \A i \in DOMAIN signIns :
           /\ signIns'[i].wallet = signIns[i].wallet /\ signIns'[i].stage = signIns[i].stage
           /\ signIns'[i].token = signIns[i].token /\ ~signIns'[i].current
  BY OutdatedFacts DEF ClearSession, ServerTypes
<1>2. Onward
  BY OnwardOutdated DEF ClearSession
<1>3. store' = 0 /\ chat'.status # "authenticated"
  BY DEF ClearSession
<1>4. SessionIsTheAccounts' /\ ~SigningIn'
  BY <1>1, <1>3 DEF SessionIsTheAccounts, SigningIn
<1>5. chat' \in Chats /\ restoring' \in Restores
  BY DEF ClearSession, Chats, Accounts, Restores, NoRestore, Chains
<1>6. QED BY <1>1, <1>2, <1>3, <1>4, <1>5 DEF SessionInv

(* Nothing of the session changes.                                          *)
LEMMA SessionAlone ==
  ASSUME SessionInv, UNCHANGED <<source, chat, store, signIns, restoring, tokens>>
  PROVE  SessionInv'
BY DEF SessionInv, SigningIn, SessionIsTheAccounts

(* A sign-in starts: whatever was restored or signed in before is outdated. *)
LEMMA StartKeepsSession ==
  ASSUME ServerTypes, SessionInv, NEW w \in Wallets, StartSignIn(w),
         UNCHANGED <<source, store, tokens>>
  PROVE  SessionInv' /\ Onward
<1>1. CASE Authenticating(signIns, w)
  BY <1>1, SessionAlone, OnwardUnchanged DEF StartSignIn
<1>2. CASE ~Authenticating(signIns, w)
  <2> DEFINE new == [wallet |-> w, stage |-> "nonce", token |-> 0, current |-> TRUE]
             old == Outdated(signIns)
             n == Len(signIns) + 1
  <2>1. /\ signIns' = Append(old, new) /\ restoring' = NoRestore
        /\ chat' = [chat EXCEPT !.status = "authenticating"]
    BY <1>2 DEF StartSignIn, OutdateRestore
  <2>2. new \in SignIns /\ new.wallet = w /\ new.stage = "nonce" /\ new.current
    BY DEF SignIns
  <2>3. /\ old \in Seq(SignIns) /\ DOMAIN old = DOMAIN signIns /\ Len(old) = Len(signIns)
        /\ \A i \in DOMAIN signIns : /\ old[i].wallet = signIns[i].wallet
                                     /\ old[i].stage = signIns[i].stage
                                     /\ old[i].token = signIns[i].token
    BY OutdatedFacts DEF ServerTypes
  <2> HIDE DEF new, old
  <2>4. /\ signIns' \in Seq(SignIns) /\ DOMAIN signIns' = DOMAIN old \cup {n} /\ signIns'[n] = new
        /\ \A i \in DOMAIN old : signIns'[i] = old[i]
    BY <2>1, <2>2, <2>3
  <2> HIDE DEF n
  <2>5. Onward
    BY <2>3, <2>4 DEF Onward
  <2>6. \A i \in DOMAIN signIns' : signIns'[i].stage = "answered" =>
           signIns'[i].token \in DOMAIN tokens' /\ tokens'[signIns'[i].token].wallet = signIns'[i].wallet
    BY <2>2, <2>3, <2>4 DEF SessionInv
  <2>7. chat' \in Chats /\ restoring' \in Restores /\ chat'.status = "authenticating"
    BY <2>1 DEF SessionInv, Chats, Restores, NoRestore, Accounts, Chains
  <2>8. SigningIn' /\ \E i \in DOMAIN signIns' : signIns'[i].current
    BY <2>2, <2>4 DEF SigningIn
  <2>9. SessionIsTheAccounts'
    BY <2>7, <2>8 DEF SessionInv, SessionIsTheAccounts
  <2>10. QED BY <2>1, <2>5, <2>6, <2>7, <2>9 DEF SessionInv
<1>3. QED BY <1>1, <1>2

(* The stored session is the account's or there is none: it is restored, or *)
(* the page waits for the user.                                             *)
LEMMA RestoreKeepsSession ==
  ASSUME ServerTypes, SessionInv, NEW s \in Web3s, s.chain # "other", RestoreChatSession(s),
         store # 0 => tokens[store].wallet = s.account, source' = s, UNCHANGED tokens
  PROVE  SessionInv' /\ Onward
<1>1. /\ DOMAIN signIns' = DOMAIN signIns
      /\ \A i \in DOMAIN signIns :
           /\ signIns'[i].wallet = signIns[i].wallet /\ signIns'[i].stage = signIns[i].stage
           /\ signIns'[i].token = signIns[i].token /\ ~signIns'[i].current
  BY OutdatedFacts DEF RestoreChatSession, ServerTypes
<1>2. Onward
  BY OnwardOutdated DEF RestoreChatSession
<1>3. ~SigningIn' /\ UNCHANGED store
  BY <1>1 DEF SigningIn, RestoreChatSession
<1>4. /\ chat' \in Chats /\ restoring' \in Restores
      /\ chat'.status = "authenticated" => UNCHANGED chat
      /\ restoring' # NoRestore => restoring'.token = store /\ store # 0
  <2>1. CASE store = 0
    BY <2>1 DEF RestoreChatSession, SessionInv, Chats, Restores, NoRestore, Accounts, Chains
  <2>2. CASE store # 0
    <3>1. store \in Nat
      BY <2>2 DEF SessionInv, ServerTypes
    <3>2. QED BY <2>2, <3>1 DEF RestoreChatSession, SessionInv, Restores, Web3s
  <2>3. QED BY <2>1, <2>2
<1>5. SessionIsTheAccounts'
  BY <1>3, <1>4 DEF SessionInv, SessionIsTheAccounts
<1>6. QED BY <1>1, <1>2, <1>3, <1>4, <1>5 DEF SessionInv

-----------------------------------------------------------------------------
(* The steps of the page.                                                   *)

LEMMA CommitKeepsSession ==
  ASSUME IInv, Commit
  PROVE  SessionInv' /\ Onward
<1> USE DEF IInv
<1>1. source' = web3 /\ web3 \in Web3s /\ UNCHANGED tokens
  BY DEF Commit, serverVars, WalletTypes
<1>2. CASE Dependencies(source) = Dependencies(web3)
  <2>1. /\ UNCHANGED sessionVars
        /\ source'.account = source.account /\ source'.chain = source.chain
        /\ source'.ready = source.ready
    BY <1>1, <1>2 DEF Commit, Dependencies
  <2>2. SessionInv'
    BY <1>1, <2>1 DEF sessionVars, SessionInv, SigningIn, SessionIsTheAccounts
  <2>3. QED BY <2>1, <2>2, OnwardUnchanged DEF sessionVars
<1>3. CASE Dependencies(source) # Dependencies(web3)
  <2>1. SessionEffect(web3)
    BY <1>3 DEF Commit
  <2>2. CASE ~web3.ready
    <3>1. UNCHANGED sessionVars
      BY <2>1, <2>2 DEF SessionEffect
    <3>2. SessionInv'
      BY <1>1, <2>2, <3>1 DEF sessionVars, SessionInv, SigningIn, SessionIsTheAccounts
    <3>3. QED BY <3>1, <3>2, OnwardUnchanged DEF sessionVars
  <2>3. CASE ClearSession(web3.account) /\ OutdateRestore
    BY <1>1, <2>3, ClearedSession DEF OutdateRestore
  <2>4. CASE /\ web3.chain = "cargo" /\ Authenticating(signIns, web3.account)
             /\ UNCHANGED sessionVars
    <3>1. SigningIn /\ source'.chain # "other"
      BY <1>1, <2>4 DEF SigningIn, Authenticating
    <3>2. SessionInv'
      BY <1>1, <2>4, <3>1 DEF sessionVars, SessionInv, SigningIn, SessionIsTheAccounts
    <3>3. QED BY <2>4, <3>2, OnwardUnchanged DEF sessionVars
  <2>5. CASE /\ web3.chain # "other" /\ RestoreChatSession(web3)
             /\ store # 0 => tokens[store].wallet = web3.account
    BY <1>1, <2>5, RestoreKeepsSession
  <2>6. QED BY <2>1, <2>2, <2>3, <2>4, <2>5 DEF SessionEffect
<1>4. QED BY <1>2, <1>3

LEMMA RestoreAnsweredKeepsSession ==
  ASSUME IInv, RestoreAnswered
  PROVE  SessionInv' /\ Onward
<1> USE DEF IInv
<1>1. /\ restoring # NoRestore /\ restoring' = NoRestore /\ UNCHANGED <<source, tokens>>
      /\ restoring.token = store /\ store # 0 /\ restoring.wallet \in Accounts
  BY DEF RestoreAnswered, serverVars, SessionInv, Restores
<1>2. NoRestore \in Restores
  BY DEF NoRestore, Restores, Accounts, Chains
<1>3. CASE /\ tokens[restoring.token].wallet = restoring.wallet
           /\ chat' = [status |-> "authenticated", wallet |-> restoring.wallet]
           /\ UNCHANGED <<store, signIns>>
  <2>1. chat' \in Chats
    BY <1>1, <1>3 DEF Chats
  <2>2. SessionIsTheAccounts'
    BY <1>1, <1>3 DEF SessionInv, SessionIsTheAccounts
  <2>3. SessionInv'
    BY <1>1, <1>2, <1>3, <2>1, <2>2 DEF SessionInv, SigningIn
  <2>4. QED BY <1>3, <2>3, OnwardUnchanged
<1>4. CASE ClearSession(source.account)
  BY <1>1, <1>4, ClearedSession
<1>5. CASE UNCHANGED <<chat, store, signIns>>
  <2>1. SessionInv'
    BY <1>1, <1>2, <1>5 DEF SessionInv, SigningIn, SessionIsTheAccounts
  <2>2. QED BY <1>5, <2>1, OnwardUnchanged
<1>6. QED BY <1>3, <1>4, <1>5 DEF RestoreAnswered

LEMMA SignInKeepsSession ==
  ASSUME IInv, SignIn
  PROVE  SessionInv' /\ Onward
<1> USE DEF IInv
<1>1. source.account \in Wallets /\ UNCHANGED <<source, tokens>>
  BY DEF SignIn, serverVars, WalletTypes, Web3s, Accounts
<1>2. CASE chat' = [chat EXCEPT !.status = "error"] /\ UNCHANGED <<store, signIns, restoring, calls>>
  <2>1. chat' \in Chats /\ chat'.status = "error"
    BY <1>2 DEF SessionInv, Chats
  <2>2. SessionInv'
    BY <1>1, <1>2, <2>1 DEF SessionInv, SigningIn, SessionIsTheAccounts
  <2>3. QED BY <1>2, <2>2, OnwardUnchanged
<1>3. CASE StartSignIn(source.account) /\ UNCHANGED store
  <2>1. PICK w \in Wallets : w = source.account
    BY <1>1
  <2>2. QED BY <1>1, <1>3, <2>1, StartKeepsSession
<1>4. CASE /\ signIns' = Outdated(signIns) /\ OutdateRestore
           /\ store' = 0 /\ chat' = [status |-> "error", wallet |-> None]
  <2>1. /\ DOMAIN signIns' = DOMAIN signIns
        /\ \A i \in DOMAIN signIns :
             /\ signIns'[i].wallet = signIns[i].wallet /\ signIns'[i].stage = signIns[i].stage
             /\ signIns'[i].token = signIns[i].token
    BY <1>4, OutdatedFacts DEF ServerTypes
  <2>2. /\ chat' \in Chats /\ chat'.status = "error" /\ store' = 0
        /\ restoring' = NoRestore /\ restoring' \in Restores
    BY <1>4 DEF OutdateRestore, Chats, NoRestore, Restores, Accounts, Chains
  <2>3. SessionInv'
    BY <1>1, <2>1, <2>2 DEF SessionInv, SessionIsTheAccounts
  <2>4. QED BY <1>4, <2>3, OnwardOutdated
<1>5. QED BY <1>2, <1>3, <1>4 DEF SignIn

LEMMA ConnectedKeepsSession ==
  ASSUME IInv, Connected
  PROVE  SessionInv' /\ Onward
<1> USE DEF IInv
<1>1. PICK w \in Wallets : w = connecting.wallet
  BY DEF Connected, WalletTypes
<1>2. UNCHANGED <<source, store, tokens>>
  BY DEF Connected, serverVars
<1>3. CASE StartSignIn(w)
  BY <1>2, <1>3, StartKeepsSession
<1>4. CASE UNCHANGED <<signIns, restoring, calls, chat>>
  BY <1>2, <1>4, SessionAlone, OnwardUnchanged
<1>5. QED BY <1>1, <1>3, <1>4 DEF Connected

LEMMA ReloadKeepsSession ==
  ASSUME IInv, Reload
  PROVE  SessionInv' /\ Onward
<1> USE DEF IInv
<1> DEFINE ended(i) == [signIns[i] EXCEPT !.stage = "done", !.token = 0, !.current = FALSE]
<1>1. /\ signIns \in Seq(SignIns) /\ DOMAIN signIns = 1 .. Len(signIns) /\ Len(signIns) \in Nat
      /\ \A i \in DOMAIN signIns : signIns[i] \in SignIns
  BY DEF ServerTypes
<1>2. \A i \in DOMAIN signIns :
        /\ ended(i) \in SignIns /\ ended(i).wallet = signIns[i].wallet
        /\ ended(i).stage = "done" /\ ~ended(i).current
  BY <1>1 DEF SignIns
<1>3. signIns' = [i \in DOMAIN signIns |-> ended(i)]
  BY DEF Reload
<1> HIDE DEF ended
<1>4. /\ signIns' \in Seq(SignIns) /\ DOMAIN signIns' = DOMAIN signIns
      /\ \A i \in DOMAIN signIns : signIns'[i] = ended(i)
  <2>1. signIns' \in [1 .. Len(signIns) -> SignIns]
    BY <1>1, <1>2, <1>3
  <2>2. QED BY <1>1, <1>3, <2>1
<1>5. Onward
  BY <1>2, <1>4 DEF Onward
<1>6. /\ source' = Blank /\ chat' = [status |-> "disconnected", wallet |-> None]
      /\ restoring' = NoRestore /\ UNCHANGED <<store, tokens>>
  BY DEF Reload, serverVars
<1>7. chat' \in Chats /\ restoring' \in Restores /\ SessionIsTheAccounts'
  BY <1>6 DEF Chats, Restores, NoRestore, Accounts, Chains, SessionIsTheAccounts, Blank
<1>8. SessionInv'
  BY <1>2, <1>4, <1>6, <1>7 DEF SessionInv
<1>9. QED BY <1>5, <1>8

-----------------------------------------------------------------------------
(* The steps of a sign-in and of the server.                                *)

LEMMA RequestNonceKeeps ==
  ASSUME IInv, NEW i \in DOMAIN signIns, RequestNonce(i)
  PROVE  ServerTypes' /\ NonceInv' /\ SessionInv'
<1> USE DEF IInv
<1>1. UNCHANGED <<source, restoring, verifies, tokens>> /\ signIns[i].stage = "nonce"
  BY DEF RequestNonce
<1>2. ASSUME Fail(i)
      PROVE  /\ SessionInv' /\ Onward /\ DOMAIN signIns' = DOMAIN signIns
             /\ signIns'[i].stage # "nonce"
  BY <1>1, <1>2, FailKeepsSession
<1>3. ASSUME signIns' = [signIns EXCEPT ![i].stage = "signing"], UNCHANGED <<chat, store>>
      PROVE  /\ SessionInv' /\ Onward /\ DOMAIN signIns' = DOMAIN signIns
             /\ signIns'[i].stage # "nonce"
  <2> DEFINE new == [signIns[i] EXCEPT !.stage = "signing"]
  <2>1. signIns[i] \in SignIns
    BY DEF ServerTypes
  <2>2. /\ new \in SignIns /\ new.wallet = signIns[i].wallet /\ new.stage = "signing"
        /\ new.current = signIns[i].current
    BY <2>1 DEF SignIns
  <2>3. signIns' = [signIns EXCEPT ![i] = new]
    BY <1>3
  <2> HIDE DEF new
  <2>4. /\ Onward /\ DOMAIN signIns' = DOMAIN signIns /\ signIns'[i] = new
        /\ \A j \in DOMAIN signIns : j # i => signIns'[j] = signIns[j]
    BY <2>2, <2>3, OneGoesOn
  <2>5. TokensGrow
    BY <1>1 DEF TokensGrow
  <2>6. SessionInv'
    BY <1>1, <1>3, <2>2, <2>4, <2>5, GoingOnKeepsSession
  <2>7. QED BY <2>2, <2>4, <2>6
<1>4. SessionInv' /\ Onward /\ DOMAIN signIns' = DOMAIN signIns /\ signIns'[i].stage # "nonce"
  BY <1>2, <1>3 DEF RequestNonce
<1>5. CASE CreateNonce(signIns[i].wallet, i)
  <2>1. NonceInv' /\ nonces' \in [Wallets -> Seq(Nat)]
    BY <1>1, <1>4, <1>5, NonceCreated
  <2>2. QED BY <1>1, <1>4, <2>1 DEF ServerTypes, Onward
<1>6. CASE UNCHANGED nonces
  <2>1. verifies' \subseteq Verifies /\ \A v \in verifies' : v.signIn \in DOMAIN signIns
    BY <1>1 DEF ServerTypes
  <2>2. QED BY <1>1, <1>4, <1>6, <2>1, NoncesKept
<1>7. QED BY <1>5, <1>6 DEF RequestNonce

LEMMA SignKeeps ==
  ASSUME IInv, NEW i \in DOMAIN signIns, Sign(i)
  PROVE  ServerTypes' /\ NonceInv' /\ SessionInv'
<1> USE DEF IInv
<1>1. UNCHANGED <<source, restoring, nonces, tokens>>
  BY DEF Sign
<1>2. ASSUME Fail(i)
      PROVE  SessionInv' /\ Onward
  BY <1>1, <1>2, FailKeepsSession
<1>3. ASSUME signIns' = [signIns EXCEPT ![i].stage = "verifying"], UNCHANGED <<chat, store>>
      PROVE  SessionInv' /\ Onward
  <2> DEFINE new == [signIns[i] EXCEPT !.stage = "verifying"]
  <2>1. signIns[i] \in SignIns
    BY DEF ServerTypes
  <2>2. /\ new \in SignIns /\ new.wallet = signIns[i].wallet /\ new.stage = "verifying"
        /\ new.current = signIns[i].current
    BY <2>1 DEF SignIns
  <2>3. signIns' = [signIns EXCEPT ![i] = new]
    BY <1>3
  <2> HIDE DEF new
  <2>4. /\ Onward /\ DOMAIN signIns' = DOMAIN signIns /\ signIns'[i] = new
        /\ \A j \in DOMAIN signIns : j # i => signIns'[j] = signIns[j]
    BY <2>2, <2>3, OneGoesOn
  <2>5. TokensGrow
    BY <1>1 DEF TokensGrow
  <2>6. QED BY <1>1, <1>3, <2>2, <2>4, <2>5, GoingOnKeepsSession
<1>4. SessionInv' /\ Onward
  BY <1>2, <1>3 DEF Sign
<1>5. verifies' \subseteq Verifies /\ \A v \in verifies' : v.signIn \in DOMAIN signIns
  <2>1. CASE UNCHANGED verifies
    BY <2>1 DEF ServerTypes
  <2>2. ASSUME NEW copies \in {1..1, 1..2},
               verifies' = verifies \cup {[signIn |-> i, copy |-> k, checked |-> FALSE] : k \in copies}
        PROVE  verifies' \subseteq Verifies /\ \A v \in verifies' : v.signIn \in DOMAIN signIns
    <3>1. i \in Nat /\ copies \subseteq 1..2
      BY DEF ServerTypes
    <3>2. \A k \in copies : /\ [signIn |-> i, copy |-> k, checked |-> FALSE] \in Verifies
                            /\ [signIn |-> i, copy |-> k, checked |-> FALSE].signIn \in DOMAIN signIns
      BY <3>1 DEF Verifies
    <3>3. QED BY <2>2, <3>2 DEF ServerTypes
  <2>3. QED BY <2>1, <2>2 DEF Sign
<1>6. QED BY <1>1, <1>4, <1>5, NoncesKept

LEMMA CheckVerifyKeeps ==
  ASSUME IInv, NEW v \in verifies, CheckVerify(v)
  PROVE  ServerTypes' /\ NonceInv' /\ SessionInv'
<1> USE DEF IInv
<1>1. PICK i \in DOMAIN signIns : i = v.signIn
  BY DEF ServerTypes
<1>2. UNCHANGED <<source, restoring, nonces, tokens>>
  BY DEF CheckVerify
<1>3. SessionInv' /\ Onward
  <2>1. CASE Fail(i)
    BY <1>2, <2>1, FailKeepsSession
  <2>2. CASE UNCHANGED <<signIns, chat, store>>
    BY <1>2, <2>2, SessionAlone, OnwardUnchanged
  <2>3. QED BY <1>1, <2>1, <2>2 DEF CheckVerify
<1>4. verifies' \subseteq Verifies /\ \A u \in verifies' : u.signIn \in DOMAIN signIns
  <2>1. /\ [v EXCEPT !.checked = TRUE] \in Verifies
        /\ [v EXCEPT !.checked = TRUE].signIn \in DOMAIN signIns
    <3>1. v \in Verifies /\ v.signIn \in DOMAIN signIns
      BY DEF ServerTypes
    <3>2. QED BY <3>1 DEF Verifies
  <2>2. verifies' \subseteq verifies \cup {[v EXCEPT !.checked = TRUE]}
    BY DEF CheckVerify
  <2>3. QED BY <2>1, <2>2 DEF ServerTypes
<1>5. QED BY <1>2, <1>3, <1>4, NoncesKept

LEMMA FinishVerifyKeeps ==
  ASSUME IInv, NEW v \in verifies, FinishVerify(v)
  PROVE  ServerTypes' /\ NonceInv' /\ SessionInv'
<1> USE DEF IInv
<1>1. PICK i \in DOMAIN signIns : i = v.signIn
  BY DEF ServerTypes
<1>2. /\ UNCHANGED <<source, restoring>> /\ verifies' \subseteq Verifies
      /\ \A u \in verifies' : u.signIn \in DOMAIN signIns
  BY DEF FinishVerify, ServerTypes
<1>3. CASE /\ \/ signIns[i].stage = "verifying" /\ Fail(i)
              \/ UNCHANGED <<signIns, chat, store>>
           /\ UNCHANGED <<nonces, tokens>>
  <2>1. SessionInv' /\ Onward
    <3>1. CASE Fail(i)
      BY <1>2, <1>3, <3>1, FailKeepsSession
    <3>2. CASE UNCHANGED <<signIns, chat, store>>
      BY <1>2, <1>3, <3>2, SessionAlone, OnwardUnchanged
    <3>3. QED BY <1>3, <3>1, <3>2
  <2>2. QED BY <1>2, <1>3, <2>1, NoncesKept
<1>4. ASSUME ConsumeNonce(i), IssueToken(i), UNCHANGED <<chat, store>>,
             \/ signIns' = [signIns EXCEPT ![i].stage = "answered", ![i].token = Len(tokens) + 1]
             \/ UNCHANGED signIns
      PROVE  ServerTypes' /\ NonceInv' /\ SessionInv'
  <2> DEFINE new == [signIns[i] EXCEPT !.stage = "answered", !.token = Len(tokens) + 1]
             token == [wallet |-> signIns[i].wallet, nonce |-> i]
  <2>1. signIns[i] \in SignIns /\ i \in Nat /\ tokens \in Seq(Tokens) /\ Len(tokens) + 1 \in Nat
    BY DEF ServerTypes
  <2>2. /\ new \in SignIns /\ new.wallet = signIns[i].wallet /\ new.stage = "answered"
        /\ new.current = signIns[i].current /\ new.token = Len(tokens) + 1
    BY <2>1 DEF SignIns
  <2>3. token \in Tokens /\ token.wallet = signIns[i].wallet
    BY <2>1 DEF Tokens, SignIns
  <2>4. CASE UNCHANGED signIns
    <3>1. Onward
      BY <2>4, OnwardUnchanged
    <3>2. NonceInv' /\ nonces' \in [Wallets -> Seq(Nat)] /\ tokens' = Append(tokens, token) /\ tokens' \in Seq(Tokens)
      BY <1>4, <3>1, NonceUsed
    <3> HIDE DEF token
    <3>3. TokensGrow
      BY <2>1, <2>3, <3>2 DEF TokensGrow
    <3>4. SessionInv'
      BY <1>2, <1>4, <2>4, <3>3 DEF SessionInv, SigningIn, SessionIsTheAccounts, TokensGrow
    <3>5. QED BY <1>2, <2>4, <3>2, <3>4 DEF ServerTypes
  <2>5. CASE signIns' = [signIns EXCEPT ![i].stage = "answered", ![i].token = Len(tokens) + 1]
    <3>1. signIns' = [signIns EXCEPT ![i] = new]
      BY <2>1, <2>5
    <3> HIDE DEF new
    <3>2. /\ Onward /\ DOMAIN signIns' = DOMAIN signIns /\ signIns'[i] = new
          /\ \A j \in DOMAIN signIns : j # i => signIns'[j] = signIns[j]
      BY <2>2, <3>1, OneGoesOn
    <3>3. NonceInv' /\ nonces' \in [Wallets -> Seq(Nat)] /\ tokens' = Append(tokens, token) /\ tokens' \in Seq(Tokens)
      BY <1>4, <3>2, NonceUsed
    <3> HIDE DEF token
    <3>4. TokensGrow /\ Len(tokens) + 1 \in DOMAIN tokens' /\ tokens'[Len(tokens) + 1] = token
      BY <2>1, <2>3, <3>3 DEF TokensGrow
    <3>5. SessionInv'
      BY <1>2, <1>4, <2>2, <2>3, <3>2, <3>4, GoingOnKeepsSession
    <3>6. QED BY <1>2, <3>2, <3>3, <3>5 DEF ServerTypes, Onward
  <2>6. QED BY <1>4, <2>4, <2>5
<1>5. QED BY <1>1, <1>3, <1>4 DEF FinishVerify

LEMMA StoreSessionKeepsSession ==
  ASSUME IInv, NEW i \in DOMAIN signIns, StoreSession(i)
  PROVE  SessionInv' /\ Onward
<1> USE DEF IInv
<1>1. UNCHANGED <<source, restoring, tokens>> /\ signIns[i].stage = "answered"
  BY DEF StoreSession, serverVars
<1>2. CASE ~StillCurrent(i)
  <2>1. Fail(i)
    BY <1>2 DEF StoreSession
  <2>2. QED BY <1>1, <2>1, FailKeepsSession
<1>3. CASE StillCurrent(i)
  <2>1. /\ store' = signIns[i].token /\ Done(i)
        /\ chat' = [status |-> "authenticated", wallet |-> signIns[i].wallet]
    BY <1>3 DEF StoreSession
  <2>2. /\ signIns[i].current /\ source.account = signIns[i].wallet /\ source.chain = "cargo"
        /\ signIns[i].wallet \in Wallets /\ SigningIn
    <3>1. signIns[i] \in SignIns
      BY DEF ServerTypes
    <3>2. QED BY <1>3, <3>1 DEF StillCurrent, SigningIn, SignIns
  <2>3. /\ store' \in DOMAIN tokens /\ tokens[store'].wallet = signIns[i].wallet
        /\ restoring = NoRestore /\ store' # 0
    BY <1>1, <2>1, <2>2 DEF SessionInv, ServerTypes
  <2>4. /\ Onward /\ DOMAIN signIns' = DOMAIN signIns
        /\ signIns'[i].stage = "done" /\ ~signIns'[i].current
        /\ \A j \in DOMAIN signIns : j # i => signIns'[j] = signIns[j]
    BY <2>1, DoneFacts
  <2>5. chat' \in Chats
    BY <2>1, <2>2 DEF Chats, Accounts
  <2>6. SessionIsTheAccounts'
    BY <1>1, <2>1, <2>2, <2>3 DEF SessionIsTheAccounts
  <2>7. \A j \in DOMAIN signIns' : signIns'[j].stage = "answered" =>
           signIns'[j].token \in DOMAIN tokens' /\ tokens'[signIns'[j].token].wallet = signIns'[j].wallet
    BY <1>1, <2>4 DEF SessionInv
  <2>8. SessionInv'
    BY <1>1, <2>3, <2>5, <2>6, <2>7 DEF SessionInv
  <2>9. QED BY <2>4, <2>8
<1>4. QED BY <1>2, <1>3

-----------------------------------------------------------------------------
(* The invariant.                                                           *)

LEMMA TypesKept ==
  ASSUME WalletTypes, [Next]_vars
  PROVE  WalletTypes'
<1> USE DEF WalletTypes, Web3s, Accounts, Chains, metamaskVars, web3Vars
<1>0. ASSUME NEW w \in Accounts, AccountsChanged(w)
      PROVE  web3' \in Web3s /\ loading' \in [wallet : Accounts, active : BOOLEAN]
  BY <1>0 DEF AccountsChanged
<1>1. CASE AccountsRead
  <2>1. PICK w \in Accounts : w = selected
    OBVIOUS
  <2>2. AccountsChanged(w) \/ UNCHANGED <<web3, loading>>
    BY <1>1, <2>1 DEF AccountsRead
  <2>3. web3' \in Web3s /\ loading' \in [wallet : Accounts, active : BOOLEAN]
    BY <1>0, <2>2
  <2>4. UNCHANGED <<selected, source, connecting>>
    BY <1>1 DEF AccountsRead
  <2>5. QED BY <2>3, <2>4
<1>2. CASE NetworkRead
  BY <1>2 DEF NetworkRead, Network
<1>3. CASE AccountLoaded
  BY <1>3 DEF AccountLoaded, Network, NotLoading
<1>4. CASE Connected
  BY <1>4 DEF Connected, Network, Idle
<1>5. CASE Commit
  BY <1>5 DEF Commit
<1>6. ASSUME NEW w \in Wallets \cup {None}, SelectAccount(w) PROVE WalletTypes'
  BY <1>6 DEF SelectAccount, AccountsChanged
<1>7. ASSUME NEW w \in Wallets, NEW signIn \in BOOLEAN, Connect(w, signIn) PROVE WalletTypes'
  <2>1. AccountsChanged(w) \/ UNCHANGED <<web3, loading>>
    BY <1>7 DEF Connect
  <2>2. web3' \in Web3s /\ loading' \in [wallet : Accounts, active : BOOLEAN]
    BY <1>0, <2>1
  <2>3. /\ selected' \in {w, selected} /\ UNCHANGED source
        /\ connecting' = [wallet |-> w, signIn |-> signIn]
    BY <1>7 DEF Connect
  <2>4. QED BY <2>2, <2>3
<1>8. CASE Reload
  BY <1>8 DEF Reload, Blank, NotLoading, Idle
<1>9. ASSUME UNCHANGED <<selected, web3Vars, source>> PROVE WalletTypes'
  BY <1>9
<1>10. CASE SignIn \/ CallApi \/ RestoreAnswered \/ ServerRestarts \/ UNCHANGED vars
  BY <1>9, <1>10 DEF SignIn, CallApi, RestoreAnswered, ServerRestarts, vars
<1>11. ASSUME NEW i \in DOMAIN signIns, SignInStep(i) PROVE WalletTypes'
  BY <1>9, <1>11 DEF SignInStep, RequestNonce, Sign, StoreSession, Unanswered
<1>12. ASSUME NEW v \in verifies, VerifyStep(v) PROVE WalletTypes'
  BY <1>9, <1>12 DEF VerifyStep, CheckVerify, FinishVerify
<1>13. ASSUME NEW t, CallAnswered(t) \/ TokenExpires(t) \/ NonceExpires(t) PROVE WalletTypes'
  BY <1>9, <1>13 DEF CallAnswered, TokenExpires, NonceExpires
<1>14. QED
  BY <1>1, <1>2, <1>3, <1>4, <1>5, <1>6, <1>7, <1>8, <1>10, <1>11, <1>12, <1>13
     DEF Next, WalletStep, UserStep

LEMMA SessionInit ==
  ASSUME Init
  PROVE  IInv
<1>1. WalletTypes
  BY DEF Init, WalletTypes, Web3s, Accounts, Chains, Blank, NotLoading, Idle
<1>2. ServerTypes
  BY DEF Init, ServerTypes
<1>3. NonceInv
  BY DEF Init, NonceInv, NoncesOK, OneTokenPerNonce
<1>4. SessionInv
  BY DEF Init, SessionInv, Chats, Restores, NoRestore, Accounts, Chains, SigningIn,
         SessionIsTheAccounts, Blank
<1>5. QED BY <1>1, <1>2, <1>3, <1>4 DEF IInv

(* The server leaves a page alone that does not ask it anything.            *)
LEMMA ServerAlone ==
  ASSUME IInv, SessionInv', Onward, UNCHANGED serverVars
  PROVE  ServerTypes' /\ NonceInv' /\ SessionInv'
<1>1. UNCHANGED <<nonces, tokens, verifies>>
  BY DEF serverVars
<1>2. verifies' \subseteq Verifies /\ \A v \in verifies' : v.signIn \in DOMAIN signIns
  BY <1>1 DEF IInv, ServerTypes
<1>3. QED BY <1>1, <1>2, NoncesKept DEF IInv

LEMMA SessionStep ==
  ASSUME IInv, [Next]_vars
  PROVE  IInv'
<1> DEFINE Goal == ServerTypes' /\ NonceInv' /\ SessionInv'
<1>1. WalletTypes'
  BY TypesKept DEF IInv
<1> SUFFICES Goal
  BY <1>1 DEF IInv
<1>2. ASSUME UNCHANGED <<source, chat, store, signIns, restoring, nonces, tokens>>,
             verifies' \subseteq verifies
      PROVE  Goal
  <2>1. SessionInv' /\ Onward
    BY <1>2, SessionAlone, OnwardUnchanged DEF IInv
  <2>2. verifies' \subseteq Verifies /\ \A v \in verifies' : v.signIn \in DOMAIN signIns
    BY <1>2 DEF IInv, ServerTypes
  <2>3. QED BY <1>2, <2>1, <2>2, NoncesKept DEF IInv
<1>3. CASE AccountsRead \/ NetworkRead \/ AccountLoaded \/ CallApi \/ UNCHANGED vars
  BY <1>2, <1>3 DEF AccountsRead, NetworkRead, AccountLoaded, CallApi, vars, sessionVars, serverVars
<1>4. ASSUME NEW w, SelectAccount(w) \/ TokenExpires(w) \/ (\E s \in BOOLEAN : Connect(w, s)) PROVE Goal
  BY <1>2, <1>4 DEF SelectAccount, TokenExpires, Connect, sessionVars, serverVars
<1>5. CASE Connected
  BY <1>5, ConnectedKeepsSession, ServerAlone DEF Connected, serverVars
<1>6. CASE Commit
  BY <1>6, CommitKeepsSession, ServerAlone DEF Commit
<1>7. CASE SignIn
  BY <1>7, SignInKeepsSession, ServerAlone DEF SignIn
<1>8. CASE Reload
  BY <1>8, ReloadKeepsSession, ServerAlone DEF Reload, serverVars
<1>9. CASE RestoreAnswered
  BY <1>9, RestoreAnsweredKeepsSession, ServerAlone DEF RestoreAnswered
<1>10. ASSUME NEW t, CallAnswered(t) PROVE Goal
  <2>1. UNCHANGED <<source, serverVars>>
    BY <1>10 DEF CallAnswered
  <2>2. CASE ClearSession(source.account) /\ restoring' = NoRestore
    <3>1. SessionInv' /\ Onward
      BY <2>1, <2>2, ClearedSession DEF IInv, serverVars
    <3>2. QED BY <2>1, <3>1, ServerAlone
  <2>3. CASE UNCHANGED <<chat, store, signIns, restoring>>
    BY <1>2, <2>1, <2>3 DEF serverVars
  <2>4. QED BY <1>10, <2>2, <2>3 DEF CallAnswered
<1>11. ASSUME NEW i \in DOMAIN signIns, SignInStep(i) PROVE Goal
  <2>1. CASE RequestNonce(i)
    BY <2>1, RequestNonceKeeps
  <2>2. CASE Sign(i)
    BY <2>2, SignKeeps
  <2>3. CASE StoreSession(i)
    BY <2>3, StoreSessionKeepsSession, ServerAlone DEF StoreSession
  <2>4. CASE Unanswered(i)
    <3>1. Fail(i) /\ UNCHANGED <<source, restoring, serverVars>>
      BY <2>4 DEF Unanswered
    <3>2. SessionInv' /\ Onward
      BY <3>1, FailKeepsSession DEF IInv, serverVars
    <3>3. QED BY <3>1, <3>2, ServerAlone
  <2>5. QED BY <1>11, <2>1, <2>2, <2>3, <2>4 DEF SignInStep
<1>12. ASSUME NEW v \in verifies, VerifyStep(v) PROVE Goal
  BY <1>12, CheckVerifyKeeps, FinishVerifyKeeps DEF VerifyStep
<1>13. ASSUME NEW w \in Wallets, NonceExpires(w) PROVE Goal
  <2>1. /\ UNCHANGED <<source, chat, store, signIns, restoring, verifies, tokens>>
        /\ nonces[w] # <<>> /\ nonces' = [nonces EXCEPT ![w] = Tail(nonces[w])]
    BY <1>13 DEF NonceExpires, sessionVars
  <2>2. nonces \in [Wallets -> Seq(Nat)]
    BY DEF IInv, ServerTypes
  <2>3. Tail(nonces[w]) \in Seq(Nat) /\ Selects(nonces[w], Tail(nonces[w]))
    BY <2>1, <2>2, SelectsTail
  <2>4. nonces' \in [Wallets -> Seq(Nat)] /\ \A u \in Wallets : Selects(nonces[u], nonces'[u])
    <3>1. \A u \in Wallets : Selects(nonces[u], nonces[u])
      BY SelectsSame
    <3>2. QED BY <2>1, <2>2, <2>3, <3>1
  <2>5. SessionInv' /\ Onward
    BY <2>1, SessionAlone, OnwardUnchanged DEF IInv
  <2>6. NonceInv'
    BY <2>1, <2>4, <2>5, NoncesOnlyGo DEF IInv
  <2>7. QED BY <2>1, <2>4, <2>5, <2>6 DEF IInv, ServerTypes
<1>14. CASE ServerRestarts
  <2>1. /\ UNCHANGED <<source, chat, store, signIns, restoring, tokens>>
        /\ nonces' = [w \in Wallets |-> <<>>] /\ verifies' = {}
    BY <1>14 DEF ServerRestarts, sessionVars
  <2>2. SessionInv' /\ Onward
    BY <2>1, SessionAlone, OnwardUnchanged DEF IInv
  <2>3. \A w \in Wallets : NoncesOK(w)'
    BY <2>1 DEF NoncesOK
  <2>4. NonceInv'
    BY <2>1, <2>3 DEF IInv, NonceInv, OneTokenPerNonce, Asked
  <2>5. QED BY <2>1, <2>2, <2>4 DEF IInv, ServerTypes
<1>15. QED
  BY <1>3, <1>4, <1>5, <1>6, <1>7, <1>8, <1>9, <1>10, <1>11, <1>12, <1>13, <1>14
     DEF Next, WalletStep, UserStep

-----------------------------------------------------------------------------
(* The theorems.                                                            *)

LEMMA SessionInvariant == Spec => []IInv
<1>1. Init => IInv
  BY SessionInit
<1>2. IInv /\ [Next]_vars => IInv'
  BY SessionStep
<1>3. QED BY <1>1, <1>2, PTL DEF Spec

(* A nonce buys one token, however often the signed message is delivered,   *)
(* however long the signature check takes and whenever the server restarts: *)
(* POST /verify of auth.js consumes the nonce after the check it awaits.    *)
THEOREM EveryNonceBuysOneToken == Spec => []OneTokenPerNonce
<1>1. IInv => OneTokenPerNonce
  BY DEF IInv, NonceInv
<1>2. QED BY <1>1, SessionInvariant, PTL

(* The token in sessionStorage is that of the account ChatAuthContext saw   *)
(* in its last render, on CargoChain's network, or a sign-in is under way   *)
(* that will replace it; and a page that says "signed in" holds a token of  *)
(* the wallet it names.                                                     *)
THEOREM SessionIsAlwaysTheAccounts == Spec => []SessionIsTheAccounts
<1>1. IInv => SessionIsTheAccounts
  BY DEF IInv, SessionInv
<1>2. QED BY <1>1, SessionInvariant, PTL

=============================================================================
