----------------------------- MODULE WalletSession -----------------------------
(***************************************************************************)
(* Signing in with a wallet: MetaMask, the browser's wallet context         *)
(* (Web3Context), the session context above it (ChatAuthContext) with its   *)
(* sessionStorage, and the Express routes under /api/auth with their nonces *)
(* in memory.                                                               *)
(*                                                                          *)
(* What is hard here is that nothing waits for anything: MetaMask changes   *)
(* the account while a connection, a sign-in or a restore is under way, a   *)
(* sign-in asks five parties one after another, an answer arrives for the   *)
(* account before last, and the server forgets its nonces when it restarts. *)
(*                                                                          *)
(* React is modelled by what it does: a state change (web3) reaches         *)
(* sourceRef and the effect's dependencies (source) at the next Commit, and *)
(* everything else can happen in between.                                   *)
(***************************************************************************)
EXTENDS Integers, Sequences, FiniteSets

CONSTANTS
  Wallets,        \* the accounts of the user's MetaMask
  None,           \* no account, no signer, a handler that has finished
  ActiveNonces,   \* MAX_ACTIVE_NONCES_PER_WALLET
  MaxSignIns,     \* bound: sign-ins started
  MaxTurns        \* bound: changes of account, connections, page loads, doubled
                  \* deliveries and restarts of the server, taken together

ASSUME SessionAssumption ==
  /\ None \notin Wallets
  /\ ActiveNonces \in Nat \ {0}
  /\ MaxSignIns \in Nat /\ MaxTurns \in Nat

VARIABLES
  selected,     \* MetaMask: the account the site may see, or None
  onCargo,      \* MetaMask: it is on CargoChain's network
  left,         \* what is left of MaxTurns
  web3,         \* Web3Context: [account, signer, chain, ready]
  asked,        \* eth_accounts of the page load has not answered
  loading,      \* the accountsChanged handler that is awaiting its signer
  connecting,   \* connect(): the account it was given, and whether to sign in
  source,       \* web3 as of the last render
  chat,         \* ChatAuthContext: [status, wallet]
  store,        \* sessionStorage: the stored token, 0 when there is none
  signIns,      \* authenticateChat, one record for every operation started
  restoring,    \* the restoreChatSession whose answer is still wanted
  calls,        \* the tokens carried by the other requests in flight
  nonces,       \* server: the active nonces of a wallet, oldest first
  verifies,     \* server: POST /verify handlers that have not answered
  tokens,       \* every token issued: whose, and for which nonce
  expired       \* the tokens whose eight hours are over

metamaskVars == <<selected, onCargo>>
serverVars == <<nonces, verifies, tokens, expired>>
sessionVars == <<chat, store, signIns, restoring, calls>>
web3Vars == <<web3, asked, loading, connecting>>
vars == <<metamaskVars, left, web3Vars, source, sessionVars, serverVars>>

-----------------------------------------------------------------------------
Blank == [account |-> None, signer |-> None, chain |-> "unknown", ready |-> FALSE]

Idle == [wallet |-> None, signIn |-> FALSE]
NotLoading == [wallet |-> None, active |-> FALSE]
NoRestore == [token |-> 0, wallet |-> None, chain |-> "unknown"]

\* What getNetwork answers. A change of network reloads the page.
Network == IF onCargo THEN "cargo" ELSE "other"

TakeTurn == left > 0 /\ left' = left - 1

Init == /\ selected \in Wallets \cup {None} /\ onCargo \in BOOLEAN
        /\ left = MaxTurns
        /\ web3 = Blank /\ asked = TRUE /\ loading = NotLoading /\ connecting = Idle
        /\ source = Blank
        /\ chat = [status |-> "disconnected", wallet |-> None]
        /\ store = 0 /\ signIns = <<>> /\ restoring = NoRestore /\ calls = {}
        /\ nonces = [w \in Wallets |-> <<>>] /\ verifies = {}
        /\ tokens = <<>> /\ expired = {}

-----------------------------------------------------------------------------
(* The wallet context.                                                      *)

\* The synchronous part of onAccountsChanged. An earlier handler still waiting
\* finds its revision out of date and does nothing more.
AccountsChanged(w) == /\ web3' = [web3 EXCEPT !.account = w, !.signer = None]
                      /\ loading' = [wallet |-> w, active |-> TRUE]

\* The user chooses another account, or none, and MetaMask says so.
SelectAccount(w) ==
  /\ TakeTurn /\ w # selected
  /\ selected' = w
  /\ AccountsChanged(w)
  /\ UNCHANGED <<onCargo, asked, connecting, source, sessionVars, serverVars>>

\* eth_accounts of the page load answers, or is refused and leaves the page waiting
\* for the user to connect.
AccountsRead ==
  /\ asked /\ asked' = FALSE
  /\ \/ AccountsChanged(selected)
     \/ UNCHANGED <<web3, loading>>
  /\ UNCHANGED <<metamaskVars, left, connecting, source, sessionVars, serverVars>>

\* The network read of the page load.
NetworkRead ==
  /\ web3.chain = "unknown"
  /\ web3' = [web3 EXCEPT !.chain = Network]
  /\ UNCHANGED <<metamaskVars, left, asked, loading, connecting, source, sessionVars, serverVars>>

\* The latest handler has its signer and the network, or could not load them.  The
\* code sets the signer just before it reads the network; both are one step here, so a
\* signer that is taken away again because the network could not be read is left out.
AccountLoaded ==
  /\ loading.active /\ loading' = NotLoading
  /\ \/ web3' = [web3 EXCEPT !.signer = loading.wallet, !.chain = Network, !.ready = TRUE]
     \/ web3' = [web3 EXCEPT !.signer = None, !.ready = TRUE]
  /\ UNCHANGED <<metamaskVars, left, asked, connecting, source, sessionVars, serverVars>>

\* connect(): the user picks w, which MetaMask also announces when it is a change.
\* The connect button is there without an account or on the right network; the
\* message button (signIn) connects first when there is none.
Connect(w, signIn) ==
  /\ TakeTurn /\ connecting = Idle
  /\ IF signIn THEN source.account = None /\ chat.status \notin {"authenticating", "authenticated"}
               ELSE source.account = None \/ source.chain = "cargo"
  /\ connecting' = [wallet |-> w, signIn |-> signIn]
  /\ IF w = selected THEN UNCHANGED <<selected, web3, loading>>
                     ELSE selected' = w /\ AccountsChanged(w)
  /\ UNCHANGED <<onCargo, asked, source, sessionVars, serverVars>>

-----------------------------------------------------------------------------
(* The session context.                                                     *)

\* authOperationRef.current += 1: no operation under way is the current one. A restore
\* that is not is a request like any other.
Outdated(s) == [i \in DOMAIN s |-> [s[i] EXCEPT !.current = FALSE]]

OutdateRestore == /\ calls' = calls \cup ({restoring.token} \ {0})
                  /\ restoring' = NoRestore

Authenticating(s, w) == \E i \in DOMAIN s : s[i].current /\ s[i].wallet = w

\* What clearChatSession does to all but the requests in flight, called while the last
\* render saw account w.
ClearSession(w) ==
  /\ signIns' = Outdated(signIns)
  /\ store' = 0
  /\ chat' = [status |-> IF w = None THEN "disconnected" ELSE "unauthenticated", wallet |-> None]

\* Slip: without a stored token the status stays what it was.
RestoreOnlyTokens(s) ==
  /\ signIns' = Outdated(signIns)
  /\ calls' = calls \cup ({restoring.token} \ {0})
  /\ restoring' = IF store = 0 THEN NoRestore
                  ELSE [token |-> store, wallet |-> s.account, chain |-> s.chain]
  /\ UNCHANGED <<store, chat>>

\* restoreChatSession, after the effect has started a new generation of operations.
RestoreChatSession(s) ==
  /\ signIns' = Outdated(signIns)
  /\ UNCHANGED store
  /\ calls' = calls \cup ({restoring.token} \ {0})
  /\ IF store = 0
       THEN /\ chat' = [status |-> "unauthenticated", wallet |-> None]
            /\ restoring' = NoRestore
       ELSE /\ restoring' = [token |-> store, wallet |-> s.account, chain |-> s.chain]
            /\ UNCHANGED chat

\* Slip: every session is restored, another wallet's too.
RestoreAlways(s) ==
  IF s.ready /\ s.account # None THEN RestoreChatSession(s) ELSE UNCHANGED sessionVars

\* The effect of ChatAuthProvider, for the render that saw s.
SessionEffect(s) ==
  CASE ~s.ready -> UNCHANGED sessionVars
    [] s.ready /\ (s.account = None \/ s.chain = "other") ->
         ClearSession(s.account) /\ OutdateRestore
    [] s.ready /\ s.account # None /\ s.chain # "other" ->
         IF s.chain = "cargo" /\ Authenticating(signIns, s.account)
           THEN UNCHANGED sessionVars
           ELSE IF store # 0 /\ tokens[store].wallet # s.account
                  THEN ClearSession(s.account) /\ OutdateRestore
                  ELSE RestoreChatSession(s)

\* React renders what the handlers set and runs the effect when what it depends on
\* changed; the signer is not among that.
Dependencies(s) == <<s.account, s.chain, s.ready>>

Commit ==
  /\ source # web3 /\ source' = web3
  /\ IF Dependencies(source) = Dependencies(web3) THEN UNCHANGED sessionVars
                                                   ELSE SessionEffect(web3)
  /\ UNCHANGED <<metamaskVars, left, web3Vars, serverVars>>

\* The listener for a refused token, registered by the effect.
Listening == source.ready /\ source.account # None /\ source.chain # "other"

\* Any protected request of the page: it carries whatever token is stored.
CallApi ==
  /\ chat.status = "authenticated" /\ store # 0
  /\ calls' = calls \cup {store}
  /\ UNCHANGED <<metamaskVars, left, web3Vars, source, chat, store, signIns, restoring, serverVars>>

\* Such a request comes back. A refused token is announced to the whole page, whoever
\* asked.
CallAnswered(t) ==
  /\ t \in calls /\ calls' = calls \ {t}
  /\ \/ t \in expired /\ Listening /\ ClearSession(source.account) /\ restoring' = NoRestore
     \/ UNCHANGED <<chat, store, signIns, restoring>>
  /\ UNCHANGED <<metamaskVars, left, web3Vars, source, serverVars>>

\* GET /me answers the restore: with the wallet of the token, or not at all, which
\* counts as no session.
RestoreAnswered ==
  /\ restoring # NoRestore /\ restoring' = NoRestore
  /\ LET wanted == source.account = restoring.wallet /\ source.chain = restoring.chain
         ok == restoring.token \notin expired
     IN \/ /\ wanted /\ ok /\ tokens[restoring.token].wallet = restoring.wallet
           /\ chat' = [status |-> "authenticated", wallet |-> restoring.wallet]
           /\ UNCHANGED <<store, signIns>>
        \/ (wanted \/ (~ok /\ Listening)) /\ ClearSession(source.account)
        \/ ~wanted /\ UNCHANGED <<chat, store, signIns>>
  /\ UNCHANGED <<metamaskVars, left, web3Vars, source, calls, serverVars>>

-----------------------------------------------------------------------------
(* authenticateChat.                                                        *)

\* A new operation for account w with a signer of that account; an operation of the same
\* account is shared.
StartSignIn(w) ==
  IF Authenticating(signIns, w)
    THEN UNCHANGED <<signIns, restoring, calls, chat>>
    ELSE /\ Len(signIns) < MaxSignIns
         /\ signIns' = Append(Outdated(signIns),
                              [wallet |-> w, stage |-> "nonce", token |-> 0, current |-> TRUE])
         /\ OutdateRestore
         /\ chat' = [chat EXCEPT !.status = "authenticating"]

\* The sign-in buttons: the account of the last render. A signer of another account ends
\* the operation at once.
SignIn ==
  /\ source.account # None
  /\ chat.status # "authenticated" \/ store = 0
  /\ CASE source.signer = None \/ source.chain # "cargo" ->
            /\ chat' = [chat EXCEPT !.status = "error"]
            /\ UNCHANGED <<store, signIns, restoring, calls>>
       [] source.chain = "cargo" /\ source.signer = source.account ->
            StartSignIn(source.account) /\ UNCHANGED store
       [] source.chain = "cargo" /\ source.signer \notin {None, source.account} ->
            /\ signIns' = Outdated(signIns) /\ OutdateRestore
            /\ store' = 0 /\ chat' = [status |-> "error", wallet |-> None]
  /\ UNCHANGED <<metamaskVars, left, web3Vars, source, serverVars>>

\* The rest of connect(): it has its signer and network, or gives up. The account it
\* was given is set whatever MetaMask has announced since, and the message button signs
\* in with that account before React has rendered it.
Connected ==
  /\ connecting # Idle /\ connecting' = Idle
  /\ LET w == connecting.wallet
     IN \/ /\ web3' = [web3 EXCEPT !.account = w, !.signer = w, !.chain = Network]
           /\ IF connecting.signIn /\ onCargo THEN StartSignIn(w)
                                              ELSE UNCHANGED <<signIns, restoring, calls, chat>>
        \/ UNCHANGED <<web3, signIns, restoring, calls, chat>>
  /\ UNCHANGED <<metamaskVars, left, asked, loading, source, store, serverVars>>

\* The operation ends.
Done(i) == signIns' = [signIns EXCEPT ![i] = [@ EXCEPT !.stage = "done", !.token = 0, !.current = FALSE]]

\* The operation fails. Only the current one tells the page.
Fail(i) ==
  /\ Done(i)
  /\ IF signIns[i].current
       THEN store' = 0 /\ chat' = [status |-> "error", wallet |-> None]
       ELSE UNCHANGED <<store, chat>>

\* createNonce: past ActiveNonces the oldest nonce of the wallet is dropped. The
\* operation's number stands for the random nonce.
CreateNonce(w, i) ==
  LET kept == IF Len(nonces[w]) >= ActiveNonces THEN Tail(nonces[w]) ELSE nonces[w]
  IN nonces' = [nonces EXCEPT ![w] = Append(kept, i)]

\* POST /nonce; the request or the answer may be lost.
RequestNonce(i) ==
  /\ signIns[i].stage = "nonce"
  /\ \/ /\ CreateNonce(signIns[i].wallet, i)
        /\ \/ /\ signIns' = [signIns EXCEPT ![i].stage = "signing"]
              /\ UNCHANGED <<chat, store>>
           \/ Fail(i)
     \/ Fail(i) /\ UNCHANGED nonces
  /\ UNCHANGED <<metamaskVars, left, web3Vars, source, restoring, calls, verifies, tokens, expired>>

StillCurrent(i) == /\ signIns[i].current
                   /\ source.account = signIns[i].wallet
                   /\ source.chain = "cargo"

\* The user answers the signature dialog; the signed message is sent only for an
\* account that is still the page's. The network may deliver it twice.
Sign(i) ==
  /\ signIns[i].stage = "signing"
  /\ \/ /\ StillCurrent(i)
        /\ signIns' = [signIns EXCEPT ![i].stage = "verifying"]
        /\ \E copies \in {1..1, 1..2} :
             /\ verifies' = verifies \cup {[signIn |-> i, copy |-> k, checked |-> FALSE] : k \in copies}
             /\ IF copies = 1..2 THEN TakeTurn ELSE UNCHANGED left
        /\ UNCHANGED <<chat, store>>
     \/ Fail(i) /\ UNCHANGED <<left, verifies>>
  /\ UNCHANGED <<metamaskVars, web3Vars, source, restoring, calls, nonces, tokens, expired>>

IsActive(i) == \E k \in DOMAIN nonces[signIns[i].wallet] : nonces[signIns[i].wallet][k] = i

\* POST /verify up to the signature check it awaits.
CheckVerify(v) ==
  /\ v \in verifies /\ ~v.checked
  /\ \/ /\ IsActive(v.signIn)
        /\ verifies' = (verifies \ {v}) \cup {[v EXCEPT !.checked = TRUE]}
        /\ UNCHANGED <<signIns, chat, store>>
     \/ /\ verifies' = verifies \ {v}
        /\ \/ signIns[v.signIn].stage = "verifying" /\ Fail(v.signIn)
           \/ UNCHANGED <<signIns, chat, store>>
  /\ UNCHANGED <<metamaskVars, left, web3Vars, source, restoring, calls, nonces, tokens, expired>>

\* Slip: the check made before the signature is relied upon after it.
ConsumeCheckedNonce(i) ==
  nonces' = [nonces EXCEPT ![signIns[i].wallet] = SelectSeq(@, LAMBDA n : n # i)]

\* consumeNonce: the nonce must still be there, and is gone afterwards.
ConsumeNonce(i) ==
  LET w == signIns[i].wallet
  IN \E k \in DOMAIN nonces[w] :
       /\ nonces[w][k] = i
       /\ nonces' = [nonces EXCEPT ![w] =
            [n \in 1 .. Len(nonces[w]) - 1 |-> nonces[w][IF n < k THEN n ELSE n + 1]]]

IssueToken(i) == tokens' = Append(tokens, [wallet |-> signIns[i].wallet, nonce |-> i])

\* The rest of POST /verify: one use of the nonce and a token, or a refusal. The answer
\* may be lost on its way.
FinishVerify(v) ==
  /\ v \in verifies /\ v.checked
  /\ verifies' = verifies \ {v}
  /\ LET i == v.signIn
     IN \/ /\ ConsumeNonce(i)
           /\ IssueToken(i)
           /\ \/ /\ signIns[i].stage = "verifying"
                 /\ signIns' = [signIns EXCEPT ![i].stage = "answered", ![i].token = Len(tokens) + 1]
              \/ UNCHANGED signIns
           /\ UNCHANGED <<chat, store>>
        \/ /\ \/ signIns[i].stage = "verifying" /\ Fail(i)
              \/ UNCHANGED <<signIns, chat, store>>
           /\ UNCHANGED <<nonces, tokens>>
  /\ UNCHANGED <<metamaskVars, left, web3Vars, source, restoring, calls, expired>>

\* No answer will come to the sign-in any more: fetch gives up.
Unanswered(i) ==
  /\ signIns[i].stage = "verifying"
  /\ ~\E v \in verifies : v.signIn = i
  /\ Fail(i)
  /\ UNCHANGED <<metamaskVars, left, web3Vars, source, restoring, calls, serverVars>>

\* The token is stored, when the page still wants it.
StoreSession(i) ==
  /\ signIns[i].stage = "answered"
  /\ IF StillCurrent(i)
       THEN /\ store' = signIns[i].token
            /\ chat' = [status |-> "authenticated", wallet |-> signIns[i].wallet]
            /\ Done(i)
       ELSE Fail(i)
  /\ UNCHANGED <<metamaskVars, left, web3Vars, source, restoring, calls, serverVars>>

-----------------------------------------------------------------------------
(* Time, restarts and page loads.                                           *)

\* The five minutes of a wallet's oldest nonce are over.
NonceExpires(w) ==
  /\ nonces[w] # <<>> /\ nonces' = [nonces EXCEPT ![w] = Tail(@)]
  /\ UNCHANGED <<metamaskVars, left, web3Vars, source, sessionVars, verifies, tokens, expired>>

\* Eight hours after a token was issued. That of a token nobody holds is nothing.
TokenExpires(t) ==
  /\ t \in ({store, restoring.token} \cup calls) \ ({0} \cup expired)
  /\ expired' = expired \cup {t}
  /\ UNCHANGED <<metamaskVars, left, web3Vars, source, sessionVars, nonces, verifies, tokens>>

\* The nonces are in memory; the tokens are signed and outlive the server.
ServerRestarts ==
  /\ TakeTurn
  /\ nonces' = [w \in Wallets |-> <<>>] /\ verifies' = {}
  /\ UNCHANGED <<metamaskVars, web3Vars, source, sessionVars, tokens, expired>>

\* A page load, by the user or because MetaMask changed the network: everything but
\* sessionStorage starts again.
Reload ==
  /\ TakeTurn
  /\ onCargo' \in BOOLEAN
  /\ web3' = Blank /\ asked' = TRUE /\ loading' = NotLoading /\ connecting' = Idle
  /\ source' = Blank
  /\ chat' = [status |-> "disconnected", wallet |-> None]
  /\ signIns' = [i \in DOMAIN signIns |-> [signIns[i] EXCEPT !.stage = "done", !.token = 0, !.current = FALSE]]
  /\ restoring' = NoRestore /\ calls' = {}
  /\ UNCHANGED <<selected, store, serverVars>>

-----------------------------------------------------------------------------
WalletStep == AccountsRead \/ NetworkRead \/ AccountLoaded \/ Connected \/ Commit

SignInStep(i) == RequestNonce(i) \/ Sign(i) \/ StoreSession(i) \/ Unanswered(i)

VerifyStep(v) == CheckVerify(v) \/ FinishVerify(v)

UserStep ==
  \/ \E w \in Wallets \cup {None} : SelectAccount(w)
  \/ \E w \in Wallets, signIn \in BOOLEAN : Connect(w, signIn)
  \/ SignIn \/ CallApi \/ Reload

Next ==
  \/ WalletStep
  \/ UserStep
  \/ \E i \in DOMAIN signIns : SignInStep(i)
  \/ \E v \in verifies : VerifyStep(v)
  \/ RestoreAnswered
  \/ \E t \in calls : CallAnswered(t)
  \/ \E w \in Wallets : NonceExpires(w)
  \/ \E t \in DOMAIN tokens : TokenExpires(t)
  \/ ServerRestarts

\* Promises settle: MetaMask and the RPC answer, the user answers the dialogs, fetch
\* returns or fails, and React renders. No click, expiry or reload need happen.
Fairness ==
  /\ WF_vars(AccountsRead) /\ WF_vars(AccountLoaded) /\ WF_vars(Connected) /\ WF_vars(Commit)
  /\ \A i \in 1..MaxSignIns : WF_vars(i \in DOMAIN signIns /\ SignInStep(i))
  /\ WF_vars(\E v \in verifies : VerifyStep(v))
  /\ WF_vars(RestoreAnswered)

Spec == Init /\ [][Next]_vars
FairSpec == Spec /\ Fairness

-----------------------------------------------------------------------------
\* Properties.

\* A stored session is that of the account the page shows, on CargoChain's network: a
\* rendered change of either clears it, unless a sign-in is under way, which ends by
\* replacing or clearing it (the message button signs in with an account React has not
\* rendered yet, so that sign-in need not be the shown account's own).  The page never
\* shows a wallet as signed in without the token of that very wallet.
SessionIsTheAccounts ==
  /\ (source.ready /\ store # 0) =>
       /\ source.chain # "other"
       /\ \/ tokens[store].wallet = source.account
          \/ \E i \in DOMAIN signIns : signIns[i].current
  /\ chat.status = "authenticated" => store # 0 /\ tokens[store].wallet = chat.wallet

\* A nonce buys one token, however often the signed message is delivered.
OneTokenPerNonce ==
  \A t, u \in DOMAIN tokens : tokens[t].nonce = tokens[u].nonce => t = u

\* The account the page shows is the one its signer signs for.
SignerIsTheAccounts ==
  source = web3 /\ ~loading.active /\ connecting = Idle =>
     source.signer \in {None, source.account}

\* "Waiting for your signature" always ends.
SigningInEnds == chat.status = "authenticating" ~> chat.status # "authenticating"
=============================================================================
