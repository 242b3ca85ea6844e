-------------------------- MODULE IdentityProviders --------------------------
(***************************************************************************)
(* The settings of the SAML and OIDC providers, and the providers built    *)
(* from them, which log-ins find behind a lock.                            *)
(*                                                                         *)
(* A configuration is saved key by key, read back key by key, turned into  *)
(* a provider with the help of a server on the network, and only then put  *)
(* into place.  Any error of a read is taken for the empty string.         *)
(*                                                                         *)
(* A certificate and a key match where they are the same value here.  The  *)
(* redirect URL, the same for every save, is left out.                     *)
(***************************************************************************)
EXTENDS DeskBase, Integers, Sequences

CONSTANTS
  Configs,         \* values of a key other than ...
  Blank,           \* ... "", "false" or no row
  Sent,            \* Sent[p]: the configurations administrators send to save provider p
  RawSettings,     \* what they send to PATCH /admin/settings: functions from some keys to values
  MaxIdPRequests,  \* bound on the number of requests
  MaxIdPFaults,    \* bound on the number of statements that fail
  MaxIdPRestarts   \* bound on the number of restarts

Providers == {"saml", "oidc"}

\* The keys in the order they are read and saved.
KeysOf ==
  [saml |-> <<"url", "cert", "privateKey">>, oidc |-> <<"enabled", "issuer", "client", "secret">>]
\* Those a save reads first, to fill in what is not sent.
KeptOf == [saml |-> <<"url", "cert", "privateKey">>, oidc |-> <<"secret">>]

Elements(s) == {s[i] : i \in 1..Len(s)}
Keys == Elements(KeysOf.saml) \cup Elements(KeysOf.oidc)

Config == [Keys -> Configs \cup {Blank}]
Unset  == [k \in Keys |-> Blank]

ASSUME IdPAssumption ==
  /\ Blank \notin Configs
  /\ DOMAIN Sent = Providers /\ \A p \in Providers : Sent[p] \subseteq Config
  /\ \A b \in RawSettings : DOMAIN b \subseteq Keys /\ \A k \in DOMAIN b : b[k] \in Configs \cup {Blank}
  /\ MaxIdPRequests \in Nat /\ MaxIdPFaults \in Nat /\ MaxIdPRestarts \in Nat

\* A request: its parameters, and the values it holds between its statements.
IdPRequest ==
  [provider : Providers \cup {Nil},
   step     : {"fill", "save", "reload", "load", "done", "raw"},
   at       : 1..4,                    \* the key that comes next
   sent     : Config,
   held     : Config,                  \* as read, then as saved, then as read back
   raw      : RawSettings \cup {Nil},
   left     : SUBSET Keys]             \* keys of `raw` to come

ASSUME IdPNilAssumption ==
  Nil \notin RawSettings \cup Config \cup IdPRequest \cup Providers

VARIABLES
  setting,    \* table settings
  loaded,     \* Server.samlHandler and Server.oidcProvider
  idpReq,     \* the requests in progress
  gap,        \* gap[w]: a needed key was empty, or its read failed, since w's request began (observer)
  inTurn,     \* whether the requests of this behaviour come one at a time
  idpCount, idpFaults, idpRestarts

idpVars == <<setting, loaded, idpReq, gap, inTurn, idpCount, idpFaults, idpRestarts>>

IdPTypeOK ==
  /\ setting \in Config
  /\ loaded \in [Providers -> Config \cup {Nil}]
  /\ idpReq \in [Workers -> IdPRequest \cup {Nil}]
  /\ gap \in [Workers -> BOOLEAN]
  /\ inTurn \in BOOLEAN
  /\ idpCount \in 0..MaxIdPRequests
  /\ idpFaults \in 0..MaxIdPFaults /\ idpRestarts \in 0..MaxIdPRestarts

IdPInit ==
  /\ setting = Unset
  /\ loaded = [p \in Providers |-> Nil]
  /\ idpReq = [w \in Workers |-> Nil]
  /\ gap = [w \in Workers |-> FALSE]
  /\ inTurn \in BOOLEAN
  /\ idpCount = 0 /\ idpFaults = 0 /\ idpRestarts = 0

-----------------------------------------------------------------------------
(* Requests arrive.                                                        *)

IdPBegins(w, r) ==
  /\ idpReq[w] = Nil
  /\ inTurn => \A v \in Workers : idpReq[v] = Nil
  /\ idpCount < MaxIdPRequests /\ idpCount' = idpCount + 1
  /\ idpReq' = [idpReq EXCEPT ![w] = r]
  /\ UNCHANGED <<setting, loaded, inTurn, idpFaults, idpRestarts>>

IdPBlank ==
  [provider |-> Nil, step |-> "raw", at |-> 1, sent |-> Unset, held |-> Unset, raw |-> Nil, left |-> {}]

HandleSaveConfig(w) ==
  \E p \in Providers : \E c \in Sent[p] :
    IdPBegins(w, [IdPBlank EXCEPT !.provider = p, !.step = "fill", !.sent = c])

HandleUpdateSettings(w) ==
  \E b \in RawSettings : IdPBegins(w, [IdPBlank EXCEPT !.raw = b, !.left = DOMAIN b])

-----------------------------------------------------------------------------
(* A configuration is read, saved and read back, key by key.               *)

Ends(w) == idpReq' = Ended(idpReq, w)

Fails == idpFaults < MaxIdPFaults /\ idpFaults' = idpFaults + 1

Pair(c) == c["cert"] # Blank /\ c["cert"] = c["privateKey"]

\* What is saved: blanks are filled in, of OIDC only the secret's.
Filled(p, sent, old) ==
  [k \in Keys |-> IF sent[k] = Blank /\ k \in Elements(KeptOf[p]) THEN old[k] ELSE sent[k]]

\* The pair is validated when either part is there.
Savable(p, c) == p = "saml" /\ (c["cert"] # Blank \/ c["privateKey"] # Blank) => Pair(c)

\* GetSAMLConfig, GetOIDCConfig: key number `at` is read, or its error dropped.
ReadSetting(w) ==
  LET r == idpReq[w]
      keys == IF r.step = "fill" THEN KeptOf[r.provider] ELSE KeysOf[r.provider]
      k == keys[r.at]
      last == r.at = Len(keys)
      reads(v) ==
        LET c == [r.held EXCEPT ![k] = v]
            new == Filled(r.provider, r.sent, c)
        IN IF ~last THEN idpReq' = [idpReq EXCEPT ![w].held = c, ![w].at = @ + 1]
           ELSE IF r.step = "reload" THEN idpReq' = [idpReq EXCEPT ![w].held = c, ![w].step = "load"]
           ELSE IF Savable(r.provider, new)
                THEN idpReq' = [idpReq EXCEPT ![w].held = new, ![w].step = "save", ![w].at = 1]
                ELSE Ends(w)
  IN
  /\ r # Nil /\ r.step \in {"fill", "reload"}
  /\ \/ reads(setting[k]) /\ UNCHANGED idpFaults
     \/ Fails /\ reads(Blank)
  /\ UNCHANGED <<setting, loaded, inTurn, idpCount, idpRestarts>>

\* SetSAMLConfig, SetOIDCConfig: one key after another, to the first error.
SaveSetting(w) ==
  LET r == idpReq[w]
      keys == KeysOf[r.provider]
      k == keys[r.at]
  IN
  /\ r # Nil /\ r.step = "save"
  /\ \/ /\ setting' = [setting EXCEPT ![k] = r.held[k]]
        /\ idpReq' = IF r.at < Len(keys) THEN [idpReq EXCEPT ![w].at = @ + 1]
                     ELSE [idpReq EXCEPT ![w].step = "reload", ![w].at = 1, ![w].held = Unset]
        /\ UNCHANGED idpFaults
     \/ Fails /\ Ends(w) /\ UNCHANGED setting
  /\ UNCHANGED <<loaded, inTurn, idpCount, idpRestarts>>

\* The settings of one request, in the order of a map.
SetRaw(w) ==
  LET r == idpReq[w] IN
  /\ r # Nil /\ r.step = "raw"
  /\ \/ \E k \in r.left :
          \/ /\ setting' = [setting EXCEPT ![k] = r.raw[k]]
             /\ idpReq' = [idpReq EXCEPT ![w].left = @ \ {k}]
             /\ UNCHANGED idpFaults
          \/ Fails /\ Ends(w) /\ UNCHANGED setting
     \/ r.left = {} /\ Ends(w) /\ UNCHANGED <<setting, idpFaults>>
  /\ UNCHANGED <<loaded, inTurn, idpCount, idpRestarts>>

-----------------------------------------------------------------------------
(* The provider is built and put into place.                               *)

Complete(p, c) == \A k \in Elements(KeysOf[p]) : c[k] # Blank
\* What is left of a configuration in the provider built from it.
Part(p, c) == [k \in Keys |-> IF k \in Elements(KeysOf[p]) THEN c[k] ELSE Blank]

\* Mutant of Unloads: a configuration that is enabled and incomplete clears the provider.
UnloadsIncomplete(p, c) == ~Complete(p, c)

\* SAML is cleared when it is incomplete, OIDC when it is switched off.
Unloads(p, c) == IF p = "saml" THEN ~Complete(p, c) ELSE c["enabled"] = Blank

\* Mutant of Failed: the provider is replaced before it is initialised.
FailedUnloads(p) == [loaded EXCEPT ![p] = Nil]

\* The server on the network does not answer, the pair does not match, or OIDC is
\* incomplete: the provider in place stays.
Failed(p) == loaded

LoadProvider(w) ==
  LET r == idpReq[w]
      p == r.provider
      inPlace(new) == loaded' = [loaded EXCEPT ![p] = new] /\ idpReq' = GoesTo(idpReq, w, "done")
  IN
  /\ r # Nil /\ r.step = "load"
  /\ \/ Unloads(p, r.held) /\ inPlace(Nil)
     \/ /\ ~Unloads(p, r.held) /\ Complete(p, r.held) /\ (p = "saml" => Pair(r.held))
        /\ inPlace(Part(p, r.held))
     \/ ~Unloads(p, r.held) /\ loaded' = Failed(p) /\ Ends(w)
  /\ UNCHANGED <<setting, inTurn, idpCount, idpFaults, idpRestarts>>

\* The administrator is answered that the configuration is saved and in place.
ConfigSaved(w) ==
  /\ idpReq[w] # Nil /\ idpReq[w].step = "done"
  /\ Ends(w)
  /\ UNCHANGED <<setting, loaded, inTurn, idpCount, idpFaults, idpRestarts>>

\* The process starts anew: InitSAML and InitOIDC run before any request.
Reboot ==
  /\ idpRestarts < MaxIdPRestarts /\ idpRestarts' = idpRestarts + 1
  /\ idpReq' = [w \in Workers |-> Nil]
  /\ \E up \in SUBSET {p \in Providers : ~Unloads(p, setting) /\ Complete(p, setting)
                                        /\ (p = "saml" => Pair(setting))} :
       loaded' = [p \in Providers |-> IF p \in up THEN Part(p, setting) ELSE Nil]
  /\ UNCHANGED <<setting, inTurn, idpCount, idpFaults>>

IdPExhausted ==
  /\ idpCount = MaxIdPRequests /\ \A w \in Workers : idpReq[w] = Nil
  /\ UNCHANGED <<setting, loaded, idpReq, inTurn, idpCount, idpFaults, idpRestarts>>

IdPStep ==
  \/ \E w \in Workers :
       \/ HandleSaveConfig(w) \/ HandleUpdateSettings(w)
       \/ ReadSetting(w) \/ SaveSetting(w) \/ SetRaw(w) \/ LoadProvider(w) \/ ConfigSaved(w)
  \/ Reboot \/ IdPExhausted

\* What makes a provider go out of use, and that a read failed.
Lacking(w) ==
  LET r == idpReq'[w] IN
  /\ r # Nil /\ r.provider # Nil
  /\ gap[w] \/ idpFaults' # idpFaults
     \/ IF r.provider = "saml" THEN ~Complete("saml", setting') ELSE setting'["enabled"] = Blank

IdPNext ==
  /\ IdPStep
  /\ gap' = [w \in Workers |-> Lacking(w)]

IdPSpec == IdPInit /\ [][IdPNext]_idpVars

-----------------------------------------------------------------------------
(* What must hold.                                                         *)

\* While requests come one at a time and nothing fails, an administrator who is answered
\* that a configuration was saved finds in place what is saved: of SAML a matching pair,
\* and no provider if a key is empty; of OIDC no provider if it is switched off.
\* (handleSaveSAMLConfig, handleSaveOIDCConfig)
SavedIsInPlace ==
  inTurn /\ idpFaults = 0 => \A w \in Workers :
    LET r == idpReq[w]
        off == IF r.provider = "saml" THEN ~Complete("saml", setting) ELSE setting["enabled"] = Blank
    IN r # Nil /\ r.step = "done" =>
         /\ loaded[r.provider] = IF off THEN Nil ELSE Part(r.provider, setting)
         /\ r.provider = "saml" /\ ~off => setting["cert"] = setting["privateKey"]
         /\ \A k \in Elements(KeysOf[r.provider]) :
              r.sent[k] # Blank => setting[k] = r.sent[k]

\* A provider goes out of use only by a request that met it switched off or incomplete,
\* or whose read failed, or by a restart: never because a server on the network does not
\* answer, whatever saves overlap.  (server.go:306, InitOIDC; reloadSAML)
OnlineStaysOnline ==
  [][\A p \in Providers : loaded[p] # Nil /\ loaded'[p] = Nil =>
       \/ idpRestarts' # idpRestarts
       \/ \E w \in Workers : idpReq[w] # Nil /\ idpReq[w].provider = p /\ gap[w]]_idpVars

\* handler_admin.go:983: "To clear all SAML config, send all three as empty strings."  An
\* administrator who did so alone, and is answered, finds none of the three set.
BlanksClear ==
  inTurn => \A w \in Workers :
    LET r == idpReq[w] IN
    r # Nil /\ r.provider = "saml" /\ r.sent = Unset /\ r.step = "done" =>
      \A k \in Elements(KeysOf.saml) : setting[k] = Blank
=============================================================================
