------------------------ MODULE SettingsCommitProofs ------------------------
(***************************************************************************)
(* Machine-checked proofs about SettingsCommit, for any number of callers, *)
(* providers, configurations, credentials and proxy policies.              *)
(***************************************************************************)
EXTENDS MC_SettingsCommit, TLAPS

(* Facts about the operators the transaction is built from. *)

\* An engine built from a settings record is a well-typed engine.
LEMMA EngineOfType ==
    ASSUME NEW s \in Settings, NEW secrets \in Credentials
    PROVE  EngineOf(s, secrets) \in Engines
  BY DEF EngineOf, Engines, Settings, Credentials, Client

\* The engine of a buildable record serves that record's configurations.
LEMMA EngineOfCurrent ==
    ASSUME NEW s \in Settings, NEW secrets \in Credentials,
           ProvidersBuild(s, secrets)
    PROVE  /\ EngineOf(s, secrets).proxy = s.proxy
           /\ \A p \in Providers :
                 IF s.providers[p] = NoConfig
                 THEN EngineOf(s, secrets).clients[p] = NoConfig
                 ELSE /\ EngineOf(s, secrets).clients[p] \in Accepted
                      /\ EngineOf(s, secrets).clients[p][1] = s.providers[p]
  BY DEF EngineOf, ProvidersBuild, Settings

\* Dropping the credentials of removed providers keeps credentials well typed
\* and owned.
LEMMA RetainedType ==
    ASSUME NEW s \in Settings, NEW secrets \in Credentials
    PROVE  /\ Retained(secrets, s) \in Credentials
           /\ \A p \in Providers :
                 Retained(secrets, s)[p] # NoSecret => s.providers[p] # NoConfig
  BY DEF Retained, Credentials, Settings

LEMMA NoCredentialsType == NoCredentials \in Credentials
  BY DEF NoCredentials, Credentials

LEMMA StateFromType ==
    ASSUME NEW s \in Settings, NEW secrets \in Credentials
    PROVE  StateFrom(s, secrets) \in States
  BY EngineOfType DEF StateFrom, States

LEMMA NoCallType == NoCall \in Calls
  BY NoCredentialsType, SettingsAssumption DEF NoCall, Calls, Sections

\* Sending one event leaves a well-typed call.
LEMMA SentType ==
    ASSUME NEW t \in Calls
    PROVE  Sent(t) \in Calls
  <1>1. CASE Len(t.events) <= 1
    BY <1>1, NoCallType DEF Sent
  <1>2. CASE ~(Len(t.events) <= 1)
    <2>1. t.events \in Seq(Sections) /\ t.events # <<>>
      BY <1>2 DEF Calls
    <2>2. Tail(t.events) \in Seq(Sections)
      BY <2>1
    <2> QED BY <1>2, <2>2 DEF Sent, Calls
  <1> QED BY <1>1, <1>2

-----------------------------------------------------------------------------
(* Type correctness. *)

\* A started transaction is well typed when the record it computes is.
LEMMA BeginType ==
    ASSUME TypeOK, NEW c \in Callers, NEW next \in Settings,
           NEW events \in Seq(Sections), NEW restore \in BOOLEAN,
           Begin(c, next, events, restore)
    PROVE  TypeOK'
  <1>1. Retained(state.secrets, next) \in Credentials
    BY RetainedType DEF TypeOK, States
  <1>2. (IF \/ restore
            \/ next.providers # state.settings.providers
            \/ next.proxy # state.settings.proxy
         THEN Retained(state.secrets, next) ELSE state.secrets) \in Credentials
    BY <1>1 DEF TypeOK, States
  <1>3. call' \in [Callers -> Calls]
    BY <1>2 DEF Begin, TypeOK, Calls
  <1>4. pc' \in [Callers -> Steps]
    BY DEF Begin, Goto, TypeOK, Steps
  <1> QED BY <1>3, <1>4 DEF Begin, TypeOK

LEMMA InitType == Init => TypeOK
  <1> SUFFICES ASSUME Init PROVE TypeOK OBVIOUS
  <1>1. state \in States
    BY StateFromType, NoCredentialsType, SettingsAssumption DEF Init
  <1>2. proxy \in Proxies
    BY SettingsAssumption DEF Init, Settings
  <1> QED BY <1>1, <1>2, NoCallType, SettingsAssumption DEF Init, TypeOK, Steps

\* The records the five requests compute are settings records.
LEMMA RequestRecords ==
    ASSUME TypeOK
    PROVE  /\ \A d \in Providers \cup {NoDefault} :
                 [state.settings EXCEPT !.default = d] \in Settings
           /\ \A x \in Proxies : [state.settings EXCEPT !.proxy = x] \in Settings
           /\ \A p \in Providers, k \in Configs :
                 [state.settings EXCEPT !.providers[p] = k] \in Settings
           /\ \A p \in Providers :
                 [state.settings EXCEPT !.providers[p] = NoConfig,
                                        !.default = IF @ = p THEN NoDefault ELSE @]
                 \in Settings
  <1>1. state.settings \in Settings
    BY DEF TypeOK, States
  <1>2. state.settings.providers \in [Providers -> Configs \cup {NoConfig}]
    BY <1>1 DEF Settings
  <1> QED BY <1>1, <1>2 DEF Settings

\* What a successful transaction announces.
Announcements == {<<"general">>, <<"advanced">>, <<"providers">>, RestoreEvents}

LEMMA AnnouncementsType ==
    \A events \in Announcements : events \in Seq(Sections) /\ events # <<>>
  <1>1. /\ <<"general">> \in Seq(Sections) /\ <<"advanced">> \in Seq(Sections)
        /\ <<"providers">> \in Seq(Sections) /\ RestoreEvents \in Seq(Sections)
    BY DEF Sections, RestoreEvents
  <1>2. /\ <<"general">> # <<>> /\ <<"advanced">> # <<>>
        /\ <<"providers">> # <<>> /\ RestoreEvents # <<>>
    BY DEF RestoreEvents
  <1> QED BY <1>1, <1>2 DEF Announcements

\* Every request starts a transaction on a settings record.
LEMMA RequestBegins ==
    ASSUME TypeOK, NEW c \in Callers, Request(c)
    PROVE  \E next \in Settings, events \in Announcements, restore \in BOOLEAN :
              Begin(c, next, events, restore)
  <1>2. <<"general">> \in Announcements /\ <<"advanced">> \in Announcements
        /\ <<"providers">> \in Announcements /\ RestoreEvents \in Announcements
    BY DEF Announcements
  <1>3. CASE UpdateGeneral(c)
    BY <1>2, <1>3, RequestRecords DEF UpdateGeneral
  <1>4. CASE UpdateAdvanced(c)
    BY <1>2, <1>4, RequestRecords DEF UpdateAdvanced
  <1>5. CASE UpdateProvider(c)
    BY <1>2, <1>5, RequestRecords DEF UpdateProvider
  <1>6. CASE DeleteProvider(c)
    BY <1>2, <1>6, RequestRecords DEF DeleteProvider
  <1>7. CASE UpdateService(c)
    <2>1. state.settings \in Settings  BY DEF TypeOK, States
    <2> QED BY <1>2, <1>7, <2>1 DEF UpdateService
  <1>8. CASE DeleteService(c)
    <2>1. state.settings.default \in Providers \cup {NoDefault}
      BY DEF TypeOK, States, Settings
    <2> QED BY <1>2, <1>8, <2>1, RequestRecords DEF DeleteService
  <1>9. CASE BeginRestore(c)
    BY <1>2, <1>9, SettingsAssumption DEF BeginRestore
  <1> QED BY <1>3, <1>4, <1>5, <1>6, <1>7, <1>8, <1>9 DEF Request

\* Every step keeps the types.
LEMMA NextType == TypeOK /\ [Next]_vars => TypeOK'
  <1> SUFFICES ASSUME TypeOK, [Next]_vars PROVE TypeOK' OBVIOUS
  <1> USE DEF Steps
  <1>1. ASSUME NEW c \in Callers, Request(c) PROVE TypeOK'
    BY <1>1, RequestBegins, AnnouncementsType, BeginType
  <1>2. ASSUME NEW c \in Callers, Fail(c)
        PROVE  /\ lock' \in Callers \cup {Nobody}
               /\ pc' \in [Callers -> Steps]
               /\ call' \in [Callers -> Calls]
    BY <1>2, NoCallType DEF Fail, Goto, TypeOK
  <1>3. ASSUME NEW c \in Callers, CallerStep(c) PROVE TypeOK'
    <2>0. call[c] \in Calls
      BY <1>3 DEF TypeOK
    <2>1. CASE Configure(c)
      BY <1>2, <2>0, <2>1 DEF Configure, Goto, TypeOK, Calls, Settings
    <2>2. CASE Build(c)
      BY <1>2, <2>0, <2>2 DEF Build, Goto, TypeOK, Calls
    <2>3. CASE SaveOk(c)
      BY <2>0, <2>3 DEF SaveOk, Goto, TypeOK, Calls
    <2>4. CASE SaveFails(c)
      BY <1>2, <2>0, <2>4 DEF SaveFails, TypeOK, Calls
    <2>5. CASE Evict(c)
      <3>1. [call[c] EXCEPT !.saved = disk] \in Calls
        BY <2>0 DEF TypeOK, Calls
      <3>2. call' = [call EXCEPT ![c] = [call[c] EXCEPT !.saved = disk]]
        BY <2>5 DEF Evict
      <3> QED BY <2>5, <3>1, <3>2 DEF Evict, Goto, TypeOK
    <2>6. CASE Install(c)
      BY <2>0, <2>6 DEF Install, Goto, TypeOK, Calls
    <2>7. CASE Keep(c)
      BY <2>7 DEF Keep, Goto, TypeOK
    <2>8. CASE RollBack(c)
      <3>1. disk' \in Settings \cup {Absent} /\ torn' \in BOOLEAN
        BY <2>0, <2>8 DEF RollBack, TypeOK, Calls
      <3> QED BY <1>2, <2>0, <2>8, <3>1 DEF RollBack, TypeOK, Calls
    <2>9. CASE Swap(c)
      <3>1. StateFrom(call[c].next, call[c].secrets) \in States
        BY <2>0, StateFromType DEF Calls
      <3>2. [state EXCEPT !.settings = call[c].next] \in States
        BY <2>0 DEF TypeOK, States, Calls
      <3>3. [NoCall EXCEPT !.events = call[c].events] \in Calls
        BY <2>0, NoCallType DEF Calls
      <3> QED BY <2>9, <3>1, <3>2, <3>3 DEF Swap, Goto, TypeOK
    <2>10. CASE Announce(c)
      <3>1. Sent(call[c]) \in Calls
        BY <2>0, SentType
      <3>2. call' \in [Callers -> Calls]
        BY <2>10, <3>1 DEF Announce, TypeOK
      <3> QED BY <2>10, <3>2 DEF Announce, Goto, TypeOK
    <2> QED BY <1>3, <2>1, <2>2, <2>3, <2>4, <2>5, <2>6, <2>7, <2>8, <2>9, <2>10
            DEF CallerStep
  <1>4. CASE SetProviderSecrets
    <2>1. PICK p \in Providers, x \in Secrets \cup {NoSecret} :
             LET secrets == [state.secrets EXCEPT ![p] = x]
             IN  /\ state' = [state EXCEPT
                       !.secrets = secrets,
                       !.engine = IF Builds(state.settings, secrets)
                                  THEN EngineOf(state.settings, secrets) ELSE @]
                 /\ UNCHANGED <<up, disk, torn, proxy, lock, pc, call>>
      BY <1>4 DEF SetProviderSecrets
    <2>2. [state.secrets EXCEPT ![p] = x] \in Credentials
      BY DEF TypeOK, States, Credentials
    <2>3. EngineOf(state.settings, [state.secrets EXCEPT ![p] = x]) \in Engines
      BY <2>2, EngineOfType DEF TypeOK, States
    <2>4. state' \in States
      BY <2>1, <2>2, <2>3 DEF TypeOK, States
    <2> QED BY <2>1, <2>4 DEF TypeOK
  <1>5. CASE Crash
    BY <1>5, StateFromType, NoCredentialsType, NoCallType, SettingsAssumption
       DEF Crash, TypeOK
  <1>6. CASE Start
    <2>1. Loaded \in Settings
      BY SettingsAssumption DEF Loaded, TypeOK
    <2> QED BY <1>6, <2>1, StateFromType, NoCredentialsType
            DEF Start, TypeOK, Settings
  <1>7. CASE StartFails
    <2>1. Loaded \in Settings
      BY SettingsAssumption DEF Loaded, TypeOK
    <2> QED BY <1>7, <2>1 DEF StartFails, TypeOK, Settings
  <1>8. CASE UNCHANGED vars
    BY <1>8 DEF vars, TypeOK
  <1> QED BY <1>1, <1>3, <1>4, <1>5, <1>6, <1>7, <1>8 DEF Next

\* Every reachable state is well typed.
THEOREM TypeCorrect == Spec => []TypeOK
  <1>1. Init => TypeOK
    BY InitType
  <1>2. TypeOK /\ [Next]_vars => TypeOK'
    BY NextType
  <1> QED BY <1>1, <1>2, PTL DEF Spec

-----------------------------------------------------------------------------
(* The inductive invariant.                                                *)

LEMMA InitInv == Init => IInv
  <1> SUFFICES ASSUME Init PROVE IInv OBVIOUS
  <1>1. TypeOK
    BY InitType
  <1>2. FreshSettings \in Settings /\ NoCredentials \in Credentials
        /\ ProvidersBuild(FreshSettings, NoCredentials)
    BY NoCredentialsType, SettingsAssumption DEF Builds
  <1>3. EngineInv
    BY <1>2, EngineOfCurrent DEF Init, EngineInv, StateFrom
  <1>4. CredentialsOwned
    BY DEF Init, CredentialsOwned, StateFrom, NoCredentials
  <1>5. LockInv /\ CallInv /\ ProgressInv /\ IdleInv /\ DownInv
    BY SettingsAssumption
       DEF Init, LockInv, CallInv, ProgressInv, IdleInv, DownInv, Holding, StateFrom
  <1> QED BY <1>1, <1>3, <1>4, <1>5 DEF IInv

\* A transaction starts from a settled runtime and remembers its proxy.
LEMMA BeginInv ==
    ASSUME IInv, NEW c \in Callers, NEW next \in Settings,
           NEW events \in Seq(Sections), NEW restore \in BOOLEAN,
           Begin(c, next, events, restore)
    PROVE  IInv'
  <1> USE DEF Begin, Goto, Holding
  <1>0. TypeOK /\ TypeOK' /\ Nobody \notin Callers
    BY BeginType, SettingsAssumption DEF IInv
  <1>1. LockInv'
    BY <1>0 DEF IInv, LockInv, TypeOK
  <1>2. proxy = state.settings.proxy /\ (torn \/ disk = state.settings)
    BY DEF IInv, IdleInv
  <1>3. CallInv'
    BY <1>0, <1>2 DEF CallInv, TypeOK
  <1>4. ProgressInv'
    BY <1>0, <1>2 DEF ProgressInv, TypeOK
  <1>5. EngineInv' /\ CredentialsOwned'
    BY DEF IInv, EngineInv, CredentialsOwned
  <1>6. IdleInv' /\ DownInv'
    BY <1>0 DEF IdleInv, DownInv
  <1> QED BY <1>0, <1>1, <1>3, <1>4, <1>5, <1>6 DEF IInv

\* An error path ends settled when it puts the process-wide proxy back and
\* leaves the committed file, or a restore's way back failed.
LEMMA FailInv ==
    ASSUME IInv, TypeOK', NEW c \in Callers, lock = c, Fail(c),
           UNCHANGED <<up, state>>,
           proxy' = state.settings.proxy, torn' \/ disk' = state.settings
    PROVE  IInv'
  <1> USE DEF Fail, Goto, Holding
  <1>0. TypeOK /\ Nobody \notin Callers
    BY SettingsAssumption DEF IInv
  <1>1. LockInv'
    BY <1>0 DEF IInv, LockInv, TypeOK
  <1>2. CallInv' /\ ProgressInv'
    BY <1>0 DEF CallInv, ProgressInv
  <1>3. EngineInv' /\ CredentialsOwned'
    BY DEF IInv, EngineInv, CredentialsOwned
  <1>4. IdleInv' /\ DownInv'
    BY <1>0 DEF IInv, IdleInv, DownInv
  <1> QED BY <1>1, <1>2, <1>3, <1>4 DEF IInv

\* A step of the holder that only moves the transaction forward.
LEMMA ForwardInv ==
    ASSUME IInv, TypeOK', NEW c \in Callers, lock = c,
           NEW step \in Holding \ {"configure", "install"}, Goto(c, step),
           UNCHANGED <<up, state, lock, call>>,
           proxy' = call[c].next.proxy,
           step \in {"build", "evict", "reload"} => call[c].rebuild,
           call[c].rebuild /\ step # "build" =>
               ProvidersBuild(call[c].next, call[c].secrets),
           step \in {"build", "save", "evict"} => torn' \/ disk' = state.settings,
           step = "reload" => torn' \/ call[c].saved = state.settings,
           step \in {"reload", "swap"} => disk' = call[c].next,
           step = "swap" => ~torn'
    PROVE  IInv'
  <1> USE DEF Goto, Holding
  <1>0. TypeOK /\ Nobody \notin Callers
    BY SettingsAssumption DEF IInv
  <1>1. LockInv'
    BY <1>0 DEF IInv, LockInv, TypeOK
  <1>2. CallInv'
    BY <1>0 DEF IInv, CallInv, TypeOK
  <1>3. ProgressInv'
    BY <1>0 DEF ProgressInv, TypeOK
  <1>4. EngineInv' /\ CredentialsOwned'
    BY DEF IInv, EngineInv, CredentialsOwned
  <1>5. IdleInv' /\ DownInv'
    BY <1>0 DEF IInv, IdleInv, DownInv
  <1> QED BY <1>1, <1>2, <1>3, <1>4, <1>5 DEF IInv

\* The first half of an install keeps what was on disk for the way back.
LEMMA EvictInv == ASSUME IInv, TypeOK', NEW c \in Callers, Evict(c) PROVE IInv'
  <1> USE DEF Evict, Goto, Holding
  <1>0. TypeOK /\ Nobody \notin Callers /\ call[c] \in Calls
    BY SettingsAssumption DEF IInv, TypeOK
  <1>1. lock = c /\ pc'[c] = "install"
    BY <1>0 DEF IInv, LockInv, TypeOK
  <1>2. LockInv'
    BY <1>0 DEF IInv, LockInv, TypeOK
  <1>3. /\ call'[c].saved = disk
        /\ call'[c].next = call[c].next /\ call'[c].rebuild = call[c].rebuild
        /\ call'[c].secrets = call[c].secrets /\ call'[c].previous = call[c].previous
    BY <1>0 DEF TypeOK, Calls
  <1>4. \A d \in Callers : lock' = d => d = c
    BY <1>1
  <1>5. CallInv'
    <2>1. /\ call[c].previous = state.settings.proxy /\ call[c].rebuild
          /\ call[c].secrets = Retained(state.secrets, call[c].next)
          /\ ProvidersBuild(call[c].next, call[c].secrets)
      BY <1>1 DEF IInv, CallInv
    <2> QED BY <1>3, <1>4, <2>1 DEF CallInv
  <1>6. ProgressInv'
    <2>1. proxy = call[c].next.proxy /\ (torn \/ disk = state.settings)
      BY <1>1 DEF IInv, ProgressInv
    <2> QED BY <1>1, <1>3, <1>4, <2>1 DEF ProgressInv
  <1>7. EngineInv' /\ CredentialsOwned'
    BY DEF IInv, EngineInv, CredentialsOwned
  <1>8. IdleInv' /\ DownInv'
    BY <1>0, <1>1 DEF IInv, IdleInv, DownInv
  <1> QED BY <1>2, <1>5, <1>6, <1>7, <1>8 DEF IInv

\* The commit point: the new record, its engine and the surviving credentials
\* replace the old ones together.
LEMMA SwapInv == ASSUME IInv, TypeOK', NEW c \in Callers, Swap(c) PROVE IInv'
  <1> USE DEF Swap, Goto, Holding
  <1>0. TypeOK /\ Nobody \notin Callers /\ call[c] \in Calls
    BY SettingsAssumption DEF IInv, TypeOK
  <1>1. lock = c
    BY DEF IInv, LockInv
  <1>2. LockInv'
    BY <1>0, <1>1 DEF IInv, LockInv, TypeOK
  <1>3. CallInv' /\ ProgressInv'
    BY <1>0 DEF CallInv, ProgressInv
  <1>4. ASSUME call[c].rebuild PROVE EngineInv' /\ CredentialsOwned'
    <2>1. /\ call[c].next \in Settings /\ call[c].secrets \in Credentials
          /\ ProvidersBuild(call[c].next, call[c].secrets)
          /\ call[c].secrets = Retained(state.secrets, call[c].next)
      BY <1>0, <1>1, <1>4 DEF IInv, CallInv, Calls
    <2>2. state' = StateFrom(call[c].next, call[c].secrets)
      BY <1>4
    <2>3. EngineInv'
      BY <2>1, <2>2, EngineOfCurrent DEF EngineInv, StateFrom
    <2>4. CredentialsOwned'
      BY <1>0, <2>1, <2>2, RetainedType
         DEF CredentialsOwned, StateFrom, TypeOK, States
    <2> QED BY <2>3, <2>4
  <1>5. ASSUME ~call[c].rebuild PROVE EngineInv' /\ CredentialsOwned'
    <2>1. /\ call[c].next.providers = state.settings.providers
          /\ call[c].next.proxy = state.settings.proxy
      BY <1>1, <1>5 DEF IInv, CallInv
    <2>2. state'.settings = call[c].next /\ state'.engine = state.engine
          /\ state'.secrets = state.secrets
      BY <1>0, <1>5 DEF TypeOK, States
    <2> QED BY SMTT(20), <2>1, <2>2 DEF IInv, EngineInv, CredentialsOwned
  <1>6. state'.settings = call[c].next
    BY <1>0 DEF StateFrom, TypeOK, States
  <1>7. IdleInv' /\ DownInv'
    BY <1>0, <1>1, <1>6 DEF IInv, IdleInv, DownInv, ProgressInv
  <1> QED BY <1>2, <1>3, <1>4, <1>5, <1>7 DEF IInv

\* Sending events touches neither the lock nor anything it protects.
LEMMA AnnounceInv == ASSUME IInv, TypeOK', NEW c \in Callers, Announce(c) PROVE IInv'
  <1> USE DEF Announce, Goto, Holding
  <1>0. TypeOK
    BY DEF IInv
  <1>1. lock # c
    BY DEF IInv, LockInv
  <1>2. LockInv'
    BY <1>0 DEF IInv, LockInv, TypeOK
  <1>3. \A d \in Callers : lock = d => pc'[d] = pc[d] /\ call'[d] = call[d]
    BY <1>0, <1>1 DEF TypeOK
  <1>4. CallInv' /\ ProgressInv'
    BY <1>3 DEF IInv, CallInv, ProgressInv
  <1>5. EngineInv' /\ CredentialsOwned' /\ IdleInv' /\ DownInv'
    BY <1>0 DEF IInv, EngineInv, CredentialsOwned, IdleInv, DownInv
  <1> QED BY <1>2, <1>4, <1>5 DEF IInv

\* The thread of a caller keeps the invariant at every step.
LEMMA CallerInv == ASSUME IInv, TypeOK', NEW c \in Callers, CallerStep(c) PROVE IInv'
  <1>0. TypeOK /\ (pc[c] \in Holding => lock = c)
    BY DEF IInv, LockInv
  <1> USE DEF Holding
  <1>1. CASE Configure(c)
    <2>1. lock = c /\ call[c].rebuild /\ (torn \/ disk = state.settings)
          /\ proxy = state.settings.proxy
      BY <1>0, <1>1 DEF IInv, CallInv, ProgressInv, Configure
    <2>2. CASE Fail(c) /\ UNCHANGED proxy
      BY <1>1, <2>1, <2>2, FailInv DEF Configure
    <2>3. CASE proxy' = call[c].next.proxy /\ Goto(c, "build") /\ UNCHANGED <<lock, call>>
      BY <1>1, <2>1, <2>3, ForwardInv DEF Configure
    <2> QED BY <1>1, <2>2, <2>3 DEF Configure
  <1>2. CASE Build(c)
    <2>1. lock = c /\ call[c].rebuild /\ (torn \/ disk = state.settings)
          /\ proxy = call[c].next.proxy /\ call[c].previous = state.settings.proxy
      BY <1>0, <1>2 DEF IInv, CallInv, ProgressInv, Build
    <2>2. CASE ProvidersBuild(call[c].next, call[c].secrets) /\ call[c].restore
      BY <1>2, <2>1, <2>2, ForwardInv DEF Build
    <2>3. CASE ProvidersBuild(call[c].next, call[c].secrets) /\ ~call[c].restore
      BY <1>2, <2>1, <2>3, ForwardInv DEF Build
    <2>4. CASE ~ProvidersBuild(call[c].next, call[c].secrets)
      BY <1>2, <2>1, <2>4, FailInv DEF Build
    <2> QED BY <2>2, <2>3, <2>4
  <1>3. CASE SaveOk(c)
    <2>1. lock = c /\ proxy = call[c].next.proxy
          /\ (call[c].rebuild => ProvidersBuild(call[c].next, call[c].secrets))
      BY <1>0, <1>3 DEF IInv, CallInv, ProgressInv, SaveOk
    <2> QED BY <1>3, <2>1, ForwardInv DEF SaveOk
  <1>4. CASE SaveFails(c)
    <2>1. lock = c /\ (torn \/ disk = state.settings) /\ proxy = call[c].next.proxy
          /\ call[c].previous = state.settings.proxy
          /\ (~call[c].rebuild => call[c].next.proxy = state.settings.proxy)
      BY <1>0, <1>4 DEF IInv, CallInv, ProgressInv, SaveFails
    <2> QED BY <1>4, <2>1, FailInv DEF SaveFails
  <1>5. CASE Evict(c)
    BY <1>5, EvictInv
  <1>6. CASE Install(c)
    <2>1. lock = c /\ proxy = call[c].next.proxy /\ call[c].rebuild
          /\ ProvidersBuild(call[c].next, call[c].secrets)
          /\ (torn \/ call[c].saved = state.settings)
      BY <1>0, <1>6 DEF IInv, CallInv, ProgressInv, Install
    <2> QED BY <1>6, <2>1, ForwardInv DEF Install
  <1>7. CASE Keep(c)
    <2>1. lock = c /\ proxy = call[c].next.proxy /\ call[c].rebuild
          /\ disk = call[c].next
          /\ ProvidersBuild(call[c].next, call[c].secrets)
      BY <1>0, <1>7 DEF IInv, CallInv, ProgressInv, Keep
    <2> QED BY <1>7, <2>1, ForwardInv DEF Keep
  <1>8. CASE RollBack(c)
    <2>1. lock = c /\ call[c].previous = state.settings.proxy
          /\ (pc[c] = "evict" => torn \/ disk = state.settings)
          /\ (pc[c] # "evict" => torn \/ call[c].saved = state.settings)
      BY <1>0, <1>8 DEF IInv, CallInv, ProgressInv, RollBack
    <2>2. torn' \/ disk' = state.settings
      BY <1>8, <2>1 DEF RollBack
    <2>3. Fail(c) /\ proxy' = call[c].previous /\ UNCHANGED <<up, state>>
      BY <1>8 DEF RollBack
    <2> QED BY <2>1, <2>2, <2>3, FailInv
  <1>9. CASE Swap(c)
    BY <1>9, SwapInv
  <1>10. CASE Announce(c)
    BY <1>10, AnnounceInv
  <1> QED BY <1>1, <1>2, <1>3, <1>4, <1>5, <1>6, <1>7, <1>8, <1>9, <1>10
          DEF CallerStep

\* Storing credentials replaces the engine only by one built from the same
\* settings.
LEMMA SecretsInv == ASSUME IInv, TypeOK', SetProviderSecrets PROVE IInv'
  <1>0. TypeOK /\ Nobody \notin Callers
    BY SettingsAssumption DEF IInv
  <1>1. PICK p \in Providers, x \in Secrets \cup {NoSecret} :
           LET secrets == [state.secrets EXCEPT ![p] = x]
           IN  /\ up
               /\ lock = Nobody
               /\ state.settings.providers[p] # NoConfig
               /\ state' = [state EXCEPT
                     !.secrets = secrets,
                     !.engine = IF Builds(state.settings, secrets)
                                THEN EngineOf(state.settings, secrets) ELSE @]
               /\ UNCHANGED <<up, disk, torn, proxy, lock, pc, call>>
    BY DEF SetProviderSecrets
  <1> DEFINE secrets == [state.secrets EXCEPT ![p] = x]
  <1>2. secrets \in Credentials /\ state.settings \in Settings
    BY <1>0 DEF TypeOK, States, Credentials
  <1>3. state'.settings = state.settings /\ state'.secrets = secrets
    BY <1>0, <1>1 DEF TypeOK, States
  <1>4. EngineInv'
    <2>1. CASE Builds(state.settings, secrets)
      <3>1. state'.engine = EngineOf(state.settings, secrets)
        BY <1>0, <1>1, <2>1 DEF TypeOK, States
      <3>2. ProvidersBuild(state.settings, secrets)
        BY <2>1 DEF Builds
      <3> HIDE DEF secrets
      <3> QED BY <1>2, <1>3, <3>1, <3>2, EngineOfCurrent DEF EngineInv
    <2>2. CASE ~Builds(state.settings, secrets)
      <3>1. state'.engine = state.engine
        BY <1>0, <1>1, <2>2 DEF TypeOK, States
      <3> QED BY <1>3, <3>1 DEF IInv, EngineInv
    <2> QED BY <2>1, <2>2
  <1>5. CredentialsOwned'
    BY <1>0, <1>1, <1>3 DEF IInv, CredentialsOwned, TypeOK, States, Credentials
  <1>6. LockInv' /\ CallInv' /\ ProgressInv'
    BY <1>0, <1>1 DEF IInv, LockInv, CallInv, ProgressInv
  <1>7. IdleInv' /\ DownInv'
    BY <1>1, <1>3 DEF IInv, IdleInv, DownInv
  <1> QED BY <1>4, <1>5, <1>6, <1>7 DEF IInv

LEMMA CrashInv == ASSUME IInv, TypeOK', Crash PROVE IInv'
  <1>1. FreshSettings \in Settings /\ NoCredentials \in Credentials
        /\ ProvidersBuild(FreshSettings, NoCredentials)
    BY NoCredentialsType, SettingsAssumption DEF Builds
  <1>2. EngineInv'
    BY <1>1, EngineOfCurrent DEF Crash, EngineInv, StateFrom
  <1>3. CredentialsOwned'
    BY DEF Crash, CredentialsOwned, StateFrom, NoCredentials
  <1>4. LockInv' /\ CallInv' /\ ProgressInv' /\ IdleInv' /\ DownInv'
    BY SettingsAssumption
       DEF Crash, LockInv, CallInv, ProgressInv, IdleInv, DownInv, Holding
  <1> QED BY <1>2, <1>3, <1>4 DEF IInv

\* A start that gets past the engine build begins settled.
LEMMA StartInv == ASSUME IInv, TypeOK', Start PROVE IInv'
  <1>0. TypeOK /\ Nobody \notin Callers
    BY SettingsAssumption DEF IInv
  <1>1. Loaded \in Settings /\ NoCredentials \in Credentials
        /\ ProvidersBuild(Loaded, NoCredentials)
    BY <1>0, NoCredentialsType, SettingsAssumption DEF Loaded, TypeOK, Start, Builds
  <1>2. EngineInv'
    BY <1>1, EngineOfCurrent DEF Start, EngineInv, StateFrom
  <1>3. CredentialsOwned'
    BY DEF Start, CredentialsOwned, StateFrom, NoCredentials
  <1>4. LockInv' /\ CallInv' /\ ProgressInv'
    BY <1>0 DEF Start, IInv, DownInv, LockInv, CallInv, ProgressInv
  <1>5. IdleInv' /\ DownInv'
    BY DEF Start, IdleInv, DownInv, StateFrom
  <1> QED BY <1>2, <1>3, <1>4, <1>5 DEF IInv

LEMMA NextInv == IInv /\ [Next]_vars => IInv'
  <1> SUFFICES ASSUME IInv, [Next]_vars PROVE IInv' OBVIOUS
  <1>1. TypeOK'
    BY NextType DEF IInv
  <1>2. ASSUME NEW c \in Callers, Request(c) PROVE IInv'
    BY <1>2, RequestBegins, AnnouncementsType, BeginInv DEF IInv
  <1>3. ASSUME NEW c \in Callers, CallerStep(c) PROVE IInv'
    BY <1>1, <1>3, CallerInv
  <1>4. CASE SetProviderSecrets
    BY <1>1, <1>4, SecretsInv
  <1>5. CASE Crash
    BY <1>1, <1>5, CrashInv
  <1>6. CASE Start
    BY <1>1, <1>6, StartInv
  <1>7. CASE StartFails
    <2>1. ~up /\ lock = Nobody /\ Nobody \notin Callers
      BY <1>7, SettingsAssumption DEF StartFails, IInv, DownInv
    <2> QED BY <1>1, <1>7, <2>1
            DEF StartFails, IInv, LockInv, CallInv, ProgressInv, EngineInv,
                IdleInv, DownInv, CredentialsOwned
  <1>8. CASE UNCHANGED vars
    BY <1>1, <1>8 DEF vars, IInv, LockInv, CallInv, ProgressInv, EngineInv,
                      IdleInv, DownInv, CredentialsOwned
  <1> QED BY <1>2, <1>3, <1>4, <1>5, <1>6, <1>7, <1>8 DEF Next

\* Every reachable state satisfies the invariant the safety theorems follow from.
THEOREM Inductive == Spec => []IInv
  <1> QED BY InitInv, NextInv, PTL DEF Spec

\* A request served outside a transaction always finds the engine, its clients
\* and the process-wide proxy in agreement with the settings, whatever failed.
THEOREM EngineAlwaysCurrent == Spec => []EngineCurrent
  <1>1. IInv => EngineCurrent
    BY DEF IInv, EngineInv, IdleInv, EngineCurrent
  <1> QED BY <1>1, Inductive, PTL

\* Settings that a caller can read outside a transaction are on disk, unless
\* the way back of a restore failed and nothing was saved since.
THEOREM SettingsDurable == Spec => []Durable
  <1>1. IInv => Durable
    BY DEF IInv, IdleInv, Durable
  <1> QED BY <1>1, Inductive, PTL

\* No credential outlives its provider.
THEOREM SecretsOwned == Spec => []CredentialsOwned
  <1>1. IInv => CredentialsOwned
    BY DEF IInv
  <1> QED BY <1>1, Inductive, PTL

\* While the process lives, settings.json is missing only inside an install, or
\* after one whose way back failed, until settings are saved again.
THEOREM FileMissingOnlyMidRestore == Spec => []MissingOnlyMidRestore
  <1>1. ASSUME IInv, disk = Absent, up, ~torn
        PROVE  \E c \in Callers : lock = c /\ pc[c] = "install"
    <2>1. lock # Nobody
      BY <1>1, SettingsAssumption DEF IInv, IdleInv, TypeOK, States
    <2>2. PICK c \in Callers : lock = c
      BY <1>1, <2>1 DEF IInv, TypeOK
    <2>3. pc[c] \in Holding /\ call[c].next \in Settings /\ state.settings \in Settings
      BY <1>1, <2>2 DEF IInv, LockInv, TypeOK, Calls, States
    <2> QED BY <1>1, <2>2, <2>3, SettingsAssumption DEF IInv, ProgressInv, Holding
  <1>2. IInv => MissingOnlyMidRestore
    BY <1>1 DEF MissingOnlyMidRestore
  <1> QED BY <1>2, Inductive, PTL

-----------------------------------------------------------------------------
(* The transaction implements the durable register.                        *)

\* What a transaction will announce is settled when it begins, and a caller
\* that is announcing has an event left.
EventsInv ==
    \A c \in Callers :
        /\ pc[c] \in Holding => call[c].events \in Announcements
        /\ pc[c] = "announce" => call[c].events # <<>>

\* The register's view of the transaction, as Register substitutes it.
Trial == IF \E c \in Callers : lock = c /\ pc[c] \in {"install", "reload"}
         THEN call[lock].saved ELSE NoTrial

Owed == [c \in Callers |-> IF pc[c] \in {"swap", "announce"}
                           THEN call[c].events ELSE <<>>]

RInv == IInv /\ EventsInv

\* A step of one caller leaves every other caller where it was.
LEMMA Others ==
    ASSUME TypeOK, NEW c \in Callers, NEW step, Goto(c, step)
    PROVE  pc'[c] = step /\ \A d \in Callers \ {c} : pc'[d] = pc[d]
  BY DEF Goto, TypeOK

\* Sending an event takes it off the front, whether or not it is the last.
LEMMA SentEvents ==
    ASSUME NEW t \in Calls, t.events # <<>>
    PROVE  /\ Len(t.events) <= 1 => Tail(t.events) = <<>>
           /\ ~(Len(t.events) <= 1) => /\ Sent(t).events = Tail(t.events)
                                      /\ Tail(t.events) # <<>>
  <1>1. t.events \in Seq(Sections)
    BY DEF Calls
  <1>2. Len(t.events) \in Nat /\ Len(t.events) # 0
    BY <1>1
  <1>3. Len(t.events) <= 1 => Tail(t.events) = <<>>
    BY <1>1, <1>2
  <1>4. ~(Len(t.events) <= 1) => Tail(t.events) # <<>>
    <2>1. Len(Tail(t.events)) = Len(t.events) - 1
      BY <1>1
    <2>2. ASSUME Tail(t.events) = <<>> PROVE Len(t.events) - 1 = 0
      BY <2>1, <2>2
    <2>3. \A n \in Nat : ~(n <= 1) => n - 1 # 0
      OBVIOUS
    <2> QED BY <1>2, <2>2, <2>3
  <1>5. ~(Len(t.events) <= 1) => Sent(t).events = Tail(t.events)
    BY DEF Sent, Calls
  <1> QED BY <1>3, <1>4, <1>5

LEMMA InitEvents == Init => EventsInv
  BY DEF Init, EventsInv, Holding

LEMMA NextEvents == RInv /\ [Next]_vars => EventsInv'
  <1> SUFFICES ASSUME RInv, [Next]_vars PROVE EventsInv' OBVIOUS
  <1>0. TypeOK /\ EventsInv
    BY DEF RInv, IInv
  <1> USE DEF Holding
  <1>1. ASSUME NEW c \in Callers, Request(c) PROVE EventsInv'
    <2>1. PICK next \in Settings, events \in Announcements, restore \in BOOLEAN :
              Begin(c, next, events, restore)
      BY <1>0, <1>1, RequestBegins
    <2>2. call'[c].events = events /\ \A d \in Callers \ {c} : call'[d] = call[d]
      BY <1>0, <2>1 DEF Begin, TypeOK
    <2>3. pc'[c] \in {"configure", "save"} /\ \A d \in Callers \ {c} : pc'[d] = pc[d]
      BY <1>0, <2>1, Others DEF Begin
    <2> QED BY <1>0, <2>2, <2>3 DEF EventsInv
  <1>2. ASSUME NEW c \in Callers, Fail(c) PROVE EventsInv'
    BY <1>0, <1>2 DEF Fail, Goto, TypeOK, EventsInv
  <1>3. ASSUME NEW c \in Callers, NEW step \in Holding, Goto(c, step), UNCHANGED call,
               pc[c] \in Holding
        PROVE  EventsInv'
    BY <1>0, <1>3 DEF Goto, TypeOK, EventsInv
  <1>4. ASSUME NEW c \in Callers, Swap(c) PROVE EventsInv'
    <2>1. call[c].events \in Announcements
      BY <1>0, <1>4 DEF EventsInv, Swap
    <2>2. call'[c].events = call[c].events /\ \A d \in Callers \ {c} : call'[d] = call[d]
      BY <1>0, <1>4 DEF Swap, TypeOK, NoCall
    <2>3. pc'[c] = "announce" /\ \A d \in Callers \ {c} : pc'[d] = pc[d]
      BY <1>0, <1>4, Others DEF Swap
    <2> QED BY <1>0, <2>1, <2>2, <2>3, AnnouncementsType DEF EventsInv
  <1>5. ASSUME NEW c \in Callers, Announce(c) PROVE EventsInv'
    <2>1. call[c] \in Calls /\ call[c].events # <<>>
      BY <1>0, <1>5 DEF EventsInv, Announce, TypeOK
    <2>2. call'[c] = Sent(call[c]) /\ \A d \in Callers \ {c} : call'[d] = call[d]
      BY <1>0, <1>5 DEF Announce, TypeOK
    <2>3. pc'[c] = (IF Len(call[c].events) <= 1 THEN "idle" ELSE "announce")
          /\ \A d \in Callers \ {c} : pc'[d] = pc[d]
      BY <1>0, <1>5, Others DEF Announce
    <2>4. pc'[c] = "announce" => call'[c].events # <<>>
      BY <2>1, <2>2, <2>3, SentEvents
    <2> QED BY <1>0, <2>2, <2>3, <2>4 DEF EventsInv
  <1>6. ASSUME NEW c \in Callers, CallerStep(c) PROVE EventsInv'
    <2>1. CASE Evict(c)
      <3>1. \A d \in Callers : call'[d].events = call[d].events
        BY <1>0, <2>1 DEF Evict, TypeOK, Calls
      <3> QED BY <1>0, <2>1, <3>1 DEF Evict, Goto, TypeOK, EventsInv
    <2>2. CASE ~Evict(c)
      BY <1>2, <1>3, <1>4, <1>5, <1>6, <2>2
         DEF CallerStep, Configure, Build, SaveOk, SaveFails, Install, Keep, RollBack
    <2> QED BY <2>1, <2>2
  <1>7. CASE SetProviderSecrets \/ Start \/ StartFails \/ UNCHANGED vars
    BY <1>0, <1>7 DEF SetProviderSecrets, Start, StartFails, vars, EventsInv
  <1>8. CASE Crash
    BY <1>8 DEF Crash, EventsInv
  <1> QED BY <1>1, <1>6, <1>7, <1>8 DEF Next

\* The value on trial is what a restore set aside, and only while it holds the
\* lock between its two renames and its reload.
LEMMA TrialIs ==
    ASSUME RInv
    PROVE  /\ (\A c \in Callers : pc[c] \notin {"install", "reload"}) => Trial = NoTrial
           /\ \A c \in Callers : pc[c] \in {"install", "reload"} =>
                 Trial = call[c].saved /\ Trial # NoTrial
           /\ \A c \in Callers : pc[c] \in Holding =>
                 lock = c /\ \A d \in Callers \ {c} : pc[d] \notin Holding
  <1>1. \A c \in Callers : call[c].saved # NoTrial
    BY NoTrialAssumption DEF RInv, IInv, TypeOK, Calls
  <1> QED BY <1>1 DEF Trial, RInv, IInv, LockInv, Holding

\* A step that takes no caller through the register's steps.
LEMMA Quiet ==
    ASSUME RInv, NEW c \in Callers, NEW step, Goto(c, step),
           pc[c] \notin {"install", "reload", "swap", "announce"},
           step \notin {"install", "reload", "swap", "announce"},
           lock \in {c, Nobody}, lock' \in {c, Nobody},
           \A d \in Callers \ {c} : call'[d] = call[d]
    PROVE  Trial' = Trial /\ Owed' = Owed
  <1>0. TypeOK /\ Nobody \notin Callers
    BY SettingsAssumption DEF RInv, IInv
  <1>1. pc'[c] = step /\ \A d \in Callers \ {c} : pc'[d] = pc[d]
    BY <1>0, Others
  <1>2. Trial = NoTrial /\ Trial' = NoTrial
    BY <1>0, <1>1 DEF Trial
  <1>3. Owed' = Owed
    BY <1>1 DEF Owed
  <1> QED BY <1>2, <1>3

\* The steps of a transaction, in the register's terms.
LEMMA RegisterRequest ==
    ASSUME RInv, NEW c \in Callers, Request(c)
    PROVE  disk' = disk /\ Trial' = Trial /\ Owed' = Owed
  <1>0. TypeOK
    BY DEF RInv, IInv
  <1>1. PICK next \in Settings, events \in Announcements, restore \in BOOLEAN :
              Begin(c, next, events, restore)
    BY <1>0, RequestBegins
  <1>2. PICK step \in {"configure", "save"} : Goto(c, step)
    BY <1>1 DEF Begin
  <1>3. \A d \in Callers \ {c} : call'[d] = call[d]
    BY <1>0, <1>1 DEF Begin, TypeOK
  <1>4. pc[c] = "idle" /\ lock = Nobody /\ lock' = c /\ UNCHANGED disk
    BY <1>1 DEF Begin
  <1> QED BY <1>2, <1>3, <1>4, Quiet

LEMMA RegisterFail ==
    ASSUME RInv, NEW c \in Callers, Fail(c),
           pc[c] \in {"configure", "build", "save", "evict"}
    PROVE  Trial' = Trial /\ Owed' = Owed
  <1>0. TypeOK
    BY DEF RInv, IInv
  <1>1. \A d \in Callers \ {c} : call'[d] = call[d]
    BY <1>0 DEF Fail, TypeOK
  <1>2. lock = c /\ lock' = Nobody
    BY TrialIs DEF Fail, Holding
  <1> QED BY <1>1, <1>2, Quiet DEF Fail

LEMMA RegisterSave ==
    ASSUME RInv, NEW c \in Callers, SaveOk(c)
    PROVE  Register!Commit(c)
  <1>0. TypeOK
    BY DEF RInv, IInv
  <1> USE DEF SaveOk, Holding
  <1>1. call[c].next \in Settings /\ call[c].events \in Announcements
    BY DEF RInv, IInv, TypeOK, Calls, EventsInv
  <1>2. pc'[c] = "swap" /\ \A d \in Callers \ {c} : pc'[d] = pc[d]
    BY <1>0, Others
  <1>3. \A d \in Callers : pc[d] \notin {"install", "reload"}
    BY TrialIs
  <1>4. Trial = NoTrial /\ Trial' = NoTrial
    BY <1>2, <1>3 DEF Trial
  <1>5. Owed[c] = <<>> /\ Owed' = [Owed EXCEPT ![c] = call[c].events]
    BY <1>2 DEF Owed
  <1> QED BY <1>1, <1>4, <1>5 DEF Register!Commit, Trial, Owed, Announcements

LEMMA RegisterRestore ==
    ASSUME RInv, NEW c \in Callers
    PROVE  /\ Evict(c) => Register!BeginTrial
           /\ Install(c) => Register!FillTrial
           /\ Keep(c) => Register!KeepTrial(c)
           /\ RollBack(c) => Register!UndoTrial \/ UNCHANGED <<disk, Trial, Owed>>
  <1>0. TypeOK
    BY DEF RInv, IInv
  <1> USE DEF Holding
  <1>1. ASSUME NEW step \in {"install", "reload"}, Goto(c, step), UNCHANGED lock,
               pc[c] \in {"evict", "install"},
               \A d \in Callers \ {c} : call'[d] = call[d]
        PROVE  Trial' = call'[c].saved /\ Owed' = Owed
    <2>1. pc'[c] = step /\ \A d \in Callers \ {c} : pc'[d] = pc[d]
      BY <1>0, <1>1, Others
    <2>2. lock' = c
      BY <1>1, TrialIs
    <2>3. Trial' = call'[c].saved
      BY <1>1, <2>1, <2>2 DEF Trial
    <2>4. Owed' = Owed
      BY <1>1, <2>1 DEF Owed
    <2> QED BY <2>3, <2>4
  <1>2. ASSUME Evict(c) PROVE Register!BeginTrial
    <2>1. call'[c].saved = disk /\ \A d \in Callers \ {c} : call'[d] = call[d]
      BY <1>0, <1>2 DEF Evict, TypeOK, Calls
    <2>2. \A d \in Callers : pc[d] \notin {"install", "reload"}
      BY <1>2, TrialIs DEF Evict
    <2>3. Trial = NoTrial
      BY <2>2, TrialIs
    <2>4. Trial' = disk /\ Owed' = Owed
      BY <1>1, <1>2, <2>1 DEF Evict
    <2> QED BY <1>2, <2>3, <2>4 DEF Evict, Register!BeginTrial, Trial, Owed
  <1>3. ASSUME Install(c) PROVE Register!FillTrial
    <2>1. call[c].next \in Settings
      BY <1>0 DEF TypeOK, Calls
    <2>2. pc[c] = "install"
      BY <1>3 DEF Install
    <2>3. Trial = call[c].saved /\ Trial # NoTrial
      BY <2>2, TrialIs
    <2>4. Trial' = call[c].saved /\ Owed' = Owed
      BY <1>1, <1>3 DEF Install
    <2> QED BY <1>3, <2>1, <2>3, <2>4 DEF Install, Register!FillTrial, Trial, Owed
  <1>4. ASSUME Keep(c) PROVE Register!KeepTrial(c)
    <2>1. pc[c] = "reload" /\ lock = c
      BY <1>4, TrialIs DEF Keep
    <2>2. disk = call[c].next /\ disk # Absent
      BY <2>1, SettingsAssumption DEF RInv, IInv, ProgressInv, TypeOK, Calls
    <2>3. Trial # NoTrial /\ \A d \in Callers \ {c} : pc[d] \notin Holding
      BY <2>1, TrialIs
    <2>4. pc'[c] = "swap" /\ \A d \in Callers \ {c} : pc'[d] = pc[d]
      BY <1>0, <1>4, Others DEF Keep
    <2>5. Trial' = NoTrial
      BY <2>3, <2>4 DEF Trial
    <2>6. call[c].events \in Announcements
      BY <1>4 DEF Keep, RInv, EventsInv
    <2>7. Owed[c] = <<>> /\ Owed' = [Owed EXCEPT ![c] = call[c].events]
      BY <1>4, <2>4 DEF Keep, Owed
    <2> QED BY <1>4, <2>2, <2>3, <2>5, <2>6, <2>7
            DEF Keep, Register!KeepTrial, Trial, Owed, Announcements
  <1>5. ASSUME RollBack(c), pc[c] = "evict" PROVE UNCHANGED <<disk, Trial, Owed>>
    <2>1. disk' = disk /\ Fail(c)
      BY <1>5 DEF RollBack
    <2> QED BY <1>5, <2>1, RegisterFail
  <1>6. ASSUME RollBack(c), pc[c] # "evict" PROVE Register!UndoTrial
    <2>1. pc[c] \in {"install", "reload"} /\ Fail(c)
          /\ disk' \in {call[c].saved, disk, Absent}
      BY <1>6 DEF RollBack
    <2>2. Trial = call[c].saved /\ Trial # NoTrial
          /\ \A d \in Callers \ {c} : pc[d] \notin Holding
      BY <2>1, TrialIs
    <2>3. /\ pc'[c] = "idle" /\ \A d \in Callers \ {c} : pc'[d] = pc[d]
          /\ \A d \in Callers \ {c} : call'[d] = call[d]
      BY <1>0, <2>1, Others DEF Fail, TypeOK
    <2>4. Trial' = NoTrial
      BY <2>2, <2>3 DEF Trial
    <2>5. Owed' = Owed
      BY <2>1, <2>3 DEF Owed
    <2> QED BY <2>1, <2>2, <2>4, <2>5 DEF Register!UndoTrial, Trial, Owed
  <1> QED BY <1>2, <1>3, <1>4, <1>5, <1>6

LEMMA RegisterSwap ==
    ASSUME RInv, NEW c \in Callers, Swap(c)
    PROVE  UNCHANGED <<disk, Trial, Owed>>
  <1>0. TypeOK
    BY DEF RInv, IInv
  <1>1. pc[c] = "swap" /\ pc'[c] = "announce" /\ \A d \in Callers \ {c} : pc'[d] = pc[d]
    BY <1>0, Others DEF Swap
  <1>2. \A d \in Callers \ {c} : pc[d] \notin Holding
    BY <1>1, TrialIs DEF Holding
  <1>3. Trial = NoTrial /\ Trial' = NoTrial
    BY <1>1, <1>2 DEF Trial, Holding
  <1>4. call'[c].events = call[c].events /\ \A d \in Callers \ {c} : call'[d] = call[d]
    BY <1>0 DEF Swap, TypeOK, NoCall
  <1>5. Owed' = Owed
    BY <1>1, <1>4 DEF Owed
  <1> QED BY <1>3, <1>5 DEF Swap

LEMMA RegisterAnnounce ==
    ASSUME RInv, NEW c \in Callers, Announce(c)
    PROVE  Register!Send(c)
  <1>0. TypeOK /\ call[c] \in Calls
    BY DEF RInv, IInv, TypeOK
  <1>1. pc[c] = "announce" /\ call[c].events # <<>>
    BY DEF RInv, EventsInv, Announce
  <1>2. pc'[c] = (IF Len(call[c].events) <= 1 THEN "idle" ELSE "announce")
        /\ \A d \in Callers \ {c} : pc'[d] = pc[d]
    BY <1>0, Others DEF Announce
  <1>3. call'[c] = Sent(call[c]) /\ \A d \in Callers \ {c} : call'[d] = call[d]
    BY <1>0 DEF Announce, TypeOK
  <1>4. \A d \in Callers : pc'[d] \in {"install", "reload"} <=> pc[d] \in {"install", "reload"}
    BY <1>1, <1>2
  <1>5. Trial' = Trial
    BY <1>4 DEF Trial, Announce
  <1>6. Owed[c] = call[c].events /\ Owed'[c] = Tail(call[c].events)
    BY <1>0, <1>1, <1>2, <1>3, SentEvents DEF Owed
  <1>7. \A d \in Callers \ {c} : Owed'[d] = Owed[d]
    BY <1>2, <1>3 DEF Owed
  <1>8. Owed' = [Owed EXCEPT ![c] = Tail(@)]
    BY <1>6, <1>7 DEF Owed
  <1> QED BY <1>1, <1>5, <1>6, <1>8 DEF Register!Send, Trial, Owed, Announce

LEMMA RegisterProcess ==
    ASSUME RInv
    PROVE  /\ SetProviderSecrets => UNCHANGED <<disk, Trial, Owed>>
           /\ Crash => Register!Die
           /\ Start \/ StartFails =>
                 Register!Recover \/ UNCHANGED <<disk, Trial, Owed>>
  <1>1. ASSUME SetProviderSecrets PROVE UNCHANGED <<disk, Trial, Owed>>
    <2>1. UNCHANGED <<disk, pc, call>> /\ lock = Nobody
      BY <1>1 DEF SetProviderSecrets
    <2>2. \A c \in Callers : pc[c] \notin Holding
      BY <2>1, SettingsAssumption DEF RInv, IInv, LockInv
    <2>3. Trial = NoTrial /\ Trial' = NoTrial
      BY <2>1, <2>2 DEF Trial, Holding
    <2>4. Owed' = Owed
      BY <2>1 DEF Owed
    <2> QED BY <2>1, <2>3, <2>4
  <1>2. ASSUME Crash PROVE Register!Die
    <2>1. Trial' = NoTrial
      BY <1>2 DEF Crash, Trial
    <2>2. Owed' = [c \in Callers |-> <<>>]
      BY <1>2 DEF Crash, Owed
    <2> QED BY <1>2, <2>1, <2>2 DEF Crash, Register!Die, Register!NothingOwed, Trial, Owed
  <1>3. ASSUME Start \/ StartFails
        PROVE  Register!Recover \/ UNCHANGED <<disk, Trial, Owed>>
    <2>1. UNCHANGED <<pc, call>> /\ disk' \in {disk, Loaded} /\ ~up
      BY <1>3 DEF Start, StartFails
    <2>2. \A c \in Callers : pc[c] = "idle"
      BY <2>1 DEF RInv, IInv, DownInv
    <2>3. Trial = NoTrial /\ Trial' = NoTrial
      BY <2>1, <2>2 DEF Trial
    <2>4. Owed' = Owed
      BY <2>1 DEF Owed
    <2>5. disk' = disk \/ (disk = Absent /\ disk' = FreshSettings)
      BY <2>1 DEF Loaded
    <2> QED BY <2>3, <2>4, <2>5 DEF Register!Recover, Trial, Owed
  <1> QED BY <1>1, <1>2, <1>3

LEMMA RegisterStep == RInv /\ [Next]_vars => [Register!RNext]_<<disk, Trial, Owed>>
  <1> SUFFICES ASSUME RInv, [Next]_vars PROVE [Register!RNext]_<<disk, Trial, Owed>>
    OBVIOUS
  <1>1. ASSUME NEW c \in Callers, Request(c) PROVE UNCHANGED <<disk, Trial, Owed>>
    BY <1>1, RegisterRequest
  <1>2. ASSUME NEW c \in Callers, CallerStep(c)
        PROVE  [Register!RNext]_<<disk, Trial, Owed>>
    <2>1. CASE Configure(c)
      <3>1. CASE Fail(c)
        BY <2>1, <3>1, RegisterFail DEF Configure
      <3>2. CASE Goto(c, "build") /\ UNCHANGED <<lock, call>>
        <4>1. lock = c /\ lock' = c
          BY <2>1, <3>2, TrialIs DEF Configure, Holding
        <4> QED BY <2>1, <3>2, <4>1, Quiet DEF Configure
      <3> QED BY <2>1, <3>1, <3>2 DEF Configure
    <2>2. CASE Build(c)
      <3>1. CASE Fail(c)
        BY <2>2, <3>1, RegisterFail DEF Build
      <3>2. CASE UNCHANGED <<lock, call>> /\ \E step \in {"evict", "save"} : Goto(c, step)
        <4>1. lock = c /\ lock' = c
          BY <2>2, <3>2, TrialIs DEF Build, Holding
        <4> QED BY <2>2, <3>2, <4>1, Quiet DEF Build
      <3> QED BY <2>2, <3>1, <3>2 DEF Build
    <2>3. CASE SaveOk(c)
      BY <2>3, RegisterSave DEF Register!RNext
    <2>4. CASE SaveFails(c)
      BY <2>4, RegisterFail DEF SaveFails
    <2>5. CASE Evict(c) \/ Install(c) \/ Keep(c) \/ RollBack(c)
      BY <2>5, RegisterRestore DEF Register!RNext
    <2>6. CASE Swap(c)
      BY <2>6, RegisterSwap
    <2>7. CASE Announce(c)
      BY <2>7, RegisterAnnounce DEF Register!RNext
    <2> QED BY <1>2, <2>1, <2>2, <2>3, <2>4, <2>5, <2>6, <2>7 DEF CallerStep
  <1>3. CASE SetProviderSecrets \/ Crash \/ Start \/ StartFails
    BY <1>3, RegisterProcess DEF Register!RNext
  <1>4. CASE UNCHANGED vars
    BY <1>4 DEF vars, Trial, Owed
  <1> QED BY <1>1, <1>2, <1>3, <1>4 DEF Next

\* The step-by-step transaction, with its failures, restores and deaths,
\* implements a durable value that changes in one step, each change followed
\* by its events, once each and in order.
THEOREM RegisterImplemented == Spec => ImplementsRegister
  <1>1. Init => Register!RInit
    BY DEF Init, Register!RInit, Register!NothingOwed
  <1>2. Init => RInv
    BY InitInv, InitEvents DEF RInv
  <1>3. RInv /\ [Next]_vars => RInv'
    BY NextInv, NextEvents DEF RInv
  <1>4. RInv /\ [Next]_vars => [Register!RNext]_<<disk, Trial, Owed>>
    BY RegisterStep
  <1>5. [Register!RNext]_<<disk, Trial, Owed>> => [Register!RNext]_Register!rvars
    BY DEF Register!rvars, Trial, Owed
  <1> QED BY <1>1, <1>2, <1>3, <1>4, <1>5, PTL
          DEF Spec, ImplementsRegister, Register!RSpec

=============================================================================
