---------------------------- MODULE ServicesProofs ----------------------------
(***************************************************************************)
(* The parts that no other module acts on, put together as one run checks  *)
(* them.  A behaviour of them all is one of each part, since the variables *)
(* of a part change only by its own steps: so whatever is proved of a part *)
(* holds when it stands beside the others.                                 *)
(***************************************************************************)
EXTENDS MCServices, MailboxServicesProofs, ServerServicesProofs

LEMMA QuotaPart == ServicesSpec => QuotaSpec
<1>1. ServicesInit => QuotaInit
    BY DEF ServicesInit
<1>2. [ServicesNext]_servicesVars => [QuotaNext]_quotaVars
    BY DEF ServicesNext, servicesVars, QuotaStep, FilesStep, RelayingStep, TrainingStep, ImportStep,
        LabelsStep, MailboxesStep, AuthStep, DirectoryStep, LifecycleStep
<1> QED
    BY <1>1, <1>2, PTL DEF ServicesSpec, QuotaSpec

LEMMA FilesPart == ServicesSpec => FilesSpec
<1>1. ServicesInit => FilesInit
    BY DEF ServicesInit
<1>2. [ServicesNext]_servicesVars => [FilesNext]_filesVars
    BY DEF ServicesNext, servicesVars, QuotaStep, FilesStep, RelayingStep, TrainingStep, ImportStep,
        LabelsStep, MailboxesStep, AuthStep, DirectoryStep, LifecycleStep
<1> QED
    BY <1>1, <1>2, PTL DEF ServicesSpec, FilesSpec

LEMMA RelayingPart == ServicesSpec => RelayingSpec
<1>1. ServicesInit => RelayingInit
    BY DEF ServicesInit
<1>2. [ServicesNext]_servicesVars => [RelayingNext]_relayVars
    BY DEF ServicesNext, servicesVars, QuotaStep, FilesStep, RelayingStep, TrainingStep, ImportStep,
        LabelsStep, MailboxesStep, AuthStep, DirectoryStep, LifecycleStep
<1> QED
    BY <1>1, <1>2, PTL DEF ServicesSpec, RelayingSpec

LEMMA TrainingPart == ServicesSpec => TrainingSpec
<1>1. ServicesInit => TrainingInit
    BY DEF ServicesInit
<1>2. [ServicesNext]_servicesVars => [TrainingNext]_trainingVars
    BY DEF ServicesNext, servicesVars, QuotaStep, FilesStep, RelayingStep, TrainingStep, ImportStep,
        LabelsStep, MailboxesStep, AuthStep, DirectoryStep, LifecycleStep
<1> QED
    BY <1>1, <1>2, PTL DEF ServicesSpec, TrainingSpec

LEMMA ImportPart == ServicesSpec => ImportSpec
<1>1. ServicesInit => ImportInit
    BY DEF ServicesInit
<1>2. [ServicesNext]_servicesVars => [ImportNext]_importVars
    BY DEF ServicesNext, servicesVars, QuotaStep, FilesStep, RelayingStep, TrainingStep, ImportStep,
        LabelsStep, MailboxesStep, AuthStep, DirectoryStep, LifecycleStep
<1> QED
    BY <1>1, <1>2, PTL DEF ServicesSpec, ImportSpec

LEMMA LabelsPart == ServicesSpec => LabelsSpec
<1>1. ServicesInit => LabelsInit
    BY DEF ServicesInit
<1>2. [ServicesNext]_servicesVars => [LabelsNext]_labelVars
    BY DEF ServicesNext, servicesVars, QuotaStep, FilesStep, RelayingStep, TrainingStep, ImportStep,
        LabelsStep, MailboxesStep, AuthStep, DirectoryStep, LifecycleStep
<1> QED
    BY <1>1, <1>2, PTL DEF ServicesSpec, LabelsSpec

LEMMA MailboxesPart == ServicesSpec => MailboxesSpec
<1>1. ServicesInit => MailboxesInit
    BY DEF ServicesInit
<1>2. [ServicesNext]_servicesVars => [MailboxesNext]_mailboxVars
    BY DEF ServicesNext, servicesVars, QuotaStep, FilesStep, RelayingStep, TrainingStep, ImportStep,
        LabelsStep, MailboxesStep, AuthStep, DirectoryStep, LifecycleStep
<1> QED
    BY <1>1, <1>2, PTL DEF ServicesSpec, MailboxesSpec

LEMMA AuthPart == ServicesSpec => AuthSpec
<1>1. ServicesInit => AuthInit
    BY DEF ServicesInit
<1>2. [ServicesNext]_servicesVars => [AuthNext]_authVars
    BY DEF ServicesNext, servicesVars, QuotaStep, FilesStep, RelayingStep, TrainingStep, ImportStep,
        LabelsStep, MailboxesStep, AuthStep, DirectoryStep, LifecycleStep
<1> QED
    BY <1>1, <1>2, PTL DEF ServicesSpec, AuthSpec

LEMMA DirectoryPart == ServicesSpec => DirectorySpec
<1>1. ServicesInit => DirectoryInit
    BY DEF ServicesInit
<1>2. [ServicesNext]_servicesVars => [DirectoryNext]_directoryVars
    BY DEF ServicesNext, servicesVars, QuotaStep, FilesStep, RelayingStep, TrainingStep, ImportStep,
        LabelsStep, MailboxesStep, AuthStep, DirectoryStep, LifecycleStep
<1> QED
    BY <1>1, <1>2, PTL DEF ServicesSpec, DirectorySpec

LEMMA LifecyclePart == ServicesSpec => LifecycleSpec
<1>1. ServicesInit => LifecycleInit
    BY DEF ServicesInit
<1>2. [ServicesNext]_servicesVars => [LifecycleNext]_lifecycleVars
    BY DEF ServicesNext, servicesVars, QuotaStep, FilesStep, RelayingStep, TrainingStep, ImportStep,
        LabelsStep, MailboxesStep, AuthStep, DirectoryStep, LifecycleStep
<1> QED
    BY <1>1, <1>2, PTL DEF ServicesSpec, LifecycleSpec

LEMMA PartChosen == ServicesSpec => [](part \in Parts)
<1>1. ServicesInit => part \in Parts
    BY DEF ServicesInit
<1>2. part \in Parts /\ [ServicesNext]_servicesVars => (part \in Parts)'
    BY DEF ServicesNext, servicesVars, QuotaStep, FilesStep, RelayingStep, TrainingStep,
        ImportStep, LabelsStep, MailboxesStep, AuthStep, DirectoryStep, LifecycleStep
<1> QED
    BY <1>1, <1>2, PTL DEF ServicesSpec

\* Whichever part of the server a behaviour is about, its state keeps its type:
\* rows, requests, markers, caches and sequences of steps stay what the code can
\* make of them.
THEOREM ServicesTypeCorrect == ServicesSpec => []ServicesTypeOK
<1>1. ServicesSpec => /\ []QuotaTypeOK /\ []FilesTypeOK /\ []RelayingTypeOK
                      /\ []TrainingTypeOK /\ []ImportTypeOK
    BY QuotaPart, QuotaTypeCorrect, FilesPart, FilesTypeCorrect, RelayingPart,
       RelayingTypeCorrect, TrainingPart, TrainingTypeCorrect, ImportPart, ImportTypeCorrect, PTL
<1>2. ServicesSpec => /\ []LabelsTypeOK /\ []MailboxesTypeOK /\ []AuthTypeOK
                      /\ []DirectoryTypeOK /\ []LifecycleTypeOK
    BY LabelsPart, LabelsTypeCorrect, MailboxesPart, MailboxesTypeCorrect, AuthPart,
       AuthTypeCorrect, DirectoryPart, DirectoryTypeCorrect, LifecyclePart, LifecycleTypeCorrect,
       PTL
<1>3. /\ part \in Parts
      /\ QuotaTypeOK /\ FilesTypeOK /\ RelayingTypeOK /\ TrainingTypeOK /\ ImportTypeOK
      /\ LabelsTypeOK /\ MailboxesTypeOK /\ AuthTypeOK /\ DirectoryTypeOK /\ LifecycleTypeOK
      => ServicesTypeOK
    BY DEF Parts, ServicesTypeOK
<1> QED
    BY <1>1, <1>2, <1>3, PartChosen, PTL

\* What each part promises holds where they stand side by side, as the run has
\* them: the plan is kept, files are collected and shared ones survive, mail is
\* sent to everyone, counts rest above zero, losses are reported, Mailbox/set takes
\* late mail only, the cache is sound, nothing dangles, forwarding and the
\* process stop as they should.
THEOREM ServicesHold ==
    ServicesSpec => /\ [](MailFitsThePlan /\ UnusedFilesAreCollected /\ SharedFilesSurvive
                          /\ SentMeansEveryone /\ CountsFloorAtZero /\ EveryLossIsReported
                          /\ DestroyTakesLateMailOnly /\ CacheIsSound /\ NothingDangles
                          /\ ForwardingStops /\ OrderlyStop)
                    /\ NewestAreRetained /\ RemovedKeywordsAreGone
<1>1. ServicesSpec => /\ []MailFitsThePlan /\ NewestAreRetained
                      /\ []UnusedFilesAreCollected /\ []SharedFilesSurvive
                      /\ []SentMeansEveryone /\ []CountsFloorAtZero
    BY QuotaPart, QuotaIsKept, OldestGoFirst, FilesPart, AbandonedFilesAreAlwaysCollected,
       SharedFilesAlwaysSurvive, RelayingPart, SentAlwaysMeansEveryone, TrainingPart, CountsFloor,
       PTL
<1>2. ServicesSpec => /\ []EveryLossIsReported /\ RemovedKeywordsAreGone
                      /\ []DestroyTakesLateMailOnly /\ []CacheIsSound
    BY ImportPart, LossesAreReported, LabelsPart, KeywordsGo, MailboxesPart,
       DestroyAlwaysTakesLateMailOnly, AuthPart, CacheStaysSound, PTL
<1>3. ServicesSpec => []NothingDangles /\ []ForwardingStops /\ []OrderlyStop
    BY DirectoryPart, NothingIsLeftDangling, ForwardingEnds, LifecyclePart, StopIsOrderly, PTL
<1> QED
    BY <1>1, <1>2, <1>3, PTL
===============================================================================
