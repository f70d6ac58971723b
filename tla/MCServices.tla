------------------------------ MODULE MCServices ------------------------------
(***************************************************************************)
(* The instances of the parts that no other module acts on.  Which part a  *)
(* behaviour is about is chosen at its start, and the other parts stay as  *)
(* they were then: one run checks the properties of them all.              *)
(***************************************************************************)
EXTENDS MailQuota, AttachmentFiles, MCRelaying, SpamTraining, MailImport, MailLabels,
        MCJmapMailboxes, SenderAuth, MailDirectory, MCLifecycle, TLC

VARIABLE part

Parts == {"quota", "files", "relay", "spam", "import", "labels", "mailboxes", "auth",
          "directory", "process"}

\* The other parts are as their Init left them.
ServicesTypeOK ==
    CASE part = "quota" -> QuotaTypeOK
      [] part = "files" -> FilesTypeOK
      [] part = "relay" -> RelayingTypeOK
      [] part = "spam" -> TrainingTypeOK
      [] part = "import" -> ImportTypeOK
      [] part = "labels" -> LabelsTypeOK
      [] part = "mailboxes" -> MailboxesTypeOK
      [] part = "auth" -> AuthTypeOK
      [] part = "directory" -> DirectoryTypeOK
      [] part = "process" -> LifecycleTypeOK

\* A part that several initial states are possible for has one of them when the
\* behaviour is about another part.
ServicesInit ==
    /\ part \in Parts
    /\ QuotaInit /\ FilesInit /\ RelayingInit /\ TrainingInit /\ ImportInit
    /\ LabelsInit /\ MailboxesInit /\ AuthInit /\ DirectoryInit /\ LifecycleInit
    /\ part # "relay" => router = "ses"
    /\ part # "import" => mode = "message_id"
    /\ part # "labels" => name = [l \in Labels |-> CHOOSE k \in Keywords : TRUE]
    /\ part # "process" => steps = StartOrder(Optional)

QuotaStep ==
    /\ part = "quota" /\ QuotaNext
    /\ UNCHANGED <<part, filesVars, relayVars, trainingVars, importVars,
                   labelVars, mailboxVars, authVars, directoryVars, lifecycleVars>>

FilesStep ==
    /\ part = "files" /\ FilesNext
    /\ UNCHANGED <<part, quotaVars, relayVars, trainingVars, importVars,
                   labelVars, mailboxVars, authVars, directoryVars, lifecycleVars>>

RelayingStep ==
    /\ part = "relay" /\ RelayingNext
    /\ UNCHANGED <<part, quotaVars, filesVars, trainingVars, importVars,
                   labelVars, mailboxVars, authVars, directoryVars, lifecycleVars>>

TrainingStep ==
    /\ part = "spam" /\ TrainingNext
    /\ UNCHANGED <<part, quotaVars, filesVars, relayVars, importVars,
                   labelVars, mailboxVars, authVars, directoryVars, lifecycleVars>>

ImportStep ==
    /\ part = "import" /\ ImportNext
    /\ UNCHANGED <<part, quotaVars, filesVars, relayVars, trainingVars,
                   labelVars, mailboxVars, authVars, directoryVars, lifecycleVars>>

LabelsStep ==
    /\ part = "labels" /\ LabelsNext
    /\ UNCHANGED <<part, quotaVars, filesVars, relayVars, trainingVars, importVars,
                   mailboxVars, authVars, directoryVars, lifecycleVars>>

MailboxesStep ==
    /\ part = "mailboxes" /\ MailboxesNext
    /\ UNCHANGED <<part, quotaVars, filesVars, relayVars, trainingVars, importVars,
                   labelVars, authVars, directoryVars, lifecycleVars>>

AuthStep ==
    /\ part = "auth" /\ AuthNext
    /\ UNCHANGED <<part, quotaVars, filesVars, relayVars, trainingVars, importVars,
                   labelVars, mailboxVars, directoryVars, lifecycleVars>>

DirectoryStep ==
    /\ part = "directory" /\ DirectoryNext
    /\ UNCHANGED <<part, quotaVars, filesVars, relayVars, trainingVars, importVars,
                   labelVars, mailboxVars, authVars, lifecycleVars>>

LifecycleStep ==
    /\ part = "process" /\ LifecycleNext
    /\ UNCHANGED <<part, quotaVars, filesVars, relayVars, trainingVars, importVars,
                   labelVars, mailboxVars, authVars, directoryVars>>

ServicesNext ==
    \/ QuotaStep \/ FilesStep \/ RelayingStep \/ TrainingStep \/ ImportStep
    \/ LabelsStep \/ MailboxesStep \/ AuthStep \/ DirectoryStep \/ LifecycleStep

servicesVars == <<part, quotaVars, filesVars, relayVars, trainingVars, importVars, labelVars,
                  mailboxVars, authVars, directoryVars, lifecycleVars>>

ServicesSpec == ServicesInit /\ [][ServicesNext]_servicesVars

-----------------------------------------------------------------------------
\* Values of the constants.

QuotaSizes == <<5, 1, 1>>

TxtAsked == [spf |-> <<"a", "b">>, dkim |-> <<"b">>, dmarc |-> <<"a">>]

OneWorkspace == [b \in HostedBoxes |-> "w1"]

\* Concurrent requests are alike, and so are the addresses or messages they are
\* about.
Alike == Permutations(Callers) \cup Permutations(Aliases)
===============================================================================
