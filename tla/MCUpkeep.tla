------------------------------- MODULE MCUpkeep -------------------------------
(***************************************************************************)
(* The components of the worker that share neither rows nor objects with    *)
(* each other: the gas monitor and its receipts, the artwork mirror (all    *)
(* run by the cron), wallet provisioning and issuer administration (run by  *)
(* requests), and the personal archives that browsers make. A behaviour is  *)
(* one of them at work; the others rest.                                    *)
(***************************************************************************)
EXTENDS GasMonitor, GasReceipts, ArchiveMirror, WalletProvisioning, IssuerAdmin,
        MCExport

VARIABLE part

upkeepVars == <<part, gasVars, receiptVars, mirrorVars, walletVars, issuerVars,
                exportVars>>

Parts == {"monitor", "receipts", "mirror", "wallets", "issuers", "archive"}

UpkeepInit ==
    /\ part \in Parts
    /\ GasInit /\ ReceiptsInit /\ MirrorInit /\ WalletInit /\ IssuerInit
    /\ ExportInit
    /\ part # "monitor" => balance = AnyBalance
    /\ part # "mirror" => mirrored = {}
    /\ part # "issuers" => event.status = "draft"
    /\ ~split  \* ExportStops has the other case
    /\ part # "archive" => changed = {}

Monitor == part = "monitor" /\ GasNext
           /\ UNCHANGED <<part, receiptVars, mirrorVars, walletVars, issuerVars,
                           exportVars>>
Receipts == part = "receipts" /\ ReceiptsNext
            /\ UNCHANGED <<part, gasVars, mirrorVars, walletVars, issuerVars,
                           exportVars>>
Mirror == part = "mirror" /\ MirrorNext
          /\ UNCHANGED <<part, gasVars, receiptVars, walletVars, issuerVars,
                           exportVars>>
Wallets == part = "wallets" /\ WalletNext
           /\ UNCHANGED <<part, gasVars, receiptVars, mirrorVars, issuerVars,
                           exportVars>>
Issuers == part = "issuers" /\ IssuerNext
           /\ UNCHANGED <<part, gasVars, receiptVars, mirrorVars, walletVars,
                           exportVars>>

Archive == part = "archive" /\ ExportNext
           /\ UNCHANGED <<part, gasVars, receiptVars, mirrorVars, walletVars,
                          issuerVars>>

UpkeepNext == Monitor \/ Receipts \/ Mirror \/ Wallets \/ Issuers \/ Archive

(* The cron starts runs of every part it serves, runs go on, and time       *)
(* passes; a tab goes on with its export. Nobody has to start anything else. *)
UpkeepSpec ==
    /\ UpkeepInit /\ [][UpkeepNext]_upkeepVars
    /\ WF_gasVars(part = "monitor" /\ GasTick)
    /\ \A r \in GasRuns : WF_gasVars(part = "monitor" /\ StartRun(r))
                       /\ WF_gasVars(part = "monitor" /\ GasStep(r))
    /\ WF_receiptVars(part = "receipts" /\ ReceiptTick)
    /\ \A f \in Fillers : WF_receiptVars(part = "receipts" /\ FillStep(f))
    /\ \A r \in MirrorRuns : WF_mirrorVars(part = "mirror" /\ MirrorStep(r))
    /\ WF_exportVars(part = "archive" /\ TabStep)

Informed == part = "monitor" => OperatorsInformed
ReceiptsArrive == part = "receipts" => EveryReceiptArrives
MirrorEnds == part = "mirror" => MirrorCompletes
ArchiveEnds == part = "archive" => ExportEnds

(* What the cron is for is done in the end, through failing calls and runs  *)
(* that overlap: alerts, receipts and the mirror. And every export ends.    *)
UpkeepSucceeds == Informed /\ ReceiptsArrive /\ MirrorEnds /\ ArchiveEnds
=============================================================================
