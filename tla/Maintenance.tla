----------------------------- MODULE Maintenance -----------------------------
(***************************************************************************)
(* The tools of the window that change the computer or look into it at the *)
(* user's wish: the cleaning of a finding, what starts with Windows, the   *)
(* commands of Windows, the space of the cloud and the installers.  They   *)
(* share the history, and a behaviour uses one of them.                    *)
(***************************************************************************)
EXTENDS CleanupService, StartupControl, OfficialCommand, CloudRelease, InstallerCache

VARIABLE
  tool    \* the one used

maintenanceVars ==
  <<tool, logVars, cleanupVars, startupVars, commandVars, cloudVars, installerVars>>

Tools == {"cleaning", "startup", "command", "cloud", "installers"}

\* Of a tool that is not used the state does not matter: one is taken.
MaintenanceInit ==
  /\ tool \in Tools
  /\ LogInit
  /\ CleanupInit   /\ (tool = "cleaning" \/ \A p \in FilePaths : disk[p] = 0)
  /\ StartupInit   /\ (tool = "startup" \/ (present = {} /\ elevated
                                                  /\ \A k \in StartupKeys : approved[k] = "none"))
  /\ CommandInit   /\ (tool = "command" \/ administrator)
  /\ CloudInit     /\ (tool = "cloud" \/ \A f \in CloudFiles : attributes[f] = {})
  /\ InstallerInit /\ (tool = "installers" \/ (installed = <<>> /\ kept = {}))

UseCleaning   == tool = "cleaning" /\ CleanupNext
                 /\ UNCHANGED <<tool, startupVars, commandVars, cloudVars, installerVars>>
UseStartup    == tool = "startup" /\ StartupNext
                 /\ UNCHANGED <<tool, cleanupVars, commandVars, cloudVars, installerVars>>
UseCommand    == tool = "command" /\ CommandNext
                 /\ UNCHANGED <<tool, cleanupVars, startupVars, cloudVars, installerVars>>
UseCloud      == tool = "cloud" /\ CloudNext
                 /\ UNCHANGED <<tool, cleanupVars, startupVars, commandVars, installerVars>>
UseInstallers == tool = "installers" /\ InstallerNext
                 /\ UNCHANGED <<tool, logVars, cleanupVars, startupVars, commandVars, cloudVars>>

MaintenanceNext == UseCleaning \/ UseStartup \/ UseCommand \/ UseCloud \/ UseInstallers

\* The runner's own steps and the clock go on; the user and the programs of
\* Windows need not.
MaintenanceSpec ==
  /\ MaintenanceInit
  /\ [][MaintenanceNext]_maintenanceVars
  /\ WF_maintenanceVars(UseCommand /\ RunnerStep)
  /\ WF_maintenanceVars(UseCommand /\ DeadlinePasses)

-----------------------------------------------------------------------------

\* Types of the tools: each is at one of its stages, and what one stage hands
\* to the next, a size read, a switch about to be written, a chunk in the pipe,
\* is there only while that stage lasts.
TypeOK == CleanupTypes /\ StartupTypes /\ CommandTypes /\ CloudTypes /\ InstallerTypes
=============================================================================
