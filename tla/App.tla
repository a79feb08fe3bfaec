--------------------------------- MODULE App ---------------------------------
(***************************************************************************)
(* The tab: the session decides which page is mounted.                      *)
(*                                                                         *)
(* Steps of a page and steps of the session that leave it where it is touch *)
(* different state and commute, so that the session stands still here while *)
(* a page is mounted.  A page that is left is forgotten (what it has sent   *)
(* is what others send to the next one): the session then goes on as if it  *)
(* had not been mounted, which needs no step of its own.                    *)
(***************************************************************************)
EXTENDS Session, Illumination, UserAdmin, SettingsForm, HardwareHealth, TvAlerts

VARIABLES mounted   \* the page, or the tab of a page, that is mounted

pageVars == <<lightVars, userVars, settingsVars, healthVars, tvVars>>
appVars == <<sessionVars, mounted, pageVars>>

NoPage == "none"

\* The pages of a route; Admin mounts one of its tabs.
PagesOf(p) ==
    CASE p = "/illumination" -> {"illumination"}
      [] p = "/admin" -> {"users", "config"}
      [] p = "/hardware" -> {"hardware"}
      [] p = "/tv-display" -> {"tv"}
      [] OTHER -> {}

PagesInit == IlluminationInit /\ UserInit /\ SettingsInit /\ HealthInit /\ TvInit

AppInit == SessionInit /\ mounted = NoPage /\ PagesInit

------------------------------------------------------------------------------
SessionStep ==
    /\ mounted = NoPage
    /\ SessionNext
    /\ UNCHANGED <<mounted, pageVars>>

\* ProtectedRoute shows its children; nothing of the session is under way.
Mount ==
    /\ mounted = NoPage /\ mounted' \in PagesOf(route)
    /\ Settled /\ user.role \in AllowedRoles(route)
    /\ ~notice /\ leaving = Stay /\ ~popup /\ ~asked /\ ~overtaken /\ user.uid = auth
    /\ UNCHANGED <<sessionVars, pageVars>>

PageStep ==
    /\ UNCHANGED <<sessionVars, mounted>>
    /\ \/ /\ mounted = "illumination" /\ IlluminationNext
          /\ UNCHANGED <<userVars, settingsVars, healthVars, tvVars>>
       \/ /\ mounted = "users" /\ UserNext
          /\ UNCHANGED <<lightVars, settingsVars, healthVars, tvVars>>
       \/ /\ mounted = "config" /\ SettingsNext
          /\ UNCHANGED <<lightVars, userVars, healthVars, tvVars>>
       \/ /\ mounted = "hardware" /\ HealthNext
          /\ UNCHANGED <<lightVars, userVars, settingsVars, tvVars>>
       \/ /\ mounted = "tv" /\ TvNext
          /\ UNCHANGED <<lightVars, userVars, settingsVars, healthVars>>

AppNext == SessionStep \/ Mount \/ PageStep

\* The session's fairness; nothing is assumed of the pages.
AppSpec == AppInit /\ [][AppNext]_appVars /\ SessionFairness

==============================================================================
