CONSTANTS
  installer = installer
  setup = setup
  shell = shell
  panel = panel
  person = person
  other = other
  Admin = Admin
  None = None
  Processes = {installer, setup, shell}
  Accounts <- MCAccounts
  Account <- MCAccount
SPECIFICATION Spec
INVARIANTS ReportedIsRead
PROPERTIES RefusedAlone
