CONSTANTS
  installer = installer
  setup = setup
  shell = shell
  panel = panel
  person = person
  other = other
  Admin = Admin
  None = None
  Processes = {installer, shell, panel}
  Accounts <- MCAccounts
  Account <- MCAccount
SPECIFICATION Spec
INVARIANT LeavesNothing
