SPECIFICATION Spec
CONSTANTS
  Sessions = {s1}
  Users = {s1}
  Providers = {"aws", "gcp"}
  AppPods = {p1, p2}
  MaxPolls = 2
  None = None
PROPERTIES PodIsReclaimed SessionsEnd AccessLasts
