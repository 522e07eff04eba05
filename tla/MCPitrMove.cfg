SPECIFICATION SafetySpec
CONSTANTS
  Storage = {s1, s2}
  Off = Off
  Absent = Absent
  CacheLag = {FALSE}
  Finalizers = {FALSE}
INVARIANT OneStorage
