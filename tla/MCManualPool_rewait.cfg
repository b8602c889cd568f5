CONSTANTS
  Callers = {a, b}
  Initial = {c1}
  Spare = {s1}
  Faults = {}
  Retried = {"wait"}
  NoCluster = NoCluster
SPECIFICATION Spec

PROPERTY NoForeignHibernate
